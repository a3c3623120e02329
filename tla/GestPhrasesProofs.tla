------------------------- MODULE GestPhrasesProofs -------------------------
(***************************************************************************)
(* The phrases of a gesture, of any number, with metaphrases of any sizes  *)
(* and any counts of repeats and returns: however the commands of a script *)
(* follow one another, the chain they leave has no open end, and playing   *)
(* it never follows one.                                                   *)
(***************************************************************************)
EXTENDS GestPhrases, TLAPS

\* The types of a phrase's fields.
PhraseT ==
    [next : Nat, get : {"none", "seq", "goback"}, phrases : Seq(Nat), pos : Nat,
     reps : Nat, times : Nat, back : Nat]

\* A phrase of the chain as it is written: only the last one has nothing
\* after it.
Link(ps, i) ==
    /\ ps[i].next <= Len(ps) /\ ps[i].back <= Len(ps)
    /\ i < Len(ps) => ps[i].next # 0
    /\ ps[i].get = "none" => ps[i].pos = 0
    /\ ps[i].get = "goback" => ps[i].back # 0
    /\ ps[i].get # "seq" => ps[i].phrases = <<>>

\* A metaphrase, mp the one under way: phrases are numbered as they come, so
\* its own come right after it, and are followed by what follows them all.
Meta(ps, mp, i) ==
    ps[i].get = "seq" =>
        /\ Len(ps[i].phrases) > 0
        /\ \A j \in 1 .. Len(ps[i].phrases) :
              /\ ps[i].phrases[j] = IF i + j <= Len(ps) THEN i + j ELSE 0
              /\ i + j <= Len(ps) => ps[i + j].get # "seq"
        /\ i # mp =>
              /\ i + Len(ps[i].phrases) < Len(ps)
              /\ \A j \in 1 .. Len(ps[i].phrases) :
                    ps[i + j].next = i + Len(ps[i].phrases) + 1

\* The metaphrase under way has counted its phrases, but for an open one.
UnderWay(ps, op, mp) ==
    mp # 0 =>
        /\ ps[mp].get = "seq"
        /\ Len(ps) = mp + ps[mp].pos + (IF op THEN 1 ELSE 0)
        /\ Len(ps) <= mp + Len(ps[mp].phrases)

\* The chain as it is written.
Chain(ps, op, mp) ==
    /\ ps \in Seq(PhraseT) /\ op \in BOOLEAN /\ mp \in 0 .. Len(ps)
    /\ Len(ps) > 0 => ps[1].get = "none"
    /\ \A i \in 1 .. Len(ps) : Link(ps, i) /\ Meta(ps, mp, i)
    /\ UnderWay(ps, op, mp)

\* What comes after a metaphrase in the chain that loops.
After(ps, mp) ==
    IF mp + Len(ps[mp].phrases) = Len(ps) THEN 1 ELSE mp + Len(ps[mp].phrases) + 1

\* A phrase of the chain as it is played: nothing is open.
Linked(ps, i) ==
    /\ ps[i].next \in 1 .. Len(ps)
    /\ ps[i].get = "goback" => ps[i].back \in 1 .. Len(ps)
    /\ ps[i].get # "seq" => ps[i].phrases = <<>>

\* A metaphrase of it: one phrase out of its own, then what comes after it.
Closed(ps, i) ==
    ps[i].get = "seq" =>
        /\ Len(ps[i].phrases) > 0 /\ i + Len(ps[i].phrases) <= Len(ps)
        /\ \A j \in 1 .. Len(ps[i].phrases) :
              ps[i].phrases[j] = i + j /\ ps[i + j].next = After(ps, i)

\* The chain as it is played.
Loop(ps) ==
    /\ ps \in Seq(PhraseT) /\ Len(ps) > 0
    /\ \A i \in 1 .. Len(ps) : Linked(ps, i) /\ Closed(ps, i)

Written ==
    step = "write" =>
        /\ Chain(phrases, open, mpstack)
        /\ selected = Len(phrases) /\ saved \in 0 .. Len(phrases)

\* How often a phrase is to be heard on end.
Turns(ph) == IF ph.reps > 1 THEN ph.reps ELSE 1

\* What was heard of the phrase that plays is what it has counted, and the
\* others start anew.
Counts ==
    step # "write" =>
        /\ Loop(phrases)
        /\ selected \in 1 .. Len(phrases) /\ phrases[selected].get = "none"
        /\ \A i \in 1 .. Len(phrases) :
              phrases[i].get = "none" /\ i # selected => phrases[i].pos = 0
        /\ step = "play" =>
              /\ heard = phrases[selected].pos + 1
              /\ heard <= Turns(phrases[selected])
        /\ step = "get" =>
              /\ seek \in 1 .. Len(phrases)
              /\ \/ phrases[selected].pos = 0 /\ heard = Turns(phrases[selected])
                 \/ /\ seek = selected /\ heard = phrases[selected].pos
                    /\ heard < Turns(phrases[selected])

\* The inductive invariant.
Inv == step \in {"write", "play", "get"} /\ Written /\ Counts

------------------------------------------------------------------------------
(* Sequences.                                                               *)

(* A function of 1 .. n is a sequence of n elements.                        *)
LEMMA AsSeq ==
    ASSUME NEW S, NEW n \in Nat, NEW f \in [1 .. n -> S]
    PROVE  f \in Seq(S) /\ Len(f) = n /\ DOMAIN f = 1 .. n
  OBVIOUS

(* And every sequence is one.                                               *)
LEMMA OfSeq ==
    ASSUME NEW S, NEW f \in Seq(S)
    PROVE  Len(f) \in Nat /\ DOMAIN f = 1 .. Len(f) /\ f \in [1 .. Len(f) -> S]
  OBVIOUS

(* One element of it may be set.                                            *)
LEMMA SetOne ==
    ASSUME NEW S, NEW f \in Seq(S), NEW i \in 1 .. Len(f), NEW e \in S
    PROVE  /\ [f EXCEPT ![i] = e] \in Seq(S) /\ Len([f EXCEPT ![i] = e]) = Len(f)
           /\ \A j \in 1 .. Len(f) : [f EXCEPT ![i] = e][j] = IF j = i THEN e ELSE f[j]
<1>1. [f EXCEPT ![i] = e] \in [1 .. Len(f) -> S]
  BY OfSeq
<1> QED
  BY <1>1, OfSeq, AsSeq

(* And one put at its end.                                                  *)
LEMMA PutLast ==
    ASSUME NEW S, NEW f \in Seq(S), NEW e \in S
    PROVE  /\ Append(f, e) \in Seq(S) /\ Len(Append(f, e)) = Len(f) + 1
           /\ \A j \in 1 .. Len(f) : Append(f, e)[j] = f[j]
           /\ Append(f, e)[Len(f) + 1] = e
  OBVIOUS

(* The fields of a phrase.                                                  *)
LEMMA Fields ==
    ASSUME NEW ph \in PhraseT
    PROVE  /\ ph.next \in Nat /\ ph.back \in Nat /\ ph.pos \in Nat /\ ph.reps \in Nat
           /\ ph.times \in Nat /\ ph.phrases \in Seq(Nat) /\ Len(ph.phrases) \in Nat
           /\ ph.get \in {"none", "seq", "goback"}
  BY DEF PhraseT

(* Setting its link...                                                      *)
LEMMA SetNext ==
    ASSUME NEW ph \in PhraseT, NEW v \in Nat, NEW q, q = [ph EXCEPT !.next = v]
    PROVE  /\ q \in PhraseT /\ q.next = v /\ q.back = ph.back /\ q.pos = ph.pos
           /\ q.reps = ph.reps /\ q.times = ph.times /\ q.get = ph.get
           /\ q.phrases = ph.phrases
  BY DEF PhraseT

(* ... its counter...                                                       *)
LEMMA SetPos ==
    ASSUME NEW ph \in PhraseT, NEW v \in Nat, NEW q, q = [ph EXCEPT !.pos = v]
    PROVE  /\ q \in PhraseT /\ q.next = ph.next /\ q.back = ph.back /\ q.pos = v
           /\ q.reps = ph.reps /\ q.times = ph.times /\ q.get = ph.get
           /\ q.phrases = ph.phrases
  BY DEF PhraseT

(* ... or one of its slots.                                                 *)
LEMMA SetSlot ==
    ASSUME NEW ph \in PhraseT, NEW k \in 1 .. Len(ph.phrases), NEW v \in Nat,
           NEW q, q = [ph EXCEPT !.phrases = [ph.phrases EXCEPT ![k] = v]]
    PROVE  /\ q \in PhraseT /\ q.next = ph.next /\ q.back = ph.back /\ q.pos = ph.pos
           /\ q.reps = ph.reps /\ q.times = ph.times /\ q.get = ph.get
           /\ Len(q.phrases) = Len(ph.phrases)
           /\ \A j \in 1 .. Len(ph.phrases) :
                 q.phrases[j] = IF j = k THEN v ELSE ph.phrases[j]
<1>1. ph.phrases \in Seq(Nat)
  BY Fields
<1>2. /\ [ph.phrases EXCEPT ![k] = v] \in Seq(Nat)
      /\ Len([ph.phrases EXCEPT ![k] = v]) = Len(ph.phrases)
      /\ \A j \in 1 .. Len(ph.phrases) :
            [ph.phrases EXCEPT ![k] = v][j] = IF j = k THEN v ELSE ph.phrases[j]
  BY <1>1, SetOne
<1>3. q.phrases = [ph.phrases EXCEPT ![k] = v]
  BY DEF PhraseT
<1>4. /\ q \in PhraseT /\ q.next = ph.next /\ q.back = ph.back /\ q.pos = ph.pos
      /\ q.reps = ph.reps /\ q.times = ph.times /\ q.get = ph.get
  BY <1>2 DEF PhraseT
<1> QED
  BY <1>2, <1>3, <1>4

------------------------------------------------------------------------------
(* Writing.                                                                 *)

\* What gest_begin does to a phrase there is, the new one being number n + 1.
Kept(ps, n, i) ==
    /\ ps[i].get = phrases[i].get /\ ps[i].pos = phrases[i].pos
    /\ ps[i].back = phrases[i].back
    /\ ps[i].next = IF Filled(mpstack) THEN IF i > mpstack THEN n + 1 ELSE phrases[i].next
                    ELSE IF i = n THEN n + 1 ELSE phrases[i].next
    /\ Len(ps[i].phrases) = Len(phrases[i].phrases)
    /\ \A j \in 1 .. Len(phrases[i].phrases) :
          ps[i].phrases[j] = IF Left # 0 /\ i = mpstack /\ i + j = n + 1
                             THEN n + 1 ELSE phrases[i].phrases[j]

(* gest_begin: the phrases it leaves.                                       *)
LEMMA BegunIs ==
    ASSUME Chain(phrases, FALSE, mpstack), selected = Len(phrases),
           NEW new \in PhraseT, NEW ps, ps = Begun(new), NEW n, n = Len(phrases)
    PROVE  /\ ps \in Seq(PhraseT) /\ Len(ps) = n + 1 /\ ps[n + 1] = new
           /\ \A i \in 1 .. n : Kept(ps, n, i)
<1> DEFINE all == Append(phrases, new)
<1>1. /\ phrases \in Seq(PhraseT) /\ n \in Nat /\ mpstack \in 0 .. n
      /\ \A i \in 1 .. n : phrases[i] \in PhraseT
  BY DEF Chain
<1>2. /\ all \in Seq(PhraseT) /\ Len(all) = n + 1 /\ all[n + 1] = new
      /\ \A i \in 1 .. n : all[i] = phrases[i]
  BY <1>1, PutLast
<1>3. ASSUME mpstack # 0
      PROVE  /\ phrases[mpstack].get = "seq" /\ mpstack \in 1 .. n
             /\ phrases[mpstack].pos \in Nat /\ Len(phrases[mpstack].phrases) \in Nat
             /\ n = mpstack + phrases[mpstack].pos
             /\ n <= mpstack + Len(phrases[mpstack].phrases)
             /\ Len(phrases[mpstack].phrases) > 0
             /\ \A j \in 1 .. Len(phrases[mpstack].phrases) :
                   phrases[mpstack].phrases[j] = IF mpstack + j <= n THEN mpstack + j ELSE 0
  <2>1. mpstack \in 1 .. n
    BY <1>1, <1>3
  <2>2. /\ phrases[mpstack].get = "seq"
        /\ n = mpstack + phrases[mpstack].pos + 0
        /\ n <= mpstack + Len(phrases[mpstack].phrases)
    BY <1>3 DEF Chain, UnderWay
  <2>3. phrases[mpstack].pos \in Nat /\ Len(phrases[mpstack].phrases) \in Nat
    BY <1>1, <2>1, Fields
  <2>4. Meta(phrases, mpstack, mpstack)
    BY <2>1 DEF Chain
  <2>5. \A j \in 1 .. Len(phrases[mpstack].phrases) :
           phrases[mpstack].phrases[j] = IF mpstack + j <= n THEN mpstack + j ELSE 0
    BY <2>2, <2>4 DEF Meta
  <2>6. Len(phrases[mpstack].phrases) > 0
    BY <2>2, <2>4 DEF Meta
  <2> QED
    BY <1>1, <2>1, <2>2, <2>3, <2>5, <2>6
<1> HIDE DEF all
<1>4. CASE Filled(mpstack)
  <2>1. mpstack # 0 /\ Left = 0 /\ n = mpstack + Len(phrases[mpstack].phrases)
    BY <1>1, <1>3, <1>4 DEF Filled, Left
  <2>2. ps = [i \in DOMAIN all |-> IF i \in Range(all[mpstack].phrases)
                                   THEN [all[i] EXCEPT !.next = n + 1] ELSE all[i]]
    BY <1>4 DEF Begun, Pointed, all
  <2>3. \A i \in 1 .. n + 1 : i \in Range(all[mpstack].phrases) <=> i \in 1 .. n /\ i > mpstack
    <3>1. all[mpstack].phrases = phrases[mpstack].phrases
      BY <1>2, <1>3, <2>1
    <3>2. DOMAIN phrases[mpstack].phrases = 1 .. Len(phrases[mpstack].phrases)
      BY <1>1, <1>3, <2>1, Fields, OfSeq
    <3>3. ASSUME NEW i \in 1 .. n + 1, i \in Range(all[mpstack].phrases)
          PROVE  i \in 1 .. n /\ i > mpstack
      <4>1. PICK j \in 1 .. Len(phrases[mpstack].phrases) : phrases[mpstack].phrases[j] = i
        BY <3>1, <3>2, <3>3 DEF Range
      <4>2. i = IF mpstack + j <= n THEN mpstack + j ELSE 0
        BY <1>3, <2>1, <4>1
      <4> QED
        BY <1>1, <1>3, <2>1, <4>1, <4>2
    <3>4. ASSUME NEW i \in 1 .. n, i > mpstack  PROVE i \in Range(all[mpstack].phrases)
      <4>1. /\ i - mpstack \in 1 .. Len(phrases[mpstack].phrases)
            /\ mpstack + (i - mpstack) = i /\ i <= n
        <5>1. /\ mpstack \in Nat /\ n \in Nat /\ i <= n /\ i \in Nat
              /\ n = mpstack + Len(phrases[mpstack].phrases)
          BY <1>1, <2>1
        <5>2. Len(phrases[mpstack].phrases) \in Nat
          BY <1>3, <2>1
        <5> QED
          BY <3>4, <5>1, <5>2
      <4>2. phrases[mpstack].phrases[i - mpstack] = i
        BY <1>3, <2>1, <4>1
      <4> QED
        BY <3>1, <3>2, <4>1, <4>2 DEF Range
    <3> QED
      BY <1>1, <3>3, <3>4
  <2>4. \A i \in 1 .. n + 1 : ps[i] = IF i \in 1 .. n /\ i > mpstack
                                      THEN [all[i] EXCEPT !.next = n + 1] ELSE all[i]
    BY <1>1, <1>2, <2>2, <2>3
  <2>5. ps \in Seq(PhraseT) /\ Len(ps) = n + 1
    <3>1. ASSUME NEW i \in 1 .. n + 1  PROVE ps[i] \in PhraseT
      <4>1. all[i] \in PhraseT /\ n + 1 \in Nat
        BY <1>1, <1>2, OfSeq
      <4>2. [all[i] EXCEPT !.next = n + 1] \in PhraseT
        BY <4>1, SetNext
      <4> QED
        BY <2>4, <4>1, <4>2
    <3>2. ps \in [1 .. n + 1 -> PhraseT]
      BY <1>1, <1>2, <2>2, <3>1
    <3> QED
      BY <1>1, <3>2, AsSeq
  <2>6. ps[n + 1] = new
    <3>1. n + 1 \in 1 .. n + 1 /\ n + 1 \notin 1 .. n
      BY <1>1
    <3> QED
      BY <1>2, <2>4, <3>1
  <2>7. ASSUME NEW i \in 1 .. n
        PROVE  /\ ps[i].get = phrases[i].get /\ ps[i].pos = phrases[i].pos
               /\ ps[i].back = phrases[i].back /\ ps[i].phrases = phrases[i].phrases
               /\ ps[i].next = IF i > mpstack THEN n + 1 ELSE phrases[i].next
    <3>1. i \in 1 .. n + 1 /\ n + 1 \in Nat /\ phrases[i] \in PhraseT /\ all[i] = phrases[i]
      BY <1>1, <1>2
    <3>2. CASE i > mpstack
      <4>1. ps[i] = [phrases[i] EXCEPT !.next = n + 1]
        BY <2>4, <3>1, <3>2
      <4> QED
        BY <3>1, <3>2, <4>1, SetNext
    <3>3. CASE ~(i > mpstack)
      BY <2>4, <3>1, <3>3
    <3> QED
      BY <3>2, <3>3
  <2> QED
    BY <1>4, <2>1, <2>5, <2>6, <2>7 DEF Kept
<1>5. CASE mpstack = 0 /\ n = 0
  <2>1. ps = all
    BY <1>5 DEF Begun, Filled, all
  <2> QED
    BY <1>2, <1>5, <2>1
<1> DEFINE last == [all[n] EXCEPT !.next = n + 1]
           chained == [all EXCEPT ![n] = last]
<1>6. ASSUME n # 0
      PROVE  /\ [all EXCEPT ![n].next = n + 1] = chained
             /\ chained \in Seq(PhraseT) /\ Len(chained) = n + 1 /\ chained[n + 1] = new
             /\ \A i \in 1 .. n :
                   /\ chained[i].get = phrases[i].get /\ chained[i].pos = phrases[i].pos
                   /\ chained[i].back = phrases[i].back
                   /\ chained[i].phrases = phrases[i].phrases
                   /\ chained[i].next = IF i = n THEN n + 1 ELSE phrases[i].next
  <2>1. n \in 1 .. n + 1 /\ n \in 1 .. n
    BY <1>1, <1>6
  <2>2. /\ last \in PhraseT /\ last.get = phrases[n].get /\ last.pos = phrases[n].pos
        /\ last.back = phrases[n].back /\ last.phrases = phrases[n].phrases
        /\ last.next = n + 1
    BY <1>1, <1>2, <2>1, SetNext
  <2>3. [all EXCEPT ![n].next = n + 1] = chained
    OBVIOUS
  <2> HIDE DEF last
  <2>4. /\ chained \in Seq(PhraseT) /\ Len(chained) = n + 1
        /\ \A i \in 1 .. n + 1 : chained[i] = IF i = n THEN last ELSE all[i]
    BY <1>2, <2>1, <2>2, SetOne
  <2> HIDE DEF chained
  <2> QED
    BY <1>1, <1>2, <2>2, <2>3, <2>4
<1>7. CASE mpstack = 0 /\ n # 0
  <2>1. ps = chained
    BY <1>6, <1>7 DEF Begun, Filled, all
  <2> HIDE DEF chained
  <2> QED
    BY <1>6, <1>7, <2>1 DEF Filled, Left, Kept
<1>8. CASE mpstack # 0 /\ ~Filled(mpstack)
  <2> DEFINE k == phrases[mpstack].pos + 1
             mp == [chained[mpstack] EXCEPT !.phrases = [@ EXCEPT ![k] = n + 1]]
  <2>1. n # 0 /\ mpstack \in 1 .. n /\ Left = mpstack
    BY <1>1, <1>3, <1>8 DEF Left
  <2>2. ps = [chained EXCEPT ![mpstack].phrases[k] = n + 1]
    BY <1>6, <1>8, <2>1 DEF Begun, all
  <2> HIDE DEF chained
  <2>3. ps = [chained EXCEPT ![mpstack] = mp]
    BY <2>2
  <2>4. /\ chained[mpstack] \in PhraseT /\ mpstack \in 1 .. Len(chained)
        /\ k \in 1 .. Len(chained[mpstack].phrases)
    BY <1>1, <1>3, <1>6, <1>8, <2>1 DEF Filled
  <2>5. /\ mp \in PhraseT /\ mp.get = phrases[mpstack].get /\ mp.pos = phrases[mpstack].pos
        /\ mp.back = phrases[mpstack].back /\ mp.next = chained[mpstack].next
        /\ Len(mp.phrases) = Len(phrases[mpstack].phrases)
        /\ \A j \in 1 .. Len(phrases[mpstack].phrases) :
              mp.phrases[j] = IF j = k THEN n + 1 ELSE phrases[mpstack].phrases[j]
    <3>1. /\ mp \in PhraseT /\ mp.next = chained[mpstack].next
          /\ mp.back = chained[mpstack].back /\ mp.pos = chained[mpstack].pos
          /\ mp.get = chained[mpstack].get
          /\ Len(mp.phrases) = Len(chained[mpstack].phrases)
          /\ \A j \in 1 .. Len(chained[mpstack].phrases) :
                mp.phrases[j] = IF j = k THEN n + 1 ELSE chained[mpstack].phrases[j]
      <4>1. n + 1 \in Nat
        BY <1>1
      <4> HIDE DEF k
      <4> QED
        BY <2>4, <4>1, SetSlot
    <3> HIDE DEF mp, k
    <3>2. /\ chained[mpstack].get = phrases[mpstack].get
          /\ chained[mpstack].pos = phrases[mpstack].pos
          /\ chained[mpstack].back = phrases[mpstack].back
          /\ chained[mpstack].phrases = phrases[mpstack].phrases
      BY <1>6, <2>1
    <3> QED
      BY <3>1, <3>2
  <2>6. \A j \in Nat : j = k <=> mpstack + j = n + 1
    <3>1. /\ mpstack \in Nat /\ phrases[mpstack].pos \in Nat
          /\ n = mpstack + phrases[mpstack].pos
      BY <1>1, <1>3, <1>8
    <3> QED
      BY <3>1
  <2> HIDE DEF mp, k
  <2>7. /\ ps \in Seq(PhraseT) /\ Len(ps) = n + 1
        /\ \A i \in 1 .. n + 1 : ps[i] = IF i = mpstack THEN mp ELSE chained[i]
    BY <1>6, <2>1, <2>3, <2>4, <2>5, SetOne
  <2>8. ps[n + 1] = new
    BY <1>1, <1>6, <2>1, <2>7
  <2>9. \A i \in 1 .. n : ps[i] = IF i = mpstack THEN mp ELSE chained[i]
    BY <1>1, <2>7
  <2>10. \A j \in 1 .. Len(phrases[mpstack].phrases) :
            mp.phrases[j] = IF mpstack + j = n + 1 THEN n + 1 ELSE phrases[mpstack].phrases[j]
    BY <2>5, <2>6
  <2>11. ASSUME NEW i \in 1 .. n
         PROVE  /\ ps[i].get = phrases[i].get /\ ps[i].pos = phrases[i].pos
                /\ ps[i].back = phrases[i].back /\ ps[i].next = chained[i].next
                /\ i # mpstack => ps[i].phrases = phrases[i].phrases
                /\ i = mpstack => ps[i].phrases = mp.phrases
    BY <1>6, <2>1, <2>5, <2>9
  <2> QED
    BY <1>6, <1>8, <2>1, <2>5, <2>7, <2>8, <2>10, <2>11 DEF Kept
<1> QED
  BY <1>4, <1>5, <1>7, <1>8

(* What is written before stays in order when a phrase is added.            *)
LEMMA OldOnes ==
    ASSUME Chain(phrases, FALSE, mpstack), selected = Len(phrases),
           NEW new \in PhraseT, Left # 0 => new.get # "seq",
           NEW ps, ps = Begun(new), NEW n, n = Len(phrases), NEW i \in 1 .. n
    PROVE  Link(ps, i) /\ ps[i].next # 0 /\ Meta(ps, Left, i)
<1> DEFINE L == Len(phrases[i].phrases)
<1>1. /\ phrases \in Seq(PhraseT) /\ n \in Nat /\ mpstack \in 0 .. n
      /\ \A m \in 1 .. n : phrases[m] \in PhraseT
  BY DEF Chain
<1>2. /\ ps \in Seq(PhraseT) /\ Len(ps) = n + 1 /\ ps[n + 1] = new
      /\ \A m \in 1 .. n : Kept(ps, n, m)
  BY BegunIs
<1>0. /\ Kept(ps, n, i)
      /\ \A m \in 1 .. n :
            /\ ps[m].get = phrases[m].get
            /\ ps[m].next = IF Filled(mpstack) THEN IF m > mpstack THEN n + 1 ELSE phrases[m].next
                            ELSE IF m = n THEN n + 1 ELSE phrases[m].next
  BY <1>2 DEF Kept
<1>3. /\ phrases[i].next \in Nat /\ phrases[i].back \in Nat /\ phrases[i].pos \in Nat
      /\ L \in Nat /\ ps[i].phrases \in Seq(Nat) /\ phrases[i] \in PhraseT
  <2>1. i \in 1 .. n + 1
    BY <1>1
  <2>2. ps[i] \in PhraseT /\ phrases[i] \in PhraseT
    BY <1>1, <1>2, <2>1
  <2> QED
    BY <2>2, Fields
<1>4. /\ phrases[i].next <= n /\ phrases[i].back <= n
      /\ i < n => phrases[i].next # 0
      /\ phrases[i].get = "none" => phrases[i].pos = 0
      /\ phrases[i].get = "goback" => phrases[i].back # 0
      /\ phrases[i].get # "seq" => phrases[i].phrases = <<>>
  BY DEF Chain, Link
<1>5. \A m \in 1 .. n : Meta(phrases, mpstack, m)
  BY DEF Chain
<1>6. mpstack # 0 =>
          /\ mpstack \in 1 .. n /\ phrases[mpstack].get = "seq"
          /\ phrases[mpstack].pos \in Nat /\ Len(phrases[mpstack].phrases) \in Nat
          /\ n = mpstack + phrases[mpstack].pos
          /\ n <= mpstack + Len(phrases[mpstack].phrases)
  <2>1. mpstack # 0 => /\ phrases[mpstack].get = "seq"
                       /\ n = mpstack + phrases[mpstack].pos + 0
                       /\ n <= mpstack + Len(phrases[mpstack].phrases)
    BY DEF Chain, UnderWay
  <2>2. mpstack # 0 => mpstack \in 1 .. n
    BY <1>1
  <2>3. mpstack # 0 => /\ phrases[mpstack].pos \in Nat
                       /\ Len(phrases[mpstack].phrases) \in Nat
    BY <1>1, <2>2, Fields
  <2> QED
    BY <1>1, <2>1, <2>2, <2>3
<1>7. Filled(mpstack) => mpstack < n /\ n = mpstack + Len(phrases[mpstack].phrases)
  <2>1. Filled(mpstack) => Len(phrases[mpstack].phrases) > 0
    BY <1>5, <1>6 DEF Filled, Meta
  <2> QED
    BY <1>1, <1>6, <2>1 DEF Filled
<1>8. ps[i].next <= n + 1 /\ ps[i].next # 0
  BY <1>1, <1>0, <1>3, <1>4, <1>7
<1>9. /\ ps[i].back <= n + 1
      /\ ps[i].get = "none" => ps[i].pos = 0
      /\ ps[i].get = "goback" => ps[i].back # 0
  BY <1>1, <1>0, <1>3, <1>4 DEF Kept
<1>10. ps[i].get # "seq" => ps[i].phrases = <<>>
  <2>1. phrases[i].get # "seq" => Len(ps[i].phrases) = 0
    BY <1>0, <1>4 DEF Kept
  <2> QED
    BY <1>0, <1>3, <2>1
<1>11. ASSUME ps[i].get = "seq"
       PROVE  /\ Len(ps[i].phrases) > 0
              /\ \A j \in 1 .. Len(ps[i].phrases) :
                    /\ ps[i].phrases[j] = IF i + j <= n + 1 THEN i + j ELSE 0
                    /\ i + j <= n + 1 => ps[i + j].get # "seq"
              /\ i # Left =>
                    /\ i + Len(ps[i].phrases) < n + 1
                    /\ \A j \in 1 .. Len(ps[i].phrases) :
                          ps[i + j].next = i + Len(ps[i].phrases) + 1
  <2>1. /\ Len(ps[i].phrases) = L /\ L > 0 /\ phrases[i].get = "seq"
        /\ \A j \in 1 .. L : /\ phrases[i].phrases[j] = IF i + j <= n THEN i + j ELSE 0
                             /\ i + j <= n => phrases[i + j].get # "seq"
    BY <1>0, <1>5, <1>11 DEF Kept, Meta
  <2>2. CASE i # mpstack
    <3>1. /\ i + L < n /\ \A j \in 1 .. L : phrases[i + j].next = i + L + 1
      BY <1>5, <2>1, <2>2 DEF Meta
    <3>2. ASSUME NEW j \in 1 .. L
          PROVE  /\ i + j \in 1 .. n /\ i + j < n /\ i + j <= n + 1
                 /\ ps[i].phrases[j] = i + j /\ ps[i + j].get # "seq"
      <4>1. i + j \in 1 .. n /\ i + j < n /\ i + j <= n + 1
        BY <1>1, <1>3, <3>1
      <4> QED
        BY <1>0, <2>1, <2>2, <4>1 DEF Kept
    <3>3. ASSUME NEW j \in 1 .. L, Filled(mpstack)  PROVE ~(i + j > mpstack)
      <4>1. mpstack \in 1 .. n /\ phrases[mpstack].get = "seq"
        BY <1>6, <3>3 DEF Filled
      <4>2. i < mpstack
        <5>1. ASSUME i > mpstack  PROVE FALSE
          <6>1. i - mpstack \in 1 .. Len(phrases[mpstack].phrases) /\ mpstack + (i - mpstack) = i
            BY <1>1, <1>6, <1>7, <3>3, <4>1, <5>1
          <6>2. phrases[mpstack + (i - mpstack)].get # "seq"
            BY <1>5, <1>1, <4>1, <6>1 DEF Meta
          <6> QED
            BY <2>1, <6>1, <6>2
        <5> QED
          BY <1>1, <2>2, <4>1, <5>1
      <4>3. ASSUME i + j > mpstack  PROVE FALSE
        <5>1. mpstack - i \in 1 .. L /\ i + (mpstack - i) = mpstack /\ mpstack <= n
          BY <1>1, <1>3, <4>1, <4>2, <4>3
        <5>2. phrases[i + (mpstack - i)].get # "seq"
          BY <2>1, <5>1
        <5> QED
          BY <4>1, <5>1, <5>2
      <4> QED
        BY <4>3
    <3>4. \A j \in 1 .. L : ps[i + j].next = i + L + 1
      <4> SUFFICES ASSUME NEW j \in 1 .. L  PROVE ps[i + j].next = i + L + 1
        OBVIOUS
      <4>1. /\ i + j \in 1 .. n /\ i + j # n /\ phrases[i + j].next = i + L + 1
            /\ Filled(mpstack) => ~(i + j > mpstack)
        BY <1>1, <3>1, <3>2, <3>3
      <4> QED
        BY <1>0, <4>1
    <3>5. i + L < n + 1
      BY <1>1, <1>3, <3>1
    <3> QED
      BY <2>1, <3>2, <3>4, <3>5
  <2>3. CASE i = mpstack /\ Filled(mpstack)
    <3>1. n = i + L /\ Left = 0
      BY <1>7, <2>3 DEF Left
    <3>2. ASSUME NEW j \in 1 .. L
          PROVE  /\ i + j \in 1 .. n /\ i + j > mpstack
                 /\ ps[i].phrases[j] = i + j /\ ps[i + j].get # "seq"
      <4>1. i + j \in 1 .. n /\ i + j > mpstack
        BY <1>1, <1>3, <2>3, <3>1
      <4> QED
        <5>1. ps[i].phrases[j] = i + j
          BY <1>0, <1>1, <2>1, <3>1, <4>1 DEF Kept
        <5>2. ps[i + j].get # "seq"
          BY <1>0, <1>1, <2>1, <4>1
        <5> QED
          BY <4>1, <5>1, <5>2
    <3>3. \A j \in 1 .. L : ps[i + j].next = n + 1
      BY <1>0, <2>3, <3>2
    <3> QED
      <4>1. i + L < n + 1 /\ i # Left /\ i + L + 1 = n + 1
        BY <1>1, <3>1
      <4>2. \A j \in 1 .. L : i + j <= n + 1
        BY <1>1, <3>2
      <4> QED
        BY <2>1, <3>2, <3>3, <4>1, <4>2
  <2>4. CASE i = mpstack /\ ~Filled(mpstack)
    <3>1. Left = i /\ Left # 0 /\ new.get # "seq"
      BY <1>1, <2>4 DEF Left
    <3>2. ASSUME NEW j \in 1 .. L
          PROVE  /\ ps[i].phrases[j] = IF i + j <= n + 1 THEN i + j ELSE 0
                 /\ i + j <= n + 1 => ps[i + j].get # "seq"
      <4>1. ps[i].phrases[j] = IF i + j = n + 1 THEN n + 1
                               ELSE IF i + j <= n THEN i + j ELSE 0
        BY <1>0, <2>1, <2>4, <3>1 DEF Kept
      <4>2. i + j \in Nat /\ n + 1 \in Nat
        BY <1>1, <1>3
      <4>3. CASE i + j <= n
        <5>1. i + j \in 1 .. n
          BY <1>1, <1>3, <4>3
        <5> QED
          BY <1>1, <1>0, <2>1, <4>1, <4>3, <5>1
      <4>4. CASE i + j = n + 1
        BY <1>2, <3>1, <4>1, <4>2, <4>4
      <4>5. CASE i + j > n + 1
        BY <1>1, <4>1, <4>2, <4>5
      <4> QED
        BY <1>1, <4>2, <4>3, <4>4, <4>5
    <3> QED
      BY <2>1, <3>1, <3>2
  <2> QED
    BY <2>2, <2>3, <2>4
<1> QED
  BY <1>2, <1>8, <1>9, <1>10, <1>11 DEF Link, Meta

(* gest_begin leaves a chain with an open phrase; gest_return calls it too. *)
LEMMA BeginKeeps ==
    ASSUME Chain(phrases, FALSE, mpstack), selected = Len(phrases), NEW new \in PhraseT,
           new.next = 0, new.pos = 0, new.phrases = <<>>,
           \/ new.get = "none" /\ new.back = 0
           \/ new.get = "goback" /\ new.back \in 1 .. Len(phrases)
    PROVE  Chain(Begun(new), TRUE, Left) /\ Len(Begun(new)) = Len(phrases) + 1
<1> DEFINE n == Len(phrases)
           ps == Begun(new)
<1>1. n \in Nat /\ mpstack \in 0 .. n /\ phrases \in Seq(PhraseT)
  BY DEF Chain
<1>2. ps \in Seq(PhraseT) /\ Len(ps) = n + 1 /\ ps[n + 1] = new
  BY BegunIs
<1>3. \A i \in 1 .. n : /\ ps[i].get = phrases[i].get /\ ps[i].pos = phrases[i].pos
                        /\ Len(ps[i].phrases) = Len(phrases[i].phrases)
  <2>1. \A i \in 1 .. n : Kept(ps, n, i)
    BY BegunIs
  <2> QED
    BY <2>1 DEF Kept
<1>4. \A i \in 1 .. n : Link(ps, i) /\ ps[i].next # 0 /\ Meta(ps, Left, i)
  BY OldOnes
<1>5. Left \in 0 .. n + 1
  BY <1>1 DEF Left
<1>6. Left # 0 => /\ ps[Left].get = "seq" /\ n + 1 = Left + ps[Left].pos + 1
                  /\ n + 1 <= Left + Len(ps[Left].phrases)
  <2> SUFFICES ASSUME Left # 0
               PROVE  /\ ps[Left].get = "seq" /\ n + 1 = Left + ps[Left].pos + 1
                      /\ n + 1 <= Left + Len(ps[Left].phrases)
    OBVIOUS
  <2>1. Left = mpstack /\ mpstack \in 1 .. n /\ mpstack # 0 /\ ~Filled(mpstack)
    BY <1>1 DEF Left
  <2>2. /\ phrases[mpstack].get = "seq" /\ n = mpstack + phrases[mpstack].pos + 0
        /\ phrases[mpstack] \in PhraseT
    BY <1>1, <2>1 DEF Chain, UnderWay
  <2>3. /\ phrases[mpstack].pos \in Nat /\ Len(phrases[mpstack].phrases) \in Nat
        /\ phrases[mpstack].pos < Len(phrases[mpstack].phrases)
    <3>1. phrases[mpstack].pos \in Nat /\ Len(phrases[mpstack].phrases) \in Nat
      BY <2>2, Fields
    <3> QED
      BY <2>1, <3>1 DEF Filled
  <2>4. /\ ps[mpstack].get = "seq" /\ ps[mpstack].pos = phrases[mpstack].pos
        /\ Len(ps[mpstack].phrases) = Len(phrases[mpstack].phrases)
    BY <1>3, <2>1, <2>2
  <2> HIDE DEF n, ps
  <2> QED
    BY <1>1, <2>1, <2>2, <2>3, <2>4
<1>7. ps[1].get = "none"
  <2>1. CASE n = 0
    BY <1>2, <2>1
  <2>2. CASE n > 0
    BY <1>1, <1>3, <2>2 DEF Chain
  <2> QED
    BY <1>1, <2>1, <2>2
<1> HIDE DEF ps, n
<1>8. /\ new.get # "seq" /\ new.next = 0 /\ new.back \in Nat /\ new.back <= n
      /\ new.get = "goback" => new.back # 0
  BY <1>1 DEF n
<1>9. \A i \in 1 .. n + 1 : i \in 1 .. n \/ i = n + 1
  BY <1>1
<1>10. ASSUME NEW i \in 1 .. n + 1  PROVE Link(ps, i) /\ Meta(ps, Left, i)
  <2>1. CASE i \in 1 .. n
    BY <1>4, <2>1
  <2>2. CASE i = n + 1
    <3>1. ps[i] = new /\ Len(ps) = n + 1 /\ ~(i < n + 1) /\ new.back <= n + 1 /\ 0 <= n + 1
      BY <1>1, <1>2, <1>8, <2>2
    <3>2. Link(ps, i)
      BY <1>8, <3>1 DEF Link
    <3> QED
      BY <1>8, <3>1, <3>2 DEF Meta
  <2> QED
    BY <1>9, <2>1, <2>2
<1>11. UnderWay(ps, TRUE, Left)
  BY <1>2, <1>6 DEF UnderWay
<1>12. Chain(ps, TRUE, Left)
  BY <1>2, <1>5, <1>7, <1>10, <1>11 DEF Chain
<1> QED
  BY <1>2, <1>12 DEF ps, n

(* gest_metaphrase leaves a chain whose last phrase is the metaphrase.      *)
LEMMA MetaKeeps ==
    ASSUME Chain(phrases, FALSE, mpstack), selected = Len(phrases), NEW new \in PhraseT,
           new.get = "seq", new.next = 0, new.pos = 0, new.back = 0,
           Len(new.phrases) > 0,
           \A j \in 1 .. Len(new.phrases) : new.phrases[j] = 0,
           Left = 0, phrases # <<>>
    PROVE  /\ Chain(Begun(new), FALSE, Len(phrases) + 1)
           /\ Len(Begun(new)) = Len(phrases) + 1
<1> DEFINE n == Len(phrases)
           ps == Begun(new)
<1>1. n \in Nat /\ n > 0 /\ phrases \in Seq(PhraseT) /\ phrases[1].get = "none"
  <2>1. phrases \in Seq(PhraseT) /\ (n > 0 => phrases[1].get = "none")
    BY DEF Chain
  <2> QED
    BY <2>1
<1>2. ps \in Seq(PhraseT) /\ Len(ps) = n + 1 /\ ps[n + 1] = new
  BY BegunIs
<1>3. ps[1].get = "none"
  <2>1. \A i \in 1 .. n : Kept(ps, n, i)
    BY BegunIs
  <2> QED
    BY <1>1, <2>1 DEF Kept
<1>4. \A i \in 1 .. n : Link(ps, i) /\ ps[i].next # 0 /\ Meta(ps, Left, i)
  BY OldOnes
<1>5. new.phrases \in Seq(Nat) /\ Len(new.phrases) \in Nat
  BY Fields
<1> HIDE DEF ps, n
<1>6. \A i \in 1 .. n + 1 : i \in 1 .. n \/ i = n + 1
  BY <1>1
<1>7. ASSUME NEW i \in 1 .. n + 1  PROVE Link(ps, i) /\ Meta(ps, n + 1, i)
  <2>1. CASE i \in 1 .. n
    <3>1. i # Left
      BY <2>1
    <3> QED
      BY <1>4, <2>1, <3>1 DEF Meta
  <2>2. CASE i = n + 1
    <3>1. Link(ps, i)
      BY <1>1, <1>2, <2>2 DEF Link
    <3>2. \A j \in 1 .. Len(new.phrases) : ~(i + j <= n + 1)
      BY <1>1, <2>2
    <3> QED
      BY <1>2, <2>2, <3>1, <3>2 DEF Meta
  <2> QED
    BY <1>6, <2>1, <2>2
<1>8. UnderWay(ps, FALSE, n + 1) /\ n + 1 \in 0 .. n + 1
  <2>1. /\ n + 1 = n + 1 + 0 + 0 /\ n + 1 <= n + 1 + Len(new.phrases)
        /\ n + 1 \in 0 .. n + 1
    <3> DEFINE l == Len(new.phrases)
    <3> HIDE DEF l
    <3>1. n + 1 = n + 1 + 0 + 0 /\ n + 1 \in 0 .. n + 1
      BY <1>1
    <3>2. l \in Nat => n + 1 <= n + 1 + l
      BY <1>1
    <3> QED
      BY <1>5, <3>1, <3>2 DEF l
  <2> QED
    BY <1>2, <2>1 DEF UnderWay
<1>9. Chain(ps, FALSE, n + 1)
  BY <1>2, <1>3, <1>7, <1>8 DEF Chain
<1> QED
  BY <1>2, <1>9 DEF ps, n

(* What sets no more than counters leaves the chain as it is.               *)
LEMMA ChainSame ==
    ASSUME NEW ps, NEW op, NEW mp, Chain(ps, op, mp),
           NEW qs \in Seq(PhraseT), Len(qs) = Len(ps),
           \A i \in 1 .. Len(ps) :
              /\ qs[i].next = ps[i].next /\ qs[i].get = ps[i].get
              /\ qs[i].back = ps[i].back /\ qs[i].phrases = ps[i].phrases
              /\ qs[i].get = "none" => qs[i].pos = 0,
           NEW oq \in BOOLEAN,
           mp # 0 => Len(ps) = mp + qs[mp].pos + (IF oq THEN 1 ELSE 0)
    PROVE  Chain(qs, oq, mp)
<1>1. /\ ps \in Seq(PhraseT) /\ Len(ps) \in Nat /\ mp \in 0 .. Len(ps)
      /\ Len(ps) > 0 => ps[1].get = "none"
      /\ \A i \in 1 .. Len(ps) : Link(ps, i) /\ Meta(ps, mp, i)
      /\ UnderWay(ps, op, mp)
  BY DEF Chain
<1>2. ASSUME NEW i \in 1 .. Len(ps)  PROVE Link(qs, i)
  BY <1>1 DEF Link
<1>3. ASSUME NEW i \in 1 .. Len(ps)  PROVE Meta(qs, mp, i)
  <2> SUFFICES ASSUME qs[i].get = "seq"  PROVE Meta(qs, mp, i)
    BY DEF Meta
  <2>1. Meta(ps, mp, i) /\ ps[i].get = "seq" /\ qs[i].phrases = ps[i].phrases
    BY <1>1
  <2>2. Len(ps[i].phrases) \in Nat
    BY <1>1, Fields
  <2>3. ASSUME NEW j \in 1 .. Len(ps[i].phrases), i + j <= Len(ps)
        PROVE  qs[i + j].get = ps[i + j].get /\ qs[i + j].next = ps[i + j].next
    <3>1. i + j \in 1 .. Len(ps)
      BY <1>1, <2>2, <2>3
    <3> QED
      BY <3>1
  <2>4. \A j \in 1 .. Len(ps[i].phrases) :
           i + Len(ps[i].phrases) < Len(ps) => i + j <= Len(ps)
    BY <1>1, <2>2
  <2> QED
    BY <2>1, <2>3, <2>4 DEF Meta
<1>4. UnderWay(qs, oq, mp)
  <2>1. mp # 0 => mp \in 1 .. Len(ps)
    BY <1>1
  <2> QED
    BY <1>1, <2>1 DEF UnderWay
<1>5. Len(qs) > 0 => qs[1].get = "none"
  BY <1>1
<1> QED
  BY <1>1, <1>2, <1>3, <1>4, <1>5 DEF Chain

(* gest_end closes the phrase.                                              *)
LEMMA EndKeeps ==
    ASSUME NEW ps, NEW mp, Chain(ps, TRUE, mp)
    PROVE  Chain(Ended(ps, mp), FALSE, mp) /\ Len(Ended(ps, mp)) = Len(ps)
<1> DEFINE qs == Ended(ps, mp)
<1>1. /\ ps \in Seq(PhraseT) /\ Len(ps) \in Nat /\ mp \in 0 .. Len(ps)
      /\ \A i \in 1 .. Len(ps) : ps[i] \in PhraseT /\ Link(ps, i)
      /\ UnderWay(ps, TRUE, mp)
  <2>1. /\ ps \in Seq(PhraseT) /\ mp \in 0 .. Len(ps)
        /\ \A i \in 1 .. Len(ps) : Link(ps, i)
    BY DEF Chain
  <2>2. UnderWay(ps, TRUE, mp)
    BY DEF Chain
  <2>3. Len(ps) \in Nat /\ \A i \in 1 .. Len(ps) : ps[i] \in PhraseT
    BY <2>1, OfSeq
  <2> QED
    BY <2>1, <2>2, <2>3
<1>2. CASE mp = 0
  <2>1. qs = ps
    BY <1>2 DEF Ended
  <2>2. \A i \in 1 .. Len(ps) : ps[i].get = "none" => ps[i].pos = 0
    BY <1>1 DEF Link
  <2>3. Chain(ps, FALSE, mp)
    BY <1>1, <1>2, <2>2, ChainSame
  <2> QED
    BY <2>1, <2>3
<1>3. CASE mp # 0
  <2> DEFINE q == [ps[mp] EXCEPT !.pos = ps[mp].pos + 1]
  <2>1. mp \in 1 .. Len(ps) /\ ps[mp] \in PhraseT /\ ps[mp].pos + 1 \in Nat
    BY <1>1, <1>3, Fields
  <2>2. qs = [ps EXCEPT ![mp] = q]
    BY <1>3 DEF Ended
  <2>3. /\ q \in PhraseT /\ q.next = ps[mp].next /\ q.back = ps[mp].back
        /\ q.pos = ps[mp].pos + 1 /\ q.get = ps[mp].get /\ q.phrases = ps[mp].phrases
    BY <2>1, SetPos
  <2>4. ps[mp].get = "seq" /\ Len(ps) = mp + ps[mp].pos + 1
    BY <1>1, <1>3 DEF UnderWay
  <2> HIDE DEF q, qs
  <2>5. /\ qs \in Seq(PhraseT) /\ Len(qs) = Len(ps)
        /\ \A i \in 1 .. Len(ps) : qs[i] = IF i = mp THEN q ELSE ps[i]
    BY <1>1, <2>1, <2>2, <2>3, SetOne
  <2>6. ASSUME NEW i \in 1 .. Len(ps)
        PROVE  /\ qs[i].next = ps[i].next /\ qs[i].get = ps[i].get
               /\ qs[i].back = ps[i].back /\ qs[i].phrases = ps[i].phrases
               /\ qs[i].get = "none" => qs[i].pos = 0
    BY <1>1, <2>3, <2>4, <2>5 DEF Link
  <2>7. Len(ps) = mp + qs[mp].pos + (IF FALSE THEN 1 ELSE 0)
    <3>1. qs[mp].pos = ps[mp].pos + 1 /\ ps[mp].pos \in Nat
      BY <2>1, <2>3, <2>5, Fields
    <3> QED
      BY <1>1, <2>1, <2>4, <3>1
  <2>8. Chain(qs, FALSE, mp)
    BY <2>5, <2>6, <2>7, ChainSame
  <2> QED
    BY <2>5, <2>8 DEF qs
<1> QED
  BY <1>2, <1>3

\* What gest_repeat makes of the phrase s.
Repeated(ps, s, n) == [ps EXCEPT ![s].reps = n, ![s].pos = 0]

(* gest_repeat sets the counts of a phrase.                                 *)
LEMMA RepeatKeeps ==
    ASSUME NEW ps, NEW op, NEW mp, Chain(ps, op, mp), NEW n \in Nat,
           NEW s \in 1 .. Len(ps), ps[s].get = "none"
    PROVE  Chain(Repeated(ps, s, n), op, mp) /\ Len(Repeated(ps, s, n)) = Len(ps)
<1> DEFINE qs == Repeated(ps, s, n)
           q == [ps[s] EXCEPT !.reps = n, !.pos = 0]
<1>1. /\ ps \in Seq(PhraseT) /\ Len(ps) \in Nat /\ mp \in 0 .. Len(ps) /\ op \in BOOLEAN
      /\ \A i \in 1 .. Len(ps) : ps[i] \in PhraseT /\ Link(ps, i)
      /\ UnderWay(ps, op, mp)
  BY DEF Chain
<1>2. qs = [ps EXCEPT ![s] = q]
  BY DEF Repeated
<1>3. /\ q \in PhraseT /\ q.next = ps[s].next /\ q.back = ps[s].back /\ q.pos = 0
      /\ q.get = ps[s].get /\ q.phrases = ps[s].phrases
  <2>1. ps[s] \in PhraseT
    BY <1>1
  <2> QED
    BY <2>1 DEF PhraseT
<1> HIDE DEF q, qs
<1>4. /\ qs \in Seq(PhraseT) /\ Len(qs) = Len(ps)
      /\ \A i \in 1 .. Len(ps) : qs[i] = IF i = s THEN q ELSE ps[i]
  BY <1>1, <1>2, <1>3, SetOne
<1>5. ASSUME NEW i \in 1 .. Len(ps)
      PROVE  /\ qs[i].next = ps[i].next /\ qs[i].get = ps[i].get
             /\ qs[i].back = ps[i].back /\ qs[i].phrases = ps[i].phrases
             /\ qs[i].get = "none" => qs[i].pos = 0
  BY <1>1, <1>3, <1>4 DEF Link
<1>6. mp # 0 => Len(ps) = mp + qs[mp].pos + (IF op THEN 1 ELSE 0)
  <2> SUFFICES ASSUME mp # 0  PROVE qs[mp] = ps[mp]
    BY <1>1 DEF UnderWay
  <2>1. mp \in 1 .. Len(ps) /\ mp # s
    BY <1>1 DEF UnderWay
  <2> QED
    BY <1>4, <2>1
<1> QED
  <2>1. Chain(qs, op, mp)
    BY <1>1, <1>4, <1>5, <1>6, ChainSame
  <2> QED
    BY <1>4, <2>1 DEF qs

(* gest_loopit closes the chain.                                            *)
LEMMA LoopCloses ==
    ASSUME Chain(phrases, FALSE, mpstack), mpstack = 0 \/ Filled(mpstack),
           Len(phrases) > 0,
           NEW looped, looped = [phrases EXCEPT ![Len(phrases)].next = 1],
           NEW ps, ps = IF mpstack = 0 THEN looped ELSE Pointed(looped, mpstack, 1)
    PROVE  /\ Loop(ps) /\ Len(ps) = Len(phrases) /\ ps[1].get = "none"
           /\ \A i \in 1 .. Len(ps) : ps[i].get = "none" => ps[i].pos = 0
<1> DEFINE n == Len(phrases)
           last == [phrases[n] EXCEPT !.next = 1]
<1>1. /\ phrases \in Seq(PhraseT) /\ n \in Nat /\ n \in 1 .. n /\ mpstack \in 0 .. n
      /\ phrases[1].get = "none"
      /\ \A i \in 1 .. n : phrases[i] \in PhraseT /\ Link(phrases, i)
                           /\ Meta(phrases, mpstack, i)
      /\ \A i \in 1 .. n : Len(phrases[i].phrases) \in Nat
  <2>1. /\ phrases \in Seq(PhraseT) /\ mpstack \in 0 .. n /\ phrases[1].get = "none"
        /\ \A i \in 1 .. n : Link(phrases, i) /\ Meta(phrases, mpstack, i)
    BY DEF Chain
  <2>2. n \in Nat /\ n \in 1 .. n /\ \A i \in 1 .. n : phrases[i] \in PhraseT
    BY <2>1
  <2> QED
    BY <2>1, <2>2, Fields
<1>2. mpstack # 0 => /\ mpstack \in 1 .. n /\ phrases[mpstack].get = "seq"
                     /\ n = mpstack + Len(phrases[mpstack].phrases)
                     /\ Len(phrases[mpstack].phrases) > 0
  <2> SUFFICES ASSUME mpstack # 0
               PROVE  /\ mpstack \in 1 .. n /\ phrases[mpstack].get = "seq"
                      /\ n = mpstack + Len(phrases[mpstack].phrases)
                      /\ Len(phrases[mpstack].phrases) > 0
    OBVIOUS
  <2>1. /\ mpstack \in 1 .. n /\ phrases[mpstack].get = "seq"
        /\ n = mpstack + phrases[mpstack].pos + 0
        /\ n <= mpstack + Len(phrases[mpstack].phrases)
    BY <1>1 DEF Chain, UnderWay
  <2>2. /\ phrases[mpstack].pos \in Nat /\ Len(phrases[mpstack].phrases) \in Nat
        /\ phrases[mpstack].pos >= Len(phrases[mpstack].phrases)
    BY <1>1, <2>1, Fields DEF Filled
  <2>3. Len(phrases[mpstack].phrases) > 0
    BY <1>1, <2>1 DEF Meta
  <2> QED
    BY <1>1, <2>1, <2>2, <2>3
<1>3. /\ last \in PhraseT /\ last.next = 1 /\ last.get = phrases[n].get
      /\ last.back = phrases[n].back /\ last.pos = phrases[n].pos
      /\ last.phrases = phrases[n].phrases
  BY <1>1, SetNext
<1>4. looped = [phrases EXCEPT ![n] = last]
  OBVIOUS
<1> HIDE DEF last, n
<1>5. /\ looped \in Seq(PhraseT) /\ Len(looped) = n /\ DOMAIN looped = 1 .. n
      /\ \A i \in 1 .. n :
            /\ looped[i] \in PhraseT
            /\ looped[i].get = phrases[i].get /\ looped[i].pos = phrases[i].pos
            /\ looped[i].back = phrases[i].back /\ looped[i].phrases = phrases[i].phrases
            /\ looped[i].next = IF i = n THEN 1 ELSE phrases[i].next
  <2>1. /\ looped \in Seq(PhraseT) /\ Len(looped) = n
        /\ \A i \in 1 .. n : looped[i] = IF i = n THEN last ELSE phrases[i]
    <3>1. n \in 1 .. Len(phrases) /\ Len(phrases) = n
      BY <1>1 DEF n
    <3>2. /\ [phrases EXCEPT ![n] = last] \in Seq(PhraseT)
          /\ Len([phrases EXCEPT ![n] = last]) = n
          /\ \A i \in 1 .. n :
                [phrases EXCEPT ![n] = last][i] = IF i = n THEN last ELSE phrases[i]
      BY <1>1, <1>3, <3>1, SetOne
    <3> QED
      BY <1>4, <3>2
  <2>2. \A i \in 1 .. n : looped[i] \in PhraseT
    BY <1>1, <1>3, <2>1
  <2>3. DOMAIN looped = 1 .. n
    BY <2>1, OfSeq
  <2>4. ASSUME NEW i \in 1 .. n
        PROVE  /\ looped[i].get = phrases[i].get /\ looped[i].pos = phrases[i].pos
               /\ looped[i].back = phrases[i].back /\ looped[i].phrases = phrases[i].phrases
               /\ looped[i].next = IF i = n THEN 1 ELSE phrases[i].next
    BY <1>3, <2>1
  <2> QED
    BY <2>1, <2>2, <2>3, <2>4
<1>6. /\ ps \in Seq(PhraseT) /\ Len(ps) = n
      /\ \A i \in 1 .. n :
            /\ ps[i].get = phrases[i].get /\ ps[i].pos = phrases[i].pos
            /\ ps[i].back = phrases[i].back /\ ps[i].phrases = phrases[i].phrases
            /\ ps[i].next = IF i = n \/ (mpstack # 0 /\ i > mpstack) THEN 1
                            ELSE phrases[i].next
  <2>1. CASE mpstack = 0
    BY <1>5, <2>1
  <2>2. CASE mpstack # 0
    <3>1. /\ mpstack \in 1 .. n /\ phrases[mpstack].get = "seq"
          /\ n = mpstack + Len(phrases[mpstack].phrases)
          /\ Meta(phrases, mpstack, mpstack)
          /\ looped[mpstack].phrases = phrases[mpstack].phrases
      BY <1>1, <1>2, <1>5, <2>2
    <3>2. ps = [i \in 1 .. n |-> IF i \in Range(phrases[mpstack].phrases)
                                 THEN [looped[i] EXCEPT !.next = 1] ELSE looped[i]]
      BY <1>5, <2>2, <3>1 DEF Pointed
    <3>3. DOMAIN phrases[mpstack].phrases = 1 .. Len(phrases[mpstack].phrases)
      BY <1>1, <3>1, Fields, OfSeq
    <3>4. ASSUME NEW i \in 1 .. n
          PROVE  i \in Range(phrases[mpstack].phrases) <=> i > mpstack
      <4>1. ASSUME i \in Range(phrases[mpstack].phrases)  PROVE i > mpstack
        <5>1. PICK j \in 1 .. Len(phrases[mpstack].phrases) : phrases[mpstack].phrases[j] = i
          BY <3>3, <4>1 DEF Range
        <5>2. i = IF mpstack + j <= n THEN mpstack + j ELSE 0
          BY <3>1, <5>1 DEF Meta, n
        <5> QED
          BY <1>1, <3>1, <5>1, <5>2
      <4>2. ASSUME i > mpstack  PROVE i \in Range(phrases[mpstack].phrases)
        <5>1. /\ i - mpstack \in 1 .. Len(phrases[mpstack].phrases)
              /\ mpstack + (i - mpstack) = i /\ i <= n
          BY <1>1, <3>1, <4>2
        <5>2. phrases[mpstack].phrases[i - mpstack] = i
          BY <3>1, <5>1 DEF Meta, n
        <5> QED
          BY <3>3, <5>1, <5>2 DEF Range
      <4> QED
        BY <4>1, <4>2
    <3>5. ASSUME NEW i \in 1 .. n
          PROVE  /\ ps[i] \in PhraseT
                 /\ ps[i].get = phrases[i].get /\ ps[i].pos = phrases[i].pos
                 /\ ps[i].back = phrases[i].back /\ ps[i].phrases = phrases[i].phrases
                 /\ ps[i].next = IF i = n \/ i > mpstack THEN 1 ELSE phrases[i].next
      <4>1. looped[i] \in PhraseT /\ 1 \in Nat
        BY <1>5
      <4>2. CASE i > mpstack
        <5>1. ps[i] = [looped[i] EXCEPT !.next = 1]
          BY <3>2, <3>4, <4>2
        <5>2. /\ ps[i] \in PhraseT /\ ps[i].next = 1 /\ ps[i].back = looped[i].back
              /\ ps[i].pos = looped[i].pos /\ ps[i].get = looped[i].get
              /\ ps[i].phrases = looped[i].phrases
          <6> DEFINE r == looped[i]
                     p == ps[i]
          <6>1. r \in PhraseT /\ 1 \in Nat /\ p = [r EXCEPT !.next = 1]
            BY <4>1, <5>1
          <6> HIDE DEF r, p
          <6>2. /\ p \in PhraseT /\ p.next = 1 /\ p.back = r.back /\ p.pos = r.pos
                /\ p.get = r.get /\ p.phrases = r.phrases
            BY <6>1, SetNext
          <6> QED
            BY <6>2 DEF r, p
        <5> QED
          BY <1>5, <4>2, <5>2
      <4>3. CASE ~(i > mpstack)
        <5>1. ps[i] = looped[i]
          BY <3>2, <3>4, <4>3
        <5>2. ~(i = n \/ i > mpstack)
          BY <1>1, <1>2, <2>2, <4>3
        <5> QED
          BY <1>5, <4>1, <4>3, <5>1, <5>2
      <4> QED
        BY <4>2, <4>3
    <3>6. ps \in [1 .. n -> PhraseT]
      BY <3>2, <3>5
    <3> QED
      BY <1>1, <2>2, <3>5, <3>6, AsSeq
  <2> QED
    BY <2>1, <2>2
<1>7. ASSUME NEW i \in 1 .. n
      PROVE  Linked(ps, i) /\ (ps[i].get = "none" => ps[i].pos = 0)
  <2>1. Link(phrases, i) /\ phrases[i].next \in Nat /\ phrases[i].back \in Nat
    BY <1>1, Fields
  <2>2. /\ phrases[i].next <= n /\ phrases[i].back <= n
        /\ i < n => phrases[i].next # 0
        /\ phrases[i].get = "none" => phrases[i].pos = 0
        /\ phrases[i].get = "goback" => phrases[i].back # 0
        /\ phrases[i].get # "seq" => phrases[i].phrases = <<>>
    BY <2>1 DEF Link, n
  <2>3. /\ ps[i].get = phrases[i].get /\ ps[i].pos = phrases[i].pos
        /\ ps[i].back = phrases[i].back /\ ps[i].phrases = phrases[i].phrases
        /\ i # n => ps[i].next = 1 \/ ps[i].next = phrases[i].next
        /\ i = n => ps[i].next = 1
    <3>1. ps[i].next = IF i = n \/ (mpstack # 0 /\ i > mpstack) THEN 1 ELSE phrases[i].next
      BY <1>6
    <3>2. /\ ps[i].get = phrases[i].get /\ ps[i].pos = phrases[i].pos
          /\ ps[i].back = phrases[i].back /\ ps[i].phrases = phrases[i].phrases
      BY <1>6
    <3> QED
      BY <3>1, <3>2
  <2>4. n \in Nat /\ 1 \in 1 .. n /\ (i # n => i < n)
    BY <1>1
  <2>5. i # n => phrases[i].next \in 1 .. n
    BY <2>1, <2>2, <2>4
  <2>6. phrases[i].back # 0 => phrases[i].back \in 1 .. n
    BY <2>1, <2>2, <2>4
  <2>7. ps[i].next \in 1 .. n
    BY <2>3, <2>4, <2>5
  <2> QED
    BY <1>6, <2>2, <2>3, <2>6, <2>7 DEF Linked
<1>8. ASSUME NEW i \in 1 .. n  PROVE Closed(ps, i)
  <2> SUFFICES ASSUME ps[i].get = "seq"
               PROVE  /\ Len(ps[i].phrases) > 0 /\ i + Len(ps[i].phrases) <= n
                      /\ \A j \in 1 .. Len(ps[i].phrases) :
                            ps[i].phrases[j] = i + j /\ ps[i + j].next = After(ps, i)
    BY <1>6 DEF Closed
  <2> DEFINE L == Len(phrases[i].phrases)
  <2>1. /\ phrases[i].get = "seq" /\ ps[i].phrases = phrases[i].phrases
        /\ Meta(phrases, mpstack, i) /\ L \in Nat
    BY <1>1, <1>6
  <2>2. /\ L > 0
        /\ \A j \in 1 .. L :
              /\ phrases[i].phrases[j] = IF i + j <= n THEN i + j ELSE 0
              /\ i + j <= n => phrases[i + j].get # "seq"
        /\ i # mpstack =>
              /\ i + L < n
              /\ \A j \in 1 .. L : phrases[i + j].next = i + L + 1
    BY <2>1 DEF Meta, n
  <2>3. After(ps, i) = IF i + L = n THEN 1 ELSE i + L + 1
    BY <1>6, <2>1 DEF After
  <2>4. CASE i = mpstack
    <3>1. i + L = n /\ mpstack # 0
      BY <1>2, <2>4
    <3>2. ASSUME NEW j \in 1 .. L
          PROVE  ps[i].phrases[j] = i + j /\ ps[i + j].next = 1
      <4>1. i + j \in 1 .. n /\ i + j > mpstack /\ i + j <= n
        BY <1>1, <2>1, <2>4, <3>1
      <4> QED
        BY <1>6, <2>1, <2>2, <3>1, <4>1
    <3>3. i + L <= n
      BY <1>1, <3>1
    <3> QED
      BY <2>1, <2>2, <2>3, <3>1, <3>2, <3>3
  <2>5. CASE i # mpstack
    <3>1. i + L < n /\ i + L # n
      BY <1>1, <2>1, <2>2, <2>5
    <3>2. ASSUME NEW j \in 1 .. L
          PROVE  ps[i].phrases[j] = i + j /\ ps[i + j].next = i + L + 1
      <4>1. i + j \in 1 .. n /\ i + j <= n /\ i + j # n
        BY <1>1, <2>1, <3>1
      <4>2. ASSUME mpstack # 0, i + j > mpstack  PROVE FALSE
        <5>1. mpstack \in 1 .. n /\ phrases[mpstack].get = "seq"
          BY <1>2, <4>2
        <5>2. CASE i > mpstack
          <6>1. /\ i - mpstack \in 1 .. Len(phrases[mpstack].phrases)
                /\ mpstack + (i - mpstack) = i
            <7>1. /\ i \in Nat /\ mpstack \in Nat /\ i <= n /\ i > mpstack
                  /\ n = mpstack + Len(phrases[mpstack].phrases)
              BY <1>1, <1>2, <4>2, <5>2
            <7>2. Len(phrases[mpstack].phrases) \in Nat
              BY <1>1, <5>1
            <7> QED
              BY <7>1, <7>2
          <6>2. Meta(phrases, mpstack, mpstack) /\ i <= Len(phrases)
            BY <1>1, <5>1 DEF n
          <6>3. phrases[mpstack + (i - mpstack)].get # "seq"
            BY <5>1, <6>1, <6>2 DEF Meta
          <6> QED
            BY <2>1, <6>1, <6>3
        <5>3. CASE i < mpstack
          <6>1. mpstack - i \in 1 .. L /\ i + (mpstack - i) = mpstack /\ mpstack <= n
            <7>1. i \in Nat /\ mpstack \in Nat /\ j \in 1 .. L /\ L \in Nat
                  /\ i < mpstack /\ i + j > mpstack
              BY <1>1, <2>1, <4>2, <5>3
            <7> HIDE DEF L
            <7>2. mpstack - i \in 1 .. L /\ i + (mpstack - i) = mpstack
              BY <7>1
            <7> QED
              BY <5>1, <7>2
          <6>2. phrases[i + (mpstack - i)].get # "seq"
            BY <2>2, <6>1
          <6> QED
            BY <5>1, <6>1, <6>2
        <5> QED
          BY <1>1, <2>5, <5>1, <5>2, <5>3
      <4>3. ps[i + j].next = phrases[i + j].next
        <5>1. ps[i + j].next = IF i + j = n \/ (mpstack # 0 /\ i + j > mpstack) THEN 1
                               ELSE phrases[i + j].next
          BY <1>6, <4>1
        <5> QED
          BY <4>1, <4>2, <5>1
      <4> QED
        BY <2>1, <2>2, <2>5, <4>1, <4>3
    <3>3. i + L <= n
      BY <1>1, <2>1, <3>1
    <3>4. Len(ps[i].phrases) = L /\ After(ps, i) = i + L + 1
      BY <2>1, <2>3, <3>1
    <3> QED
      BY <2>2, <3>2, <3>3, <3>4
  <2> QED
    BY <2>4, <2>5
<1>9. Loop(ps)
  <2>1. n > 0
    BY <1>1
  <2> QED
    BY <1>6, <1>7, <1>8, <2>1 DEF Loop
<1>10. ps[1].get = "none"
  <2>1. 1 \in 1 .. n
    BY <1>1
  <2> QED
    BY <1>1, <1>6, <2>1
<1> QED
  BY <1>6, <1>7, <1>9, <1>10 DEF n

------------------------------------------------------------------------------
(* Playing.                                                                 *)

\* The phrase s has counted v.
Counted(ps, s, v) == [ps EXCEPT ![s].pos = v]

(* A phrase may count on: the chain stays closed.                           *)
LEMMA LoopKeeps ==
    ASSUME NEW ps, Loop(ps), NEW s \in 1 .. Len(ps), NEW v \in Nat
    PROVE  /\ Loop(Counted(ps, s, v)) /\ Len(Counted(ps, s, v)) = Len(ps)
           /\ \A i \in 1 .. Len(ps) :
                 /\ Counted(ps, s, v)[i].get = ps[i].get
                 /\ Counted(ps, s, v)[i].reps = ps[i].reps
                 /\ Counted(ps, s, v)[i].pos = IF i = s THEN v ELSE ps[i].pos
<1> DEFINE qs == Counted(ps, s, v)
           q == [ps[s] EXCEPT !.pos = v]
<1>1. /\ ps \in Seq(PhraseT) /\ Len(ps) \in Nat /\ Len(ps) > 0
      /\ \A i \in 1 .. Len(ps) : ps[i] \in PhraseT /\ Linked(ps, i) /\ Closed(ps, i)
  <2>1. /\ ps \in Seq(PhraseT) /\ Len(ps) > 0
        /\ \A i \in 1 .. Len(ps) : Linked(ps, i) /\ Closed(ps, i)
    BY DEF Loop
  <2>2. Len(ps) \in Nat /\ \A i \in 1 .. Len(ps) : ps[i] \in PhraseT
    BY <2>1, OfSeq
  <2> QED
    BY <2>1, <2>2
<1>2. /\ q \in PhraseT /\ q.next = ps[s].next /\ q.back = ps[s].back /\ q.pos = v
      /\ q.get = ps[s].get /\ q.phrases = ps[s].phrases /\ q.reps = ps[s].reps
  <2>1. ps[s] \in PhraseT
    BY <1>1
  <2> QED
    BY <2>1, SetPos
<1>3. qs = [ps EXCEPT ![s] = q]
  BY DEF Counted
<1> HIDE DEF q, qs
<1>4. /\ qs \in Seq(PhraseT) /\ Len(qs) = Len(ps)
      /\ \A i \in 1 .. Len(ps) : qs[i] = IF i = s THEN q ELSE ps[i]
  BY <1>1, <1>2, <1>3, SetOne
<1>5. \A i \in 1 .. Len(ps) :
          /\ qs[i].next = ps[i].next /\ qs[i].get = ps[i].get /\ qs[i].back = ps[i].back
          /\ qs[i].phrases = ps[i].phrases /\ qs[i].reps = ps[i].reps
          /\ qs[i].pos = IF i = s THEN v ELSE ps[i].pos
  BY <1>2, <1>4
<1>6. ASSUME NEW i \in 1 .. Len(ps)  PROVE Linked(qs, i)
  BY <1>1, <1>4, <1>5 DEF Linked
<1>7. ASSUME NEW i \in 1 .. Len(ps)  PROVE Closed(qs, i)
  <2> SUFFICES ASSUME ps[i].get = "seq"  PROVE Closed(qs, i)
    BY <1>5 DEF Closed
  <2>1. /\ Len(ps[i].phrases) > 0 /\ i + Len(ps[i].phrases) <= Len(ps)
        /\ \A j \in 1 .. Len(ps[i].phrases) :
              ps[i].phrases[j] = i + j /\ ps[i + j].next = After(ps, i)
    BY <1>1 DEF Closed
  <2>2. Len(ps[i].phrases) \in Nat
    BY <1>1, Fields
  <2>3. \A j \in 1 .. Len(ps[i].phrases) : i + j \in 1 .. Len(ps)
    BY <1>1, <2>1, <2>2
  <2>4. qs[i].phrases = ps[i].phrases
    BY <1>5
  <2>5. After(qs, i) = After(ps, i)
    BY <1>4, <2>4 DEF After
  <2>6. \A j \in 1 .. Len(ps[i].phrases) : qs[i + j].next = After(ps, i)
    BY <1>5, <2>1, <2>3
  <2> QED
    BY <1>4, <2>1, <2>4, <2>5, <2>6 DEF Closed
<1>8. Loop(qs)
  BY <1>1, <1>4, <1>6, <1>7 DEF Loop
<1> QED
  BY <1>4, <1>5, <1>8 DEF qs

(* A counter is modulo the turns of its phrase.                             *)
LEMMA MaxOne == \A n \in Nat : Max({1, n}) = IF n > 1 THEN n ELSE 1
  BY DEF Max

(* So is what was heard of it.                                              *)
LEMMA TurnsAre ==
    ASSUME NEW ph \in PhraseT
    PROVE  /\ Turns(ph) \in Nat /\ Turns(ph) >= 1 /\ Turns(ph) = Max({1, ph.reps})
           /\ \A h \in Nat : h < Turns(ph) => (h % Turns(ph)) + 1 = h + 1
           /\ (Turns(ph) % Turns(ph)) + 1 = 1
<1>1. ph.reps \in Nat
  BY Fields
<1>2. Turns(ph) \in Nat /\ Turns(ph) >= 1 /\ Turns(ph) = Max({1, ph.reps})
  BY <1>1, MaxOne DEF Turns
<1>3. \A t, h \in Nat : t >= 1 /\ h < t => (h % t) + 1 = h + 1
  OBVIOUS
<1>4. \A t \in Nat : t >= 1 => (t % t) + 1 = 1
  OBVIOUS
<1> QED
  BY <1>2, <1>3, <1>4

------------------------------------------------------------------------------
(* The invariant holds at first, and every step keeps it.                   *)

(* A gesture without phrases is a chain.                                    *)
LEMMA InvInit == Init => Inv
<1> SUFFICES ASSUME Init  PROVE Inv
  OBVIOUS
<1>1. Chain(phrases, FALSE, 0)
  <2>1. phrases \in Seq(PhraseT) /\ Len(phrases) = 0
    BY DEF Init
  <2> QED
    BY <2>1 DEF Chain, UnderWay
<1>2. selected = Len(phrases) /\ saved \in 0 .. Len(phrases)
  BY DEF Init
<1> QED
  BY <1>1, <1>2 DEF Init, Inv, Written, Counts

(* What an action of the writer needs to know.                              *)
LEMMA Writer ==
    ASSUME Inv, step = "write"
    PROVE  /\ Chain(phrases, open, mpstack) /\ selected = Len(phrases)
           /\ saved \in 0 .. Len(phrases) /\ Len(phrases) \in Nat
           /\ phrases \in Seq(PhraseT) /\ mpstack \in 0 .. Len(phrases)
           /\ open \in BOOLEAN
  BY DEF Inv, Written, Chain

(* What it has to leave.                                                    *)
LEMMA WrittenOn ==
    ASSUME step' = "write", Chain(phrases', open', mpstack'),
           selected' = Len(phrases'), saved' \in 0 .. Len(phrases')
    PROVE  Inv'
  BY DEF Inv, Written, Counts

(* A new phrase.                                                            *)
LEMMA StepBegin == Inv /\ Begin => Inv'
<1> SUFFICES ASSUME Inv, Begin  PROVE Inv'
  OBVIOUS
<1>1. /\ step = "write" /\ step' = "write" /\ open = FALSE /\ open' = TRUE
      /\ phrases' = Begun(Phrase) /\ selected' = Len(phrases) + 1 /\ mpstack' = Left
      /\ saved' = saved
  BY Writer DEF Begin, Writing, Inv
<1>2. /\ Chain(phrases, FALSE, mpstack) /\ selected = Len(phrases)
      /\ saved \in 0 .. Len(phrases) /\ Len(phrases) \in Nat
  BY <1>1, Writer
<1>3. /\ Phrase \in PhraseT /\ Phrase.next = 0 /\ Phrase.pos = 0 /\ Phrase.phrases = <<>>
      /\ Phrase.get = "none" /\ Phrase.back = 0
  BY DEF Phrase, PhraseT
<1>4. Chain(phrases', TRUE, Left) /\ Len(phrases') = Len(phrases) + 1
  BY <1>1, <1>2, <1>3, BeginKeeps
<1>5. saved' \in 0 .. Len(phrases')
  BY <1>1, <1>2, <1>4
<1> QED
  BY <1>1, <1>4, <1>5, WrittenOn

(* It is ended.                                                             *)
LEMMA StepEnd == Inv /\ End => Inv'
<1> SUFFICES ASSUME Inv, End  PROVE Inv'
  OBVIOUS
<1>1. /\ step = "write" /\ step' = "write" /\ open = TRUE /\ open' = FALSE
      /\ phrases' = Ended(phrases, mpstack) /\ selected' = selected /\ mpstack' = mpstack
      /\ saved' = saved
  BY Writer DEF End, Writing
<1>2. /\ Chain(phrases, TRUE, mpstack) /\ selected = Len(phrases)
      /\ saved \in 0 .. Len(phrases)
  BY <1>1, Writer
<1>3. Chain(phrases', FALSE, mpstack) /\ Len(phrases') = Len(phrases)
  BY <1>1, <1>2, EndKeeps
<1> QED
  BY <1>1, <1>2, <1>3, WrittenOn

(* A metaphrase.                                                            *)
LEMMA StepAddMetaphrase ==
    ASSUME Inv, NEW sz \in Sizes, AddMetaphrase(sz)
    PROVE  Inv'
<1> DEFINE new == [Phrase EXCEPT !.get = "seq", !.phrases = [i \in 1 .. sz |-> 0]]
<1>1. /\ step = "write" /\ step' = "write" /\ open = FALSE /\ open' = FALSE
      /\ phrases # <<>> /\ Left = 0
      /\ phrases' = Begun(new) /\ selected' = Len(phrases) + 1
      /\ mpstack' = Len(phrases) + 1 /\ saved' = saved
  BY Writer DEF AddMetaphrase, Writing
<1>2. /\ Chain(phrases, FALSE, mpstack) /\ selected = Len(phrases)
      /\ saved \in 0 .. Len(phrases) /\ Len(phrases) \in Nat
  BY <1>1, Writer
<1>3. /\ new \in PhraseT /\ new.get = "seq" /\ new.next = 0 /\ new.pos = 0
      /\ new.back = 0 /\ Len(new.phrases) > 0
      /\ \A j \in 1 .. Len(new.phrases) : new.phrases[j] = 0
  <2> DEFINE slots == [i \in 1 .. sz |-> 0]
  <2>1. sz \in Nat /\ sz > 0
    BY TimesAssumption
  <2>2. slots \in [1 .. sz -> Nat]
    OBVIOUS
  <2>3. /\ slots \in Seq(Nat) /\ Len(slots) = sz
        /\ \A j \in 1 .. sz : slots[j] = 0
    BY <2>1, <2>2, AsSeq
  <2> HIDE DEF slots
  <2>4. /\ new.phrases = slots /\ new.get = "seq" /\ new.next = 0 /\ new.pos = 0
        /\ new.back = 0
    BY DEF Phrase, slots
  <2>5. new \in PhraseT
    <3>1. new = [Phrase EXCEPT !.get = "seq", !.phrases = slots]
      BY DEF slots
    <3> HIDE DEF new
    <3> QED
      BY <2>3, <3>1 DEF Phrase, PhraseT
  <2> QED
    BY <2>1, <2>3, <2>4, <2>5
<1> HIDE DEF new
<1>4. /\ Chain(phrases', FALSE, Len(phrases) + 1) /\ Len(phrases') = Len(phrases) + 1
  BY <1>1, <1>2, <1>3, MetaKeeps
<1>5. saved' \in 0 .. Len(phrases')
  BY <1>1, <1>2, <1>4
<1> QED
  BY <1>1, <1>4, <1>5, WrittenOn

(* A count for the last phrase.                                             *)
LEMMA StepRepeat ==
    ASSUME Inv, NEW n \in Times, Repeat(n)
    PROVE  Inv'
<1>1. /\ step = "write" /\ step' = "write" /\ open' = open /\ selected # 0
      /\ phrases[selected].get = "none"
      /\ phrases' = Repeated(phrases, selected, n)
      /\ selected' = selected /\ mpstack' = mpstack /\ saved' = saved
  BY DEF Repeat, Writing, written, Repeated
<1>2. /\ Chain(phrases, open, mpstack) /\ selected = Len(phrases)
      /\ saved \in 0 .. Len(phrases) /\ Len(phrases) \in Nat
  BY <1>1, Writer
<1>3. selected \in 1 .. Len(phrases) /\ n \in Nat
  BY <1>1, <1>2, TimesAssumption
<1>4. Chain(phrases', open, mpstack) /\ Len(phrases') = Len(phrases)
  BY <1>1, <1>2, <1>3, RepeatKeeps
<1> QED
  BY <1>1, <1>2, <1>4, WrittenOn

(* A mark.                                                                  *)
LEMMA StepMark == Inv /\ Mark => Inv'
<1> SUFFICES ASSUME Inv, Mark  PROVE Inv'
  OBVIOUS
<1>1. /\ step = "write" /\ step' = "write" /\ open' = open
      /\ phrases' = phrases /\ selected' = selected /\ mpstack' = mpstack
      /\ saved' = selected
  BY DEF Mark, Writing
<1>2. /\ Chain(phrases, open, mpstack) /\ selected = Len(phrases)
      /\ Len(phrases) \in Nat
  BY <1>1, Writer
<1> QED
  BY <1>1, <1>2, WrittenOn

(* A return to it.                                                          *)
LEMMA StepReturn ==
    ASSUME Inv, NEW n \in Times, Return(n)
    PROVE  Inv'
<1> DEFINE new == [Phrase EXCEPT !.get = "goback", !.times = n, !.back = saved]
<1>1. /\ step = "write" /\ step' = "write" /\ open = FALSE /\ open' = FALSE
      /\ saved # 0 /\ phrases' = Ended(Begun(new), Left)
      /\ selected' = Len(phrases) + 1 /\ mpstack' = Left /\ saved' = saved
  BY Writer DEF Return, Writing
<1>2. /\ Chain(phrases, FALSE, mpstack) /\ selected = Len(phrases)
      /\ saved \in 0 .. Len(phrases) /\ Len(phrases) \in Nat
  BY <1>1, Writer
<1>3. saved \in 1 .. Len(phrases) /\ saved \in Nat /\ n \in Nat
  BY <1>1, <1>2, TimesAssumption
<1>4. /\ new \in PhraseT /\ new.next = 0 /\ new.pos = 0 /\ new.phrases = <<>>
      /\ new.get = "goback" /\ new.back = saved
  <2>1. /\ new.next = 0 /\ new.pos = 0 /\ new.phrases = <<>>
        /\ new.get = "goback" /\ new.back = saved
    BY DEF Phrase
  <2>2. Phrase \in PhraseT
    BY DEF Phrase, PhraseT
  <2>3. new \in PhraseT
    BY <1>3, <2>2 DEF PhraseT
  <2> QED
    BY <2>1, <2>3
<1> HIDE DEF new
<1>5. Chain(Begun(new), TRUE, Left) /\ Len(Begun(new)) = Len(phrases) + 1
  BY <1>2, <1>3, <1>4, BeginKeeps
<1>6. Chain(phrases', FALSE, Left) /\ Len(phrases') = Len(phrases) + 1
  BY <1>1, <1>5, EndKeeps
<1>7. saved' \in 0 .. Len(phrases')
  BY <1>1, <1>2, <1>6
<1> QED
  BY <1>1, <1>6, <1>7, WrittenOn

(* The loop.                                                                *)
LEMMA StepLoopIt == Inv /\ LoopIt => Inv'
<1> SUFFICES ASSUME Inv, LoopIt  PROVE Inv'
  OBVIOUS
<1> DEFINE looped == [phrases EXCEPT ![selected].next = 1]
<1>1. /\ step = "write" /\ step' = "play" /\ open = FALSE /\ selected # 0
      /\ mpstack = 0 \/ Filled(mpstack)
      /\ phrases' = IF mpstack = 0 THEN looped ELSE Pointed(looped, mpstack, 1)
      /\ selected' = 1 /\ heard' = 1
  BY Writer DEF LoopIt
<1>2. /\ Chain(phrases, FALSE, mpstack) /\ selected = Len(phrases)
      /\ Len(phrases) \in Nat /\ Len(phrases) > 0
  <2>1. /\ Chain(phrases, FALSE, mpstack) /\ selected = Len(phrases)
        /\ Len(phrases) \in Nat
    BY <1>1, Writer
  <2>2. \A l \in Nat : l # 0 => l > 0
    OBVIOUS
  <2>3. Len(phrases) > 0
    BY <2>1, <2>2 DEF LoopIt
  <2> QED
    BY <2>1, <2>3
<1>3. looped = [phrases EXCEPT ![Len(phrases)].next = 1]
  BY <1>2
<1> HIDE DEF looped
<1>4. /\ Loop(phrases') /\ Len(phrases') = Len(phrases) /\ phrases'[1].get = "none"
      /\ \A i \in 1 .. Len(phrases') : phrases'[i].get = "none" => phrases'[i].pos = 0
  BY <1>1, <1>2, <1>3, LoopCloses
<1>5. 1 \in 1 .. Len(phrases') /\ phrases'[1] \in PhraseT
  <2>1. 1 \in 1 .. Len(phrases')
    BY <1>2, <1>4
  <2> QED
    BY <1>4, <2>1 DEF Loop
<1>6. phrases'[1].pos = 0 /\ 1 <= Turns(phrases'[1])
  BY <1>4, <1>5, TurnsAre
<1>7. Counts'
  BY <1>1, <1>4, <1>5, <1>6 DEF Counts
<1> QED
  BY <1>1, <1>7 DEF Inv, Written

(* What an action of the player needs to know.                              *)
LEMMA Player ==
    ASSUME Inv, step # "write"
    PROVE  /\ Counts /\ Loop(phrases) /\ Len(phrases) \in Nat
           /\ selected \in 1 .. Len(phrases) /\ phrases[selected].get = "none"
           /\ \A i \in 1 .. Len(phrases) :
                 /\ phrases[i] \in PhraseT /\ Linked(phrases, i) /\ Closed(phrases, i)
                 /\ phrases[i].get = "none" /\ i # selected => phrases[i].pos = 0
<1>1. Counts /\ Loop(phrases)
  BY DEF Inv, Counts
<1>2. phrases \in Seq(PhraseT)
  BY <1>1 DEF Loop
<1>3. Len(phrases) \in Nat /\ \A i \in 1 .. Len(phrases) : phrases[i] \in PhraseT
  BY <1>2, OfSeq
<1> QED
  BY <1>1, <1>3 DEF Inv, Counts, Loop

(* The phrase is over.                                                      *)
LEMMA StepNextPhrase == Inv /\ NextPhrase => Inv'
<1> SUFFICES ASSUME Inv, NextPhrase  PROVE Inv'
  OBVIOUS
<1> DEFINE ph == phrases[selected]
<1>1. /\ step = "play" /\ step' = "get" /\ selected' = selected /\ heard' = heard
      /\ \/ /\ ph.pos + 1 >= ph.reps
            /\ phrases' = Counted(phrases, selected, 0) /\ seek' = ph.next
         \/ /\ ~(ph.pos + 1 >= ph.reps)
            /\ phrases' = Counted(phrases, selected, ph.pos + 1)
            /\ seek' = selected
  BY DEF NextPhrase, Counted
<1>2. /\ Loop(phrases) /\ Len(phrases) \in Nat
      /\ selected \in 1 .. Len(phrases) /\ ph.get = "none"
      /\ \A i \in 1 .. Len(phrases) :
            phrases[i].get = "none" /\ i # selected => phrases[i].pos = 0
      /\ heard = ph.pos + 1 /\ heard <= Turns(ph)
  BY <1>1, Player DEF Counts
<1>3. /\ ph \in PhraseT /\ ph.pos \in Nat /\ ph.reps \in Nat
      /\ ph.next \in 1 .. Len(phrases)
  BY <1>1, <1>2, Player, Fields DEF Linked
<1> HIDE DEF ph
<1>4. \E v \in Nat :
         /\ phrases' = Counted(phrases, selected, v)
         /\ seek' \in 1 .. Len(phrases)
         /\ \/ v = 0 /\ heard = Turns(ph)
            \/ seek' = selected /\ heard = v /\ heard < Turns(ph)
  <2>1. CASE ph.pos + 1 >= ph.reps
    <3>1. heard = Turns(ph)
      BY <1>2, <1>3, <2>1 DEF Turns
    <3> QED
      BY <1>1, <1>3, <2>1, <3>1
  <2>2. CASE ~(ph.pos + 1 >= ph.reps)
    <3>1. ph.pos + 1 \in Nat /\ ph.pos + 1 < Turns(ph)
      BY <1>3, <2>2 DEF Turns
    <3> QED
      BY <1>1, <1>2, <2>2, <3>1
  <2> QED
    BY <2>1, <2>2
<1>5. PICK v \in Nat :
         /\ phrases' = Counted(phrases, selected, v)
         /\ seek' \in 1 .. Len(phrases)
         /\ \/ v = 0 /\ heard = Turns(ph)
            \/ seek' = selected /\ heard = v /\ heard < Turns(ph)
  BY <1>4
<1>6. /\ Loop(phrases') /\ Len(phrases') = Len(phrases)
      /\ \A i \in 1 .. Len(phrases) :
            /\ phrases'[i].get = phrases[i].get /\ phrases'[i].reps = phrases[i].reps
            /\ phrases'[i].pos = IF i = selected THEN v ELSE phrases[i].pos
  BY <1>2, <1>5, LoopKeeps
<1>7. Turns(phrases'[selected]) = Turns(ph) /\ phrases'[selected].pos = v
  BY <1>2, <1>6 DEF Turns, ph
<1>8. Counts'
  BY <1>1, <1>2, <1>5, <1>6, <1>7 DEF Counts, ph
<1> QED
  BY <1>1, <1>8 DEF Inv, Written

(* A placeholder or a return on the way to the next phrase counts on.       *)
LEMMA StepOnTheWay ==
    ASSUME Inv, step = "get", step' = step, selected' = selected, heard' = heard,
           phrases[seek].get # "none", NEW v \in Nat,
           phrases' = Counted(phrases, seek, v), seek' \in 1 .. Len(phrases)
    PROVE  Inv'
<1>1. /\ Loop(phrases) /\ selected \in 1 .. Len(phrases)
      /\ phrases[selected].get = "none" /\ seek \in 1 .. Len(phrases) /\ seek # selected
      /\ \A i \in 1 .. Len(phrases) :
            phrases[i].get = "none" /\ i # selected => phrases[i].pos = 0
      /\ phrases[selected].pos = 0 /\ heard = Turns(phrases[selected])
  BY Player DEF Counts
<1>2. /\ Loop(phrases') /\ Len(phrases') = Len(phrases)
      /\ \A i \in 1 .. Len(phrases) :
            /\ phrases'[i].get = phrases[i].get /\ phrases'[i].reps = phrases[i].reps
            /\ phrases'[i].pos = IF i = seek THEN v ELSE phrases[i].pos
  BY <1>1, LoopKeeps
<1>3. /\ Turns(phrases'[selected]) = Turns(phrases[selected])
      /\ phrases'[selected].pos = 0 /\ phrases'[selected].get = "none"
  BY <1>1, <1>2 DEF Turns
<1>4. \A i \in 1 .. Len(phrases) :
         phrases'[i].get = "none" /\ i # selected => phrases'[i].pos = 0
  BY <1>1, <1>2
<1>5. Counts'
  BY <1>1, <1>2, <1>3, <1>4 DEF Counts
<1> QED
  BY <1>5 DEF Inv, Written

(* A metaphrase is in turn with one of its phrases.                         *)
LEMMA StepGetSeq == Inv /\ GetSeq => Inv'
<1> SUFFICES ASSUME Inv, GetSeq  PROVE Inv'
  OBVIOUS
<1> DEFINE mp == phrases[seek]
<1>1. /\ step = "get" /\ step' = step /\ selected' = selected /\ heard' = heard
      /\ mp.get = "seq" /\ phrases' = Counted(phrases, seek, InTurn(mp))
      /\ seek' = mp.phrases[InTurn(mp)]
  BY DEF GetSeq, Counted
<1>2. /\ seek \in 1 .. Len(phrases) /\ Len(phrases) \in Nat /\ mp \in PhraseT
      /\ Closed(phrases, seek)
  BY <1>1, Player DEF Counts
<1>3. mp.pos \in Nat /\ Len(mp.phrases) \in Nat
  BY <1>2, Fields
<1>4. /\ Len(mp.phrases) > 0 /\ seek + Len(mp.phrases) <= Len(phrases)
      /\ \A j \in 1 .. Len(mp.phrases) : mp.phrases[j] = seek + j
  BY <1>1, <1>2 DEF Closed
<1> HIDE DEF mp
<1>5. InTurn(mp) \in 1 .. Len(mp.phrases) /\ InTurn(mp) \in Nat
  BY <1>3, <1>4 DEF InTurn
<1>6. seek' = seek + InTurn(mp)
  BY <1>1, <1>4, <1>5
<1>7. seek' \in 1 .. Len(phrases)
  BY <1>2, <1>3, <1>4, <1>5, <1>6
<1> QED
  BY <1>1, <1>5, <1>7, StepOnTheWay DEF mp

(* A return leads back, or on.                                              *)
LEMMA StepGoBack == Inv /\ GoBack => Inv'
<1> SUFFICES ASSUME Inv, GoBack  PROVE Inv'
  OBVIOUS
<1> DEFINE rd == phrases[seek]
           v == IF rd.pos + 1 >= rd.times THEN 0 ELSE rd.pos + 1
<1>1. /\ step = "get" /\ step' = step /\ selected' = selected /\ heard' = heard
      /\ rd.get = "goback" /\ phrases' = Counted(phrases, seek, v)
      /\ seek' = rd.next \/ seek' = rd.back
  BY DEF GoBack, Counted
<1>2. /\ seek \in 1 .. Len(phrases) /\ rd \in PhraseT /\ Linked(phrases, seek)
  BY <1>1, Player DEF Counts
<1>3. seek' \in 1 .. Len(phrases)
  BY <1>1, <1>2 DEF Linked
<1>4. v \in Nat
  BY <1>2, Fields
<1> QED
  BY <1>1, <1>3, <1>4, StepOnTheWay

(* The phrase that was found plays.                                         *)
LEMMA StepSelect == Inv /\ Select => Inv'
<1> SUFFICES ASSUME Inv, Select  PROVE Inv'
  OBVIOUS
<1> DEFINE ph == phrases[seek]
<1>1. /\ step = "get" /\ step' = "play" /\ phrases' = phrases /\ ph.get = "none"
      /\ selected' = seek
      /\ heard' = IF seek # selected THEN 1 ELSE (heard % Max({1, ph.reps})) + 1
  BY DEF Select
<1>2. /\ Loop(phrases) /\ selected \in 1 .. Len(phrases) /\ seek \in 1 .. Len(phrases)
      /\ phrases[selected].get = "none"
      /\ \A i \in 1 .. Len(phrases) :
            phrases[i].get = "none" /\ i # selected => phrases[i].pos = 0
      /\ \/ phrases[selected].pos = 0 /\ heard = Turns(phrases[selected])
         \/ /\ seek = selected /\ heard = phrases[selected].pos
            /\ heard < Turns(phrases[selected])
  BY <1>1, Player DEF Counts
<1>3. ph \in PhraseT /\ ph.pos \in Nat
  BY <1>1, <1>2, Player, Fields
<1>4. /\ Turns(ph) \in Nat /\ Turns(ph) >= 1 /\ Turns(ph) = Max({1, ph.reps})
      /\ \A h \in Nat : h < Turns(ph) => (h % Turns(ph)) + 1 = h + 1
      /\ (Turns(ph) % Turns(ph)) + 1 = 1
  BY <1>3, TurnsAre
<1>5. heard' = ph.pos + 1 /\ heard' <= Turns(ph)
  <2>1. CASE seek # selected
    BY <1>1, <1>2, <1>4, <2>1
  <2>2. CASE seek = selected
    <3>1. heard' = (heard % Turns(ph)) + 1
      BY <1>1, <1>4, <2>2
    <3>2. CASE ph.pos = 0 /\ heard = Turns(ph)
      BY <1>4, <3>1, <3>2
    <3>3. CASE heard = ph.pos /\ heard < Turns(ph)
      BY <1>3, <1>4, <3>1, <3>3
    <3> QED
      BY <1>2, <2>2, <3>2, <3>3
  <2> QED
    BY <2>1, <2>2
<1>6. \A i \in 1 .. Len(phrases) :
         phrases[i].get = "none" /\ i # seek => phrases[i].pos = 0
  BY <1>2
<1>7. Counts'
  BY <1>1, <1>2, <1>5, <1>6 DEF Counts
<1> QED
  BY <1>1, <1>7 DEF Inv, Written

(* Every step keeps the invariant.                                          *)
LEMMA InvStep == Inv /\ [Next]_vars => Inv'
<1> SUFFICES ASSUME Inv, [Next]_vars  PROVE Inv'
  OBVIOUS
<1>1. CASE Write
  BY <1>1, StepBegin, StepEnd, StepMark, StepLoopIt, StepAddMetaphrase, StepRepeat,
     StepReturn DEF Write
<1>2. CASE Play
  BY <1>2, StepNextPhrase, StepGetSeq, StepGoBack, StepSelect DEF Play
<1>3. CASE UNCHANGED vars
  BY <1>3 DEF vars, Inv, Written, Counts, Chain, UnderWay, Link, Meta, Loop, Linked,
     Closed, After, Turns
<1> QED
  BY <1>1, <1>2, <1>3 DEF Next

------------------------------------------------------------------------------
(* The theorems.                                                            *)

(* However a gesture is written and played, its chain has no open end where *)
(* it could be followed, and what a phrase has counted is what was heard.   *)
THEOREM GestPhrasesSound == Spec => []Inv
  BY InvInit, InvStep, PTL DEF Spec

(* The search for the next phrase never follows a NULL.                     *)
THEOREM NeverNull == Spec => []NoNullPhrase
<1>1. Inv => NoNullPhrase
  BY DEF Inv, Counts, NoNullPhrase, Playing
<1> QED
  BY <1>1, GestPhrasesSound, PTL

(* What follows any phrase of a metaphrase is what follows the metaphrase.  *)
THEOREM OneOfMany == Spec => []OnePhraseOfMany
<1>1. Inv => OnePhraseOfMany
  <2> SUFFICES ASSUME Inv, Playing, NEW mp \in Ids, NEW p \in Slots(mp), NEW q \in Slots(mp)
               PROVE  /\ phrases[p].next = phrases[q].next
                      /\ phrases[p].next \notin Slots(mp)
    BY DEF OnePhraseOfMany
  <2> DEFINE ph == phrases[mp]
             L == Len(ph.phrases)
  <2>1. /\ Len(phrases) \in Nat /\ mp \in 1 .. Len(phrases) /\ ph \in PhraseT
        /\ Linked(phrases, mp) /\ Closed(phrases, mp)
    <3>1. Loop(phrases) /\ step # "write"
      BY Player DEF Playing
    <3>2. mp \in 1 .. Len(phrases)
      BY <3>1, OfSeq DEF Loop, Ids
    <3> QED
      BY <3>1, <3>2, Player
  <2>2. ph.phrases \in Seq(Nat) /\ L \in Nat
    BY <2>1, Fields
  <2>3. \A r \in Slots(mp) : \E j \in 1 .. L : r = ph.phrases[j]
    BY <2>2, OfSeq DEF Slots, Range
  <2>4. ph.get = "seq"
    <3>1. L # 0
      BY <2>2, <2>3
    <3>2. ph.get # "seq" => L = 0
      BY <2>1 DEF Linked
    <3> QED
      BY <3>1, <3>2
  <2>5. \A j \in 1 .. L : ph.phrases[j] = mp + j /\ phrases[mp + j].next = After(phrases,
  mp)
    BY <2>1, <2>4 DEF Closed
  <2>6. After(phrases, mp) \in {1, mp + L + 1}
    BY DEF After
  <2>7. \A j \in 1 .. L : mp + j # 1 /\ mp + j # mp + L + 1
    BY <2>1, <2>2
  <2> HIDE DEF ph, L
  <2>8. \A r \in Slots(mp) : phrases[r].next = After(phrases, mp) /\ r # After(phrases, mp)
    BY <2>3, <2>5, <2>6, <2>7
  <2> QED
    BY <2>8
<1> QED
  BY <1>1, GestPhrasesSound, PTL

(* A phrase that repeats is not left before it was heard in full.           *)
THEOREM HeardInFull == Spec => RepeatedInFull
<1> DEFINE Full == selected' # selected /\ Playing =>
                      phrases[selected].reps <= 1 \/ heard = phrases[selected].reps
<1>1. Inv /\ [Next]_vars => Full
  <2> SUFFICES ASSUME Inv, Next, selected' # selected, Playing
               PROVE  phrases[selected].reps <= 1 \/ heard = phrases[selected].reps
    BY DEF vars
  <2>1. Select
    BY DEF Next, Write, Play, Playing, Begin, End, AddMetaphrase, Repeat, Mark, Return,
           LoopIt, Writing, NextPhrase, GetSeq, GoBack
  <2>2. seek # selected /\ step = "get"
    BY <2>1 DEF Select
  <2>3. heard = Turns(phrases[selected]) /\ phrases[selected] \in PhraseT
    BY <2>2, Player DEF Counts
  <2>4. phrases[selected].reps \in Nat
    BY <2>3, Fields
  <2> QED
    BY <2>3, <2>4 DEF Turns
<1>2. Full => [Full]_vars
  OBVIOUS
<1> HIDE DEF Full
<1>3. Spec => [][Full]_vars
  BY <1>1, <1>2, GestPhrasesSound, PTL DEF Spec
<1> QED
  BY <1>3 DEF Full, RepeatedInFull
================================================================================
