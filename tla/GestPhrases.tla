---------------------------- MODULE GestPhrases ----------------------------
(***************************************************************************)
(* The phrases of a gesture (lib/gest/gest.c): how they are chained while  *)
(* the gesture is written, and in which order they are played.  A phrase   *)
(* points to the next one; a metaphrase is a placeholder that stands for   *)
(* one of its phrases at each visit, in turn; a repeated phrase comes      *)
(* before its successor several times; a return is an empty phrase that    *)
(* leads back to a marked one.  The chain is patched afterwards: the       *)
(* phrases of a metaphrase follow one another until the phrase after the   *)
(* metaphrase, or the loop, is known.                                      *)
(*                                                                         *)
(* The trees of the phrases are those of GestRamps and are left out.  The  *)
(* gesture is one that gest_finish can play: it loops, its metaphrases are *)
(* full and not nested, and only phrases with a tree repeat.  NULL is 0.   *)
(***************************************************************************)
EXTENDS Integers, Sequences, FiniteSetsExt, Functions

CONSTANTS Sizes,       \* the number of phrases of a metaphrase
          Times,       \* the arguments of repeat and return
          MaxPhrases   \* bound: phrases of the gesture, placeholders too

ASSUME TimesAssumption ==
  Sizes \subseteq Nat \ {0} /\ Times \subseteq Nat \ {0} /\ MaxPhrases \in Nat

VARIABLES
  phrases,   \* gest_phrase: next, get, its metaphrase, its counters
  selected,  \* g->phrase_selected
  open,      \* between gest_begin and gest_end
  mpstack,   \* g->mpstack, which holds one placeholder at most here
  saved,     \* g->saved
  step,      \* "write", then "play" and "get"
  seek,      \* the phrase find_next_node has come to
  heard      \* history: how often the selected phrase was heard on end

vars == <<phrases, selected, open, mpstack, saved, step, seek, heard>>
written == <<open, mpstack, saved>>

Ids == DOMAIN phrases

\* get: NULL, phrase_seq or goback; reps and times are 0 without repeat, return
Phrase == [next |-> 0, get |-> "none", phrases |-> <<>>, pos |-> 0,
           reps |-> 0, times |-> 0, back |-> 0]

-----------------------------------------------------------------------------
(* Writing. *)

Init ==
  /\ phrases = <<>> /\ selected = 0 /\ open = FALSE /\ mpstack = 0
  /\ saved = 0 /\ step = "write" /\ seek = 0 /\ heard = 0

\* Mutant of Filled: the last slot does not count.
FilledButOne(mp) == mp # 0 /\ phrases[mp].pos + 1 >= Len(phrases[mp].phrases)

\* the metaphrase being written has all its phrases
Filled(mp) == mp # 0 /\ phrases[mp].pos >= Len(phrases[mp].phrases)

\* Mutant of Pointed: the chain is left as it was written.
PointedNot(ps, mp, p) == ps

\* the metaphrase mp is followed by p, and so is every phrase of it
Pointed(ps, mp, p) ==
  [i \in DOMAIN ps |->
     IF i \in Range(ps[mp].phrases) THEN [ps[i] EXCEPT !.next = p] ELSE ps[i]]

\* gest_begin: the phrases it leaves, the new one last
Begun(new) ==
  LET p == Len(phrases) + 1
      all == Append(phrases, new)
      chained == IF selected = 0 THEN all ELSE [all EXCEPT ![selected].next = p]
  IN IF Filled(mpstack) THEN Pointed(all, mpstack, p)
     ELSE IF mpstack = 0 THEN chained
     ELSE [chained EXCEPT ![mpstack].phrases[phrases[mpstack].pos + 1] = p]

\* gest_end: one more phrase of the metaphrase is done
Ended(ps, mp) == IF mp = 0 THEN ps ELSE [ps EXCEPT ![mp].pos = @ + 1]

Writing(n) == /\ step = "write" /\ Len(phrases) + n <= MaxPhrases
              /\ UNCHANGED <<step, seek, heard>>

Left == IF Filled(mpstack) THEN 0 ELSE mpstack

Begin ==
  /\ Writing(1) /\ ~open
  /\ phrases' = Begun(Phrase)
  /\ selected' = Len(phrases) + 1 /\ open' = TRUE /\ mpstack' = Left
  /\ UNCHANGED saved

End ==
  /\ Writing(0) /\ open
  /\ phrases' = Ended(phrases, mpstack)
  /\ open' = FALSE
  /\ UNCHANGED <<selected, mpstack, saved>>

AddMetaphrase(sz) ==
  /\ Writing(1) /\ ~open /\ phrases # <<>> /\ Left = 0
  /\ phrases' = Begun([Phrase EXCEPT !.get = "seq",
                                     !.phrases = [i \in 1..sz |-> 0]])
  /\ selected' = Len(phrases) + 1 /\ mpstack' = Len(phrases) + 1
  /\ UNCHANGED <<open, saved>>

Repeat(n) ==
  /\ Writing(0) /\ selected # 0 /\ phrases[selected].get = "none"
  /\ phrases' = [phrases EXCEPT ![selected].reps = n, ![selected].pos = 0]
  /\ UNCHANGED <<selected, written>>

Mark == /\ Writing(0) /\ ~open /\ selected # 0
        /\ saved' = selected
        /\ UNCHANGED <<phrases, selected, open, mpstack>>

Return(n) ==
  /\ Writing(1) /\ ~open /\ saved # 0
  /\ phrases' = Ended(Begun([Phrase EXCEPT !.get = "goback", !.times = n,
                                           !.back = saved]), Left)
  /\ selected' = Len(phrases) + 1 /\ mpstack' = Left
  /\ UNCHANGED <<open, saved>>

\* gest_loopit, and gest_finish
LoopIt ==
  LET looped == [phrases EXCEPT ![selected].next = 1]
  IN /\ step = "write" /\ ~open /\ selected # 0 /\ (mpstack = 0 \/ Filled(mpstack))
     /\ phrases' = IF mpstack = 0 THEN looped ELSE Pointed(looped, mpstack, 1)
     /\ mpstack' = 0
     /\ selected' = 1 /\ heard' = 1 /\ step' = "play"
     /\ UNCHANGED <<open, saved, seek>>

-----------------------------------------------------------------------------
(* Playing: next_phrase and get_phrase, as find_next_node calls them. *)

\* Mutant of NextPhrase: the phrase is counted before it was heard.
NextPhraseEarly ==
  LET ph == phrases[selected]
  IN /\ step = "play"
     /\ IF ph.pos + 2 >= ph.reps
        THEN /\ phrases' = [phrases EXCEPT ![selected].pos = 0]
             /\ seek' = ph.next
        ELSE /\ phrases' = [phrases EXCEPT ![selected].pos = @ + 1]
             /\ seek' = selected
     /\ step' = "get"
     /\ UNCHANGED <<selected, written, heard>>

\* the phrase is over: next_phrase, with repeater
NextPhrase ==
  LET ph == phrases[selected]
  IN /\ step = "play"
     /\ IF ph.pos + 1 >= ph.reps   \* also without repeat: reps is 0
        THEN /\ phrases' = [phrases EXCEPT ![selected].pos = 0]
             /\ seek' = ph.next
        ELSE /\ phrases' = [phrases EXCEPT ![selected].pos = @ + 1]
             /\ seek' = selected
     /\ step' = "get"
     /\ UNCHANGED <<selected, written, heard>>

\* Mutant of InTurn: a metaphrase that is always at its start.
InTurnFirst(mp) == 1

\* get_phrase: phrase_seq
InTurn(mp) == IF mp.pos >= Len(mp.phrases) THEN 1 ELSE mp.pos + 1
GetSeq ==
  LET mp == phrases[seek]
  IN /\ step = "get" /\ mp.get = "seq"
     /\ phrases' = [phrases EXCEPT ![seek].pos = InTurn(mp)]
     /\ seek' = mp.phrases[InTurn(mp)]
     /\ UNCHANGED <<selected, written, step, heard>>

\* get_phrase: goback
GoBack ==
  LET rd == phrases[seek]
      done == rd.pos + 1 >= rd.times
  IN /\ step = "get" /\ rd.get = "goback"
     /\ phrases' = [phrases EXCEPT ![seek].pos = IF done THEN 0 ELSE @ + 1]
     /\ seek' = IF done THEN rd.next ELSE rd.back
     /\ UNCHANGED <<selected, written, step, heard>>

\* the phrase that was found is played
Select ==
  /\ step = "get" /\ phrases[seek].get = "none"
  /\ selected' = seek
  /\ heard' = IF seek # selected THEN 1
              ELSE (heard % Max({1, phrases[seek].reps})) + 1
  /\ step' = "play"
  /\ UNCHANGED <<phrases, written, seek>>

-----------------------------------------------------------------------------

Write ==
  \/ Begin \/ End \/ Mark \/ LoopIt
  \/ \E sz \in Sizes : AddMetaphrase(sz)
  \/ \E n \in Times : Repeat(n) \/ Return(n)

Play == NextPhrase \/ GetSeq \/ GoBack \/ Select

Next == Write \/ Play
Spec == Init /\ [][Next]_vars /\ WF_vars(Play)

-----------------------------------------------------------------------------

Playing == step # "write"
Slots(mp) == Range(phrases[mp].phrases)

(* Every link leads to a phrase of the gesture or nowhere.                 *)
TypeOK ==
  /\ \A p \in Ids :
       /\ phrases[p].next \in {0} \cup Ids /\ phrases[p].back \in {0} \cup Ids
       /\ Slots(p) \subseteq {0} \cup Ids
       /\ phrases[p].pos \in 0..Max(Sizes \cup Times)
       /\ phrases[p].get \in {"none", "seq", "goback"}
  /\ {selected, saved, seek, mpstack} \subseteq {0} \cup Ids
  /\ step \in {"write", "play", "get"}

(* The search for the next phrase never follows a NULL: neither an open    *)
(* end of the chain nor an empty slot of a metaphrase (next_phrase,        *)
(* get_phrase, phrase_seq, goback).                                        *)
NoNullPhrase == (Playing => selected # 0) /\ (step = "get" => seek # 0)

(* A metaphrase counts as one phrase: what follows any of its phrases is   *)
(* what follows the metaphrase, never another of its phrases (gest_begin   *)
(* and gest_loopit point them past it).                                    *)
OnePhraseOfMany ==
  Playing =>
    \A mp \in Ids : \A p, q \in Slots(mp) :
      phrases[p].next = phrases[q].next /\ phrases[p].next \notin Slots(mp)

(* A phrase to be repeated n times is not left for another before it was   *)
(* heard n times on end (repeater).                                        *)
RepeatedInFull ==
  [][selected' # selected /\ Playing =>
       phrases[selected].reps <= 1 \/ heard = phrases[selected].reps]_vars

(* Nothing that was written is dropped: every phrase of the gesture is     *)
(* heard again and again, those of a metaphrase and those behind a return  *)
(* too.                                                                    *)
NothingDropped ==
  \A p \in 1..MaxPhrases :
    [](p \in Ids /\ phrases[p].get = "none" /\ Playing => <>(selected = p /\ Playing))

=============================================================================
