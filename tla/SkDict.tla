--------------------------------- MODULE SkDict ---------------------------------
(***************************************************************************)
(* The dictionary of sk_core (sndkit/core.c): 64 chains of entries, each   *)
(* with a key, the object it names and the function that deletes it.  Its  *)
(* objects are what lives as long as a session: tables, hotswappers,       *)
(* gesture machines, the real-time client.                                 *)
(*                                                                         *)
(* A key is compared by its length and its characters; the model's keys    *)
(* are equal when both are.                                                *)
(***************************************************************************)
EXTENDS Integers, Sequences

CONSTANTS
    Keys,
    Objects,    \* what the callers allocate and want kept
    None,       \* no object
    Buckets,    \* 0 .. 63
    Hash        \* the chain of a key

ASSUME NoneAssumption == None \notin Objects
ASSUME HashAssumption == Hash \in [Keys -> Buckets]

VARIABLES
    ent,        \* the chains, newest entry first
    fresh,      \* the objects not yet given to the dictionary
    lost,       \* those it refused: their callers do not free them
    deleted,    \* those whose del has run
    result,     \* what the last lookup returned
    cleaning    \* sk_dict_clean has begun
vars == <<ent, fresh, lost, deleted, result, cleaning>>

\* sk_dict_init.
Init ==
    /\ ent = [b \in Buckets |-> <<>>]
    /\ fresh = Objects /\ lost = {} /\ deleted = {}
    /\ result = None
    /\ cleaning = FALSE

------------------------------------------------------------------------------
Chain(k) == ent[Hash[k]]

Matches(k) == {i \in 1 .. Len(Chain(k)) : Chain(k)[i].key = k}

\* The walk along a chain stops at the first entry with the key.
First(k) == CHOOSE i \in Matches(k) : \A j \in Matches(k) : i <= j

\* Mutant of Without: unlinks the entry before.
WithoutBefore(chain, i) ==
    [j \in 1 .. Len(chain) - 1 |-> IF j < i - 1 THEN chain[j] ELSE chain[j + 1]]

\* An entry is unlinked from its chain.
Without(chain, i) ==
    [j \in 1 .. Len(chain) - 1 |-> IF j < i THEN chain[j] ELSE chain[j + 1]]

\* sk_dict_append; the callers (hsnew, subpatch, rtnew, ...) have allocated
\* the object before they know whether the key is taken.
AppendKey(k, o) ==
    /\ ~cleaning /\ o \in fresh
    /\ fresh' = fresh \ {o}
    /\ IF Matches(k) # {}
       THEN lost' = lost \cup {o} /\ UNCHANGED ent
       ELSE /\ ent' = [ent EXCEPT ![Hash[k]] = <<[key |-> k, ptr |-> o]>> \o @]
            /\ UNCHANGED lost
    /\ UNCHANGED <<deleted, result, cleaning>>

\* sk_dict_lookup_stacklet.
LookupKey(k) ==
    /\ ~cleaning
    /\ result' = IF Matches(k) = {} THEN None ELSE Chain(k)[First(k)].ptr
    /\ UNCHANGED <<ent, fresh, lost, deleted, cleaning>>

\* Mutant of RemoveKey: the entry is deleted and stays in its chain.
RemoveKeyLinked(k) ==
    /\ ~cleaning /\ Matches(k) # {}
    /\ deleted' = deleted \cup {Chain(k)[First(k)].ptr}
    /\ UNCHANGED <<ent, fresh, lost, result, cleaning>>

\* sk_dict_remove, the LIL command del.
RemoveKey(k) ==
    /\ ~cleaning /\ Matches(k) # {}
    /\ deleted' = deleted \cup {Chain(k)[First(k)].ptr}
    /\ ent' = [ent EXCEPT ![Hash[k]] = Without(@, First(k))]
    /\ UNCHANGED <<fresh, lost, result, cleaning>>

\* sk_dict_clean goes through the chains, each from its head.  It leaves the chains
\* as they are, for the core is freed next; here an entry goes as it is freed.
Clean(b) ==
    /\ ent[b] # <<>> /\ \A c \in Buckets : c < b => ent[c] = <<>>
    /\ cleaning' = TRUE
    /\ deleted' = deleted \cup {Head(ent[b]).ptr}
    /\ ent' = [ent EXCEPT ![b] = Tail(@)]
    /\ UNCHANGED <<fresh, lost, result>>

\* The core is freed, and a new one made (mnoreset).
Restart ==
    /\ \A b \in Buckets : ent[b] = <<>>
    /\ cleaning' = FALSE
    /\ UNCHANGED <<ent, fresh, lost, deleted, result>>

Next ==
    \/ \E k \in Keys : LookupKey(k) \/ RemoveKey(k) \/ \E o \in Objects : AppendKey(k, o)
    \/ \E b \in Buckets : Clean(b)
    \/ Restart

Spec == Init /\ [][Next]_vars

------------------------------------------------------------------------------
Entries == [key : Keys, ptr : Objects]

(* Chains hold entries, and each entry is in the chain of its key.          *)
TypeOK ==
    /\ ent \in [Buckets -> Seq(Entries)]
    /\ \A b \in Buckets : \A i \in 1 .. Len(ent[b]) : Hash[ent[b][i].key] = b
    /\ fresh \subseteq Objects /\ lost \subseteq Objects /\ deleted \subseteq Objects
    /\ result \in Objects \cup {None}
    /\ cleaning \in BOOLEAN

(* No key has two entries, the second of which a lookup would never find    *)
(* and a removal would bring back.                                          *)
OneEntryPerKey ==
    \A k \in Keys : \A i, j \in Matches(k) : i = j

Kept(o) == \E b \in Buckets : \E i \in 1 .. Len(ent[b]) : ent[b][i].ptr = o

(* An object is in one of four places: not given yet, kept under one key,   *)
(* deleted, or refused and lost; so none is deleted twice.                  *)
OneFate ==
    /\ \A o \in Objects :
          /\ o \in fresh => o \notin lost /\ o \notin deleted /\ ~Kept(o)
          /\ o \in lost => o \notin deleted /\ ~Kept(o)
          /\ o \in deleted => ~Kept(o)
          /\ o \in fresh \/ o \in lost \/ o \in deleted \/ Kept(o)
    /\ \A b, c \in Buckets : \A i \in 1 .. Len(ent[b]), j \in 1 .. Len(ent[c]) :
          ent[b][i].ptr = ent[c][j].ptr => b = c /\ i = j

ObjectOf(k) == IF Matches(k) = {} THEN None ELSE Chain(k)[First(k)].ptr

Map == INSTANCE ObjectMap WITH map <- [k \in Keys |-> ObjectOf(k)]

(* However the keys hash, the chains are a map from keys to objects.        *)
ImplementsMap == Map!Spec
==============================================================================
