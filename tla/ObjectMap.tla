------------------------------- MODULE ObjectMap -------------------------------
(***************************************************************************)
(* What a dictionary of objects promises: a key names one object until it  *)
(* is removed, a lookup returns that object and no other, and an object    *)
(* that was accepted is deleted once, when its key goes.                   *)
(***************************************************************************)
CONSTANTS Keys, Objects, None

VARIABLES
    map,        \* the object of each key, None when it has none
    deleted,    \* the objects whose destructor has run
    result      \* what the last lookup returned
vars == <<map, deleted, result>>

Init ==
    /\ map = [k \in Keys |-> None]
    /\ deleted = {}
    /\ result = None

AppendKey(k, o) ==
    /\ map[k] = None
    /\ o \notin deleted /\ \A j \in Keys : map[j] # o
    /\ map' = [map EXCEPT ![k] = o]
    /\ UNCHANGED <<deleted, result>>

LookupKey(k) == result' = map[k] /\ UNCHANGED <<map, deleted>>

RemoveKey(k) ==
    /\ map[k] # None
    /\ map' = [map EXCEPT ![k] = None]
    /\ deleted' = deleted \cup {map[k]}
    /\ UNCHANGED result

Next ==
    \E k \in Keys : LookupKey(k) \/ RemoveKey(k) \/ \E o \in Objects : AppendKey(k, o)

Spec == Init /\ [][Next]_vars
==============================================================================
