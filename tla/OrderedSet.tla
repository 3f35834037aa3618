----------------------------- MODULE OrderedSet -----------------------------
(***************************************************************************)
(* What the functions of avltree.h promise the code that includes it: a    *)
(* set of keys in which each operation reports the node it linked or took  *)
(* out.                                                                    *)
(***************************************************************************)
EXTENDS Integers, FiniteSetsExt

CONSTANT Keys    \* the keys of the nodes, totally ordered

VARIABLES
  set,           \* the keys of the nodes in the set
  out            \* the node the last operation reported; 0 for none

NULL == 0

Init == set = {} /\ out = NULL

Insert(k) ==
  /\ set' = set \union {k}
  /\ out' = IF k \in set THEN NULL ELSE k

Remove(k) ==
  /\ set' = set \ {k}
  /\ out' = IF k \in set THEN k ELSE NULL

TakeMin ==
  /\ set # {}
  /\ out' = Min(set)
  /\ set' = set \ {Min(set)}

TakeMax ==
  /\ set # {}
  /\ out' = Max(set)
  /\ set' = set \ {Max(set)}

Next ==
  \/ \E k \in Keys : Insert(k) \/ Remove(k)
  \/ TakeMin
  \/ TakeMax
  \/ set = {} /\ out' = NULL /\ UNCHANGED set   \* pop_min, pop_max: nothing there

Spec == Init /\ [][Next]_<<set, out>>
=============================================================================
