----------------------------- MODULE MCAvlTree -----------------------------
(* The AVL tree on small instances: every shape that any sequence of       *)
(* operations over the keys up to FullKeys reaches, and every shape that   *)
(* removals reach from the two thinnest trees of height five.              *)
EXTENDS AvlTree

CONSTANT FullKeys   \* bounds the keys that are inserted in any order

\* Inserted in one of these orders the twelve keys give the thinnest trees; a
\* removal on the thin side rotates at more than one level.
LeftHeavy == <<8, 5, 11, 3, 7, 10, 12, 2, 4, 6, 9, 1>>
RightHeavy == [i \in DOMAIN LeftHeavy |-> 13 - LeftHeavy[i]]

\* The next key of that order, if the tree holds those before it.
Continues(order, k) ==
  \E i \in DOMAIN order :
    order[i] = k /\ DOMAIN mem = {order[j] : j \in 1..i - 1}

MayInsert(k) ==
  \/ DOMAIN mem \union {k} \subseteq 1..FullKeys
  \/ Continues(LeftHeavy, k) \/ Continues(RightHeavy, k)

MCNext ==
  \/ \E k \in Keys : (MayInsert(k) /\ Insert(k)) \/ Remove(k)
  \/ PopMin \/ PopMax \/ PopNothing

MCSpec == Init /\ [][MCNext]_vars
=============================================================================
