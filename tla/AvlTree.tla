------------------------------- MODULE AvlTree -------------------------------
(***************************************************************************)
(* The intrusive AVL tree of avltree.h.  A node is known by its key; `mem' *)
(* holds the link fields of the nodes that are in the tree, so a removed   *)
(* node's memory is back with its owner.                                   *)
(*                                                                         *)
(* The functions of the code rewrite the links in place on the way back up *)
(* the recursion, and skip a write when a flag says that nothing changed   *)
(* below.  Their models take the memory as an argument and return a record *)
(* of the memory, the root of the subtree and the flags.                   *)
(***************************************************************************)
EXTENDS Integers, Sequences, FiniteSets, Functions

CONSTANT Keys    \* the keys, compared by XF_AVLTREE_COMPARE

ASSUME KeysAssumption == Keys \subseteq Nat \ {0}

VARIABLES
  mem,           \* [left, right, height] of each linked node
  root,          \* the root of the tree
  out            \* the node the last operation reported

vars == <<mem, root, out>>

NULL == 0

max_(a, b) == IF a < b THEN b ELSE a

get_height_(m, node) == IF node = NULL THEN 0 ELSE m[node].height

Refreshed(m, node) ==
  max_(get_height_(m, m[node].left), get_height_(m, m[node].right)) + 1

refresh_(m, node) == [m EXCEPT ![node].height = Refreshed(m, node)]

bias_(m, node) ==
  IF node = NULL THEN 0
  ELSE get_height_(m, m[node].left) - get_height_(m, m[node].right)

-----------------------------------------------------------------------------
(* Rotations and rebalancing *)

\* The node that moves up takes its height from the one that moves down.
rotate_left_(m, a) ==
  LET c  == m[a].right
      m1 == refresh_([m EXCEPT ![c].left = a, ![a].right = m[c].left], a)
  IN [mem |-> [m1 EXCEPT ![c].height = m1[a].height + 1], node |-> c]

\* Variants of this module's definitions, named after the slip they make, are
\* not part of the specification: each shows that a property can fail.
RotateRightDropsInner(m, a) ==
  LET b  == m[a].left
      m1 == refresh_([m EXCEPT ![b].right = a, ![a].left = NULL], a)
  IN [mem |-> [m1 EXCEPT ![b].height = m1[a].height + 1], node |-> b]

rotate_right_(m, a) ==
  LET b  == m[a].left
      m1 == refresh_([m EXCEPT ![b].right = a, ![a].left = m[b].right], a)
  IN [mem |-> [m1 EXCEPT ![b].height = m1[a].height + 1], node |-> b]

rotate_left_right_(m, node) ==
  LET l == rotate_left_(m, m[node].left)
  IN rotate_right_([l.mem EXCEPT ![node].left = l.node], node)

rotate_right_left_(m, node) ==
  LET r == rotate_right_(m, m[node].right)
  IN rotate_left_([r.mem EXCEPT ![node].right = r.node], node)

\* r, with the flag *changed as the caller of a balance function finds it
WithChanged(r, changed) == [mem |-> r.mem, node |-> r.node, changed |-> changed]

\* The left side of the node grew or its right side shrank.  A rotation leaves
\* the flag *changed as it finds it.
balance_left_(m0, node, changed) ==
  LET m == refresh_(m0, node)
  IN IF bias_(m, node) < 2
     THEN [mem |-> m, node |-> node,
           changed |-> m[node].height # m0[node].height]
     ELSE IF bias_(m, m[node].left) >= 0
     THEN WithChanged(rotate_right_(m, node), changed)
     ELSE WithChanged(rotate_left_right_(m, node), changed)

BalanceRightClearsChanged(m0, node, changed) ==
  LET m == refresh_(m0, node)
  IN IF bias_(m, node) > -2
     THEN [mem |-> m, node |-> node,
           changed |-> m[node].height # m0[node].height]
     ELSE IF bias_(m, m[node].right) <= 0
     THEN WithChanged(rotate_left_(m, node), FALSE)
     ELSE WithChanged(rotate_right_left_(m, node), FALSE)

\* The right side of the node grew or its left side shrank.
balance_right_(m0, node, changed) ==
  LET m == refresh_(m0, node)
  IN IF bias_(m, node) > -2
     THEN [mem |-> m, node |-> node,
           changed |-> m[node].height # m0[node].height]
     ELSE IF bias_(m, m[node].right) <= 0
     THEN WithChanged(rotate_left_(m, node), changed)
     ELSE WithChanged(rotate_right_left_(m, node), changed)

-----------------------------------------------------------------------------
(* Insertion *)

\* r: what the insertion below returned, b: what the rebalancing returned
Inserted(b, inserted) ==
  [mem |-> b.mem, node |-> b.node, changed |-> b.changed, inserted |-> inserted]

\* The left link is written if *changed, the right link if *inserted.
RECURSIVE insert_node_(_, _, _)
insert_node_(m, node, new) ==
  CASE node = NULL ->
         [mem |-> [k \in DOMAIN m \union {new} |->
                     IF k = new THEN [left |-> NULL, right |-> NULL, height |-> 1]
                     ELSE m[k]],
          node |-> new, changed |-> TRUE, inserted |-> TRUE]
    [] node # NULL /\ new < node ->
         LET r == insert_node_(m, m[node].left, new)
         IN IF r.changed
            THEN Inserted(balance_left_([r.mem EXCEPT ![node].left = r.node],
                                        node, TRUE), r.inserted)
            ELSE [r EXCEPT !.node = node]
    [] node # NULL /\ new > node ->
         LET r == insert_node_(m, m[node].right, new)
         IN IF r.inserted
            THEN Inserted(balance_right_([r.mem EXCEPT ![node].right = r.node],
                                         node, r.changed), TRUE)
            ELSE [r EXCEPT !.node = node]
    [] node # NULL /\ new = node ->
         [mem |-> m, node |-> node, changed |-> FALSE, inserted |-> FALSE]

-----------------------------------------------------------------------------
(* Taking the first or the last node out of a subtree *)

\* remove_min_ is the same walk, without the output parameter.
RECURSIVE pop_min_(_, _)
pop_min_(m, node) ==
  IF m[node].left = NULL
  THEN [mem |-> m, node |-> m[node].right, changed |-> TRUE, popped |-> node]
  ELSE LET r == pop_min_(m, m[node].left)
           b == balance_right_([r.mem EXCEPT ![node].left = r.node], node, TRUE)
       IN IF r.changed
          THEN [mem |-> b.mem, node |-> b.node, changed |-> b.changed,
                popped |-> r.popped]
          ELSE [r EXCEPT !.node = node]

\* remove_max_ is the same walk, without the output parameter.
RECURSIVE pop_max_(_, _)
pop_max_(m, node) ==
  IF m[node].right = NULL
  THEN [mem |-> m, node |-> m[node].left, changed |-> TRUE, popped |-> node]
  ELSE LET r == pop_max_(m, m[node].right)
           b == balance_left_([r.mem EXCEPT ![node].right = r.node], node, TRUE)
       IN IF r.changed
          THEN [mem |-> b.mem, node |-> b.node, changed |-> b.changed,
                popped |-> r.popped]
          ELSE [r EXCEPT !.node = node]

-----------------------------------------------------------------------------
(* Removal by key *)

UnlinkWithoutBalance(m, node) ==
  IF m[node].left = NULL THEN [mem |-> m, node |-> m[node].right]
  ELSE LET p == pop_max_(m, m[node].left)
       IN [mem |-> [p.mem EXCEPT ![p.popped].left = p.node,
                                 ![p.popped].right = m[node].right],
           node |-> p.popped]

\* The node found is replaced by the last node of its left subtree.
Unlink(m, node) ==
  IF m[node].left = NULL THEN [mem |-> m, node |-> m[node].right]
  ELSE LET p == pop_max_(m, m[node].left)
           b == balance_right_([p.mem EXCEPT ![p.popped].left = p.node,
                                             ![p.popped].right = m[node].right],
                               p.popped, TRUE)
       IN [mem |-> b.mem, node |-> b.node]

\* The link on the search path is written at every level; the subtrees are
\* rebalanced at every level if a node was removed.
RECURSIVE remove_key_(_, _, _)
remove_key_(m, node, key) ==
  CASE node = NULL -> [mem |-> m, node |-> NULL, removed |-> NULL]
    [] node # NULL /\ key < node ->
         LET r  == remove_key_(m, m[node].left, key)
             m1 == [r.mem EXCEPT ![node].left = r.node]
             b  == balance_right_(m1, node, TRUE)
         IN IF r.removed = NULL THEN [r EXCEPT !.mem = m1, !.node = node]
            ELSE [mem |-> b.mem, node |-> b.node, removed |-> r.removed]
    [] node # NULL /\ key > node ->
         LET r  == remove_key_(m, m[node].right, key)
             m1 == [r.mem EXCEPT ![node].right = r.node]
             b  == balance_left_(m1, node, TRUE)
         IN IF r.removed = NULL THEN [r EXCEPT !.mem = m1, !.node = node]
            ELSE [mem |-> b.mem, node |-> b.node, removed |-> r.removed]
    [] node # NULL /\ key = node ->
         LET u == Unlink(m, node)
         IN [mem |-> u.mem, node |-> u.node, removed |-> node]

-----------------------------------------------------------------------------
(* Queries *)

RECURSIVE get_min_(_, _)
get_min_(m, node) ==
  IF node = NULL \/ m[node].left = NULL THEN node ELSE get_min_(m, m[node].left)

RECURSIVE get_max_(_, _)
get_max_(m, node) ==
  IF node = NULL \/ m[node].right = NULL THEN node ELSE get_max_(m, m[node].right)

RECURSIVE count_(_, _)
count_(m, node) ==
  IF node = NULL THEN 0 ELSE count_(m, m[node].left) + count_(m, m[node].right) + 1

RECURSIVE count_height_(_, _)
count_height_(m, node) ==
  IF node = NULL THEN 0
  ELSE max_(count_height_(m, m[node].left), count_height_(m, m[node].right)) + 1

RECURSIVE balanced_(_, _)
balanced_(m, node) ==
  node # NULL =>
    /\ bias_(m, node) \in -1..1
    /\ balanced_(m, m[node].left) /\ balanced_(m, m[node].right)

RECURSIVE check_(_, _)
check_(m, node) ==
  node # NULL =>
    /\ m[node].left # NULL => m[node].left < node
    /\ m[node].right # NULL => node <= m[node].right
    /\ count_height_(m, node) = m[node].height
    /\ check_(m, m[node].left) /\ check_(m, m[node].right)

-----------------------------------------------------------------------------
(* Operations *)

Init ==
  /\ mem = << >>
  /\ root = NULL
  /\ out = NULL

\* The memory without the node `gone', which its owner has again.
Without(m, gone) == Restrict(m, DOMAIN m \ {gone})

\* If a node of this key is in the tree already, the new one stays out.
Insert(k) ==
  LET r == insert_node_(mem, root, k) IN
    /\ mem' = r.mem
    /\ root' = r.node
    /\ out' = IF r.inserted THEN k ELSE NULL

Remove(k) ==
  LET r == remove_key_(mem, root, k) IN
    /\ mem' = Without(r.mem, r.removed)
    /\ root' = r.node
    /\ out' = r.removed

Pop(r) ==
  /\ mem' = Without(r.mem, r.popped)
  /\ root' = r.node
  /\ out' = r.popped

\* remove_min needs a node in the tree, as its only caller has made sure.
PopMin == root # NULL /\ Pop(pop_min_(mem, root))

PopMax == root # NULL /\ Pop(pop_max_(mem, root))

PopNothing == root = NULL /\ out' = NULL /\ UNCHANGED <<mem, root>>

Next ==
  \/ \E k \in Keys : Insert(k) \/ Remove(k)
  \/ PopMin
  \/ PopMax
  \/ PopNothing

Spec == Init /\ [][Next]_vars

-----------------------------------------------------------------------------
(* Properties *)

\* The links form a graph on the linked nodes, and the root is one of them.
TypeOK ==
  /\ DOMAIN mem \subseteq Keys
  /\ \A k \in DOMAIN mem :
       /\ mem[k].left \in DOMAIN mem \union {NULL}
       /\ mem[k].right \in DOMAIN mem \union {NULL}
       /\ mem[k].height \in 1..Cardinality(DOMAIN mem)
  /\ root \in DOMAIN mem \union {NULL}

RECURSIVE InOrder(_)
InOrder(node) ==
  IF node = NULL THEN << >>
  ELSE InOrder(mem[node].left) \o <<node>> \o InOrder(mem[node].right)

\* Every linked node is reached exactly once, in key order: no rotation, and
\* no relinking that was skipped on the way up, loses or repeats a subtree,
\* and no link leads out of the tree (TypeOK).  The queries agree.
SearchTree ==
  /\ TypeOK
  /\ LET order == InOrder(root) IN
       /\ Range(order) = DOMAIN mem
       /\ \A i \in 1..Len(order) - 1 : order[i] < order[i + 1]
       /\ count_(mem, root) = Len(order)
       /\ root # NULL => /\ get_min_(mem, root) = order[1]
                         /\ get_max_(mem, root) = order[Len(order)]

\* The two self-checks the code ships hold between calls: stored heights are
\* right, also those a rotation or an early stop did not recompute, and the
\* tree is balanced, which the depth of the recursion rests on.
SelfChecksHold == root # NULL => check_(mem, root) /\ balanced_(mem, root)

\* Seen from outside the tree is the ordered set of OrderedSet: each operation
\* changes and reports the one node it should.  (By SearchTree the nodes in
\* memory are those that are linked.)
OS == INSTANCE OrderedSet WITH set <- DOMAIN mem

ImplementsOrderedSet == OS!Spec
=============================================================================
