----------------------------- MODULE IntrusiveTree -----------------------------
(***************************************************************************)
(* detail::IntrusiveTree (include/alyrn/detail/intrusive_rbtree.h), the    *)
(* red-black tree that timers are kept in: hooks inside the elements, and  *)
(* a sentinel whose parent is the root and whose left is the minimum.      *)
(*                                                                         *)
(* The operators are the member functions, from the hooks before a call to *)
(* the hooks after it; the code's mirrored cases are one case with a side. *)
(* Elements are numbers, in the order of kLess.                            *)
(***************************************************************************)
EXTENDS Integers, FiniteSets

CONSTANT MaxNodes    \* bound: elements that are linked and unlinked

Elements == 1..MaxNodes
Sentinel == 0
Null == -1

VARIABLES
  tree,    \* per node, its hook: parent, left, right, red, linked
  size,    \* size_
  held     \* the elements that callers expect in the tree

treeVars == <<tree, size, held>>

Unhooked == [parent |-> Null, left |-> Null, right |-> Null, red |-> FALSE, linked |-> FALSE]
Header == [parent |-> Sentinel, left |-> Sentinel, right |-> Sentinel,
           red |-> FALSE, linked |-> FALSE]

TreeInit ==
  /\ tree = [n \in Elements \cup {Sentinel} |-> IF n = Sentinel THEN Header ELSE Unhooked]
  /\ size = 0 /\ held = {}

Set(t, node, field, value) == [t EXCEPT ![node][field] = value]
Paint(t, node, red) == Set(t, node, "red", red)
Opposite(side) == IF side = "left" THEN "right" ELSE "left"
SideOf(t, node, parent) == IF node = t[parent].left THEN "left" ELSE "right"

Root(t) == t[Sentinel].parent
SetRoot(t, node) == Set(Set(t, Sentinel, "parent", node), node, "parent", Sentinel)
Min(t) == t[Sentinel].left
SetMin(t, node) == Set(t, Sentinel, "left", node)

RECURSIVE Minimum(_, _)
Minimum(t, node) == IF t[node].left = Sentinel THEN node ELSE Minimum(t, t[node].left)

RECURSIVE FirstRightOf(_, _)
FirstRightOf(t, node) ==
  LET parent == t[node].parent
  IN  IF parent = Sentinel \/ node = t[parent].left THEN parent ELSE FirstRightOf(t, parent)

Next(t, node) ==
  IF t[node].right # Sentinel THEN Minimum(t, t[node].right)
  ELSE IF node = Root(t) THEN Sentinel ELSE FirstRightOf(t, node)

(* Replaces the subtree at src by the one at dst. *)
Transplant(t, src, dst) ==
  LET parent == t[src].parent
      u == IF parent = Sentinel THEN SetRoot(t, dst)
                                ELSE Set(t, parent, SideOf(t, src, parent), dst)
  IN  IF dst # Sentinel THEN Set(u, dst, "parent", parent) ELSE u

(* LeftRotate() and RightRotate() *)
Rotate(t, pivot, side) ==
  LET top == t[pivot][Opposite(side)]
      inner == t[top][side]
      u == Set(t, pivot, Opposite(side), inner)
      v == IF inner # Sentinel THEN Set(u, inner, "parent", pivot) ELSE u
  IN  Set(Set(Transplant(v, pivot, top), top, side, pivot), pivot, "parent", top)

RECURSIVE InsertFixup(_, _)
InsertFixup(t, node) ==
  LET parent == t[node].parent
      grand == t[parent].parent
      side == SideOf(t, parent, grand)
      uncle == t[grand][Opposite(side)]
      triangle == node = t[parent][Opposite(side)]
      line == IF triangle THEN Rotate(t, parent, side) ELSE t
      low == IF triangle THEN parent ELSE node
      painted == Paint(Paint(line, line[low].parent, FALSE), grand, TRUE)
  IN  IF node = Root(t) \/ ~t[parent].red THEN Paint(t, Root(t), FALSE)
      ELSE IF t[uncle].red
      THEN InsertFixup(Paint(Paint(Paint(t, parent, FALSE), uncle, FALSE), grand, TRUE), grand)
      ELSE InsertFixup(Rotate(painted, grand, Opposite(side)), low)

(* The leaf below which a new element belongs. *)
RECURSIVE LeafFor(_, _, _, _)
LeafFor(t, node, cursor, parent) ==
  IF cursor = Sentinel THEN parent
  ELSE LeafFor(t, node, IF node < cursor THEN t[cursor].left ELSE t[cursor].right, cursor)

(* Forgets that a new element may be the minimum. *)
BugLinked(t, node) ==
  LET parent == LeafFor(t, node, Root(t), Sentinel)
      u == [t EXCEPT ![node] = [parent |-> parent, left |-> Sentinel, right |-> Sentinel,
                                red |-> TRUE, linked |-> TRUE]]
      v == IF parent = Sentinel THEN SetRoot(u, node)
           ELSE Set(u, parent, IF node < parent THEN "left" ELSE "right", node)
  IN  InsertFixup(IF Min(t) = Sentinel THEN SetMin(v, node) ELSE v, node)

(* The hooks after Insert(). *)
Linked(t, node) ==
  LET parent == LeafFor(t, node, Root(t), Sentinel)
      u == [t EXCEPT ![node] = [parent |-> parent, left |-> Sentinel, right |-> Sentinel,
                                red |-> TRUE, linked |-> TRUE]]
      v == IF parent = Sentinel THEN SetRoot(u, node)
           ELSE Set(u, parent, IF node < parent THEN "left" ELSE "right", node)
  IN  InsertFixup(IF Min(t) = Sentinel \/ node < Min(t) THEN SetMin(v, node) ELSE v, node)

-----------------------------------------------------------------------------
(* One more black is owed to node, whose parent is given: the sentinel's is *)
(* the root.                                                                *)
RECURSIVE DeleteFixup(_, _, _)
DeleteFixup(t, node, parent) ==
  LET near == SideOf(t, node, parent)
      far == Opposite(near)
      first == t[parent][far]
      u == IF t[first].red
           THEN Rotate(Paint(Paint(t, first, FALSE), parent, TRUE), parent, near) ELSE t
      sibling == u[parent][far]
      bothBlack == ~u[u[sibling].left].red /\ ~u[u[sibling].right].red
      v == IF u[u[sibling][far]].red THEN u
           ELSE Rotate(Paint(Paint(u, u[sibling][near], FALSE), sibling, TRUE), sibling, far)
      s == v[parent][far]
      w == Paint(Paint(Paint(v, s, v[parent].red), parent, FALSE), v[s][far], FALSE)
      done == Rotate(w, parent, near)
  IN  IF node = Root(t) \/ t[node].red THEN Paint(t, node, FALSE)
      ELSE IF bothBlack THEN DeleteFixup(Paint(u, sibling, TRUE), parent, u[parent].parent)
      ELSE DeleteFixup(done, Root(done), Sentinel)

(* Both children of the target exist: its successor takes its place. *)
Replaced(t, target, detach, orphan) ==
  LET direct == t[detach].parent = target
      u == IF direct THEN IF orphan # Sentinel THEN Set(t, orphan, "parent", detach) ELSE t
           ELSE LET x == Set(Transplant(t, detach, orphan), detach, "right", t[target].right)
                IN  Set(x, x[detach].right, "parent", detach)
      v == Set(Transplant(u, target, detach), detach, "left", t[target].left)
  IN  Paint(Set(v, v[detach].left, "parent", detach), detach, t[target].red)

(* The owed black is looked for above the wrong node. *)
BugOrphanParent(t, target, detach) == t[detach].parent

(* The parent of the node that takes the place of the detached one. *)
OrphanParent(t, target, detach) ==
  IF detach # target /\ t[detach].parent = target THEN detach ELSE t[detach].parent

(* The hooks after Erase(). *)
Erased(t, target) ==
  LET m == IF target = Min(t) THEN SetMin(t, Next(t, target)) ELSE t
      both == t[target].left # Sentinel /\ t[target].right # Sentinel
      detach == IF both THEN Minimum(t, t[target].right) ELSE target
      orphan == IF t[detach].left = Sentinel THEN t[detach].right ELSE t[detach].left
      u == IF both THEN Replaced(m, target, detach, orphan) ELSE Transplant(m, target, orphan)
      v == IF t[detach].red THEN u ELSE DeleteFixup(u, orphan, OrphanParent(t, target, detach))
  IN  [v EXCEPT ![target] = Unhooked]

(* ExtractPrefixImpl() with a predicate that holds up to a limit. *)
RECURSIVE ExtractPrefix(_, _)
ExtractPrefix(t, limit) ==
  IF Min(t) = Sentinel \/ Min(t) > limit THEN t ELSE ExtractPrefix(Erased(t, Min(t)), limit)

(* Clear() below a node: its leaves first. *)
RECURSIVE Cleared(_, _)
Cleared(t, node) ==
  LET parent == t[node].parent
      u == IF parent = Sentinel THEN t ELSE Set(t, parent, SideOf(t, node, parent), Sentinel)
  IN  IF node = Sentinel THEN [t EXCEPT ![Sentinel] = Header]
      ELSE IF t[node].left # Sentinel THEN Cleared(t, t[node].left)
      ELSE IF t[node].right # Sentinel THEN Cleared(t, t[node].right)
      ELSE Cleared([u EXCEPT ![node] = Unhooked], parent)

-----------------------------------------------------------------------------
Insert(n) ==
  \/ tree[n].linked /\ UNCHANGED treeVars
  \/ /\ ~tree[n].linked /\ tree' = Linked(tree, n)
     /\ size' = size + 1 /\ held' = held \cup {n}

Erase(n) ==
  \/ ~tree[n].linked /\ UNCHANGED treeVars
  \/ /\ tree[n].linked /\ tree' = Erased(tree, n)
     /\ size' = size - 1 /\ held' = held \ {n}

PopWhile(limit) ==
  /\ tree' = ExtractPrefix(tree, limit)
  /\ held' = {n \in held : n > limit}
  /\ size' = size - Cardinality({n \in Elements : tree[n].linked /\ ~tree'[n].linked})

Clear ==
  /\ tree' = IF size = 0 THEN tree ELSE Cleared(tree, Root(tree))
  /\ size' = 0 /\ held' = {}

TreeNext ==
  \/ Clear
  \/ \E n \in Elements : Insert(n) \/ Erase(n) \/ PopWhile(n)

TreeSpec == TreeInit /\ [][TreeNext]_treeVars

-----------------------------------------------------------------------------
(* CheckSubtree() between two bounds: the black height, or Null. *)
RECURSIVE CheckSubtree(_, _, _, _, _)
CheckSubtree(t, node, parent, lower, upper) ==
  LET left == CheckSubtree(t, t[node].left, node, lower, node)
      right == CheckSubtree(t, t[node].right, node, node, upper)
  IN  IF node = Sentinel THEN 0
      ELSE IF /\ t[node].linked /\ t[node].parent = parent
              /\ lower < node /\ node < upper
              /\ t[node].red => ~t[t[node].left].red /\ ~t[t[node].right].red
              /\ left # Null /\ left = right
           THEN IF t[node].red THEN left ELSE left + 1
           ELSE Null

(* The elements below a node. *)
RECURSIVE Subtree(_, _)
Subtree(t, node) ==
  IF node = Sentinel THEN {}
  ELSE {node} \cup Subtree(t, t[node].left) \cup Subtree(t, t[node].right)

(* CheckInvariants() *)
CheckInvariants(t, count) ==
  /\ ~t[Sentinel].red /\ ~t[Sentinel].linked /\ t[Sentinel].right = Sentinel
  /\ IF Root(t) = Sentinel THEN count = 0 /\ Min(t) = Sentinel
     ELSE /\ t[Root(t)].parent = Sentinel /\ ~t[Root(t)].red
          /\ CheckSubtree(t, Root(t), Sentinel, 0, MaxNodes + 1) # Null
          /\ Cardinality(Subtree(t, Root(t))) = count
          /\ Min(t) = CHOOSE n \in Subtree(t, Root(t)) : \A m \in Subtree(t, Root(t)) : n <= m

(* After every sequence of calls the tree is a red-black tree, with its    *)
(* root, minimum and size, of exactly the elements that were inserted and  *)
(* not removed since, and every other element's hook is reset.             *)
TreeHoldsSet ==
  /\ CheckInvariants(tree, size)
  /\ Subtree(tree, Root(tree)) = held
  /\ \A n \in Elements \ held : tree[n] = Unhooked
================================================================================
