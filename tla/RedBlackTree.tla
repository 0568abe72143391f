---------------------------- MODULE RedBlackTree ----------------------------
(* EASTL's rbtree, the tree of set, map, multiset and multimap               *)
(* (red_black_tree.cpp, internal/red_black_tree.h).                          *)
(*                                                                           *)
(* The anchor is a node whose parent is the root, whose children are the     *)
(* leftmost and the rightmost node, and which is red.  The source writes the *)
(* two mirror images of each rebalancing out; here a side is a parameter.    *)
EXTENDS Integers, Sequences

CONSTANT N  \* Bound: the nodes that can be in the tree are 1..N

ASSUME RedBlackTreeAssumption == N \in Nat

Nodes == 1..N
mAnchor == 0
NULL == -1
Sides == {"left", "right"}
Other(s) == IF s = "left" THEN "right" ELSE "left"

VARIABLES
  tree,
  unique  \* has_unique_keys_type: set and map

treeVars == <<tree, unique>>

\* An item is named by its node; in a multiset items 2k - 1 and 2k have key k.
KeyOf(u, n) == IF u THEN n ELSE (n + 1) \div 2
Less(m, n) == KeyOf(unique, m) < KeyOf(unique, n)

\* reset_lose_memory: the empty tree.
Empty ==
  [child |-> [s \in Sides |-> [n \in Nodes \cup {mAnchor} |-> IF n = mAnchor THEN n ELSE NULL]],
   parent |-> [n \in Nodes \cup {mAnchor} |-> NULL], red |-> {mAnchor}, mnSize |-> 0]

TreeInit == tree = Empty /\ unique \in BOOLEAN

-----------------------------------------------------------------------------
(* Reading and relinking a tree t.                                           *)

Root(t) == t.parent[mAnchor]
IsRed(t, n) == n \in t.red
SideOf(t, n) == IF n = t.child["left"][t.parent[n]] THEN "left" ELSE "right"

\* What is in t.
Held(t) == {n \in Nodes : t.parent[n] # NULL}

Outermost(t, s, n) ==
  LET Last[m \in Nodes] == IF t.child[s][m] = NULL THEN m ELSE Last[t.child[s][m]]
  IN Last[n]

\* The first ancestor-or-self that is not a child on side s.
ClimbFrom(t, s, n) ==
  LET Top[m \in Held(t) \cup {mAnchor}] ==
        IF m = t.child[s][t.parent[m]] THEN Top[t.parent[m]] ELSE m
  IN Top[n]

RBTreeIncrement(t, n) ==
  IF t.child["right"][n] # NULL
  THEN Outermost(t, "left", t.child["right"][n])
  ELSE LET m == ClimbFrom(t, "right", n)
       IN IF t.child["right"][m] # t.parent[m] THEN t.parent[m] ELSE m

RBTreeDecrement(t, n) ==
  IF t.parent[n] # NULL /\ t.parent[t.parent[n]] = n /\ IsRed(t, n)
  THEN t.child["right"][n]
  ELSE IF t.child["left"][n] # NULL
  THEN Outermost(t, "right", t.child["left"][n])
  ELSE t.parent[ClimbFrom(t, "left", n)]

Black(t, n) == [t EXCEPT !.red = @ \ {n}]
Red(t, n) == [t EXCEPT !.red = @ \cup {n}]
Link(t, p, s, n) == [t EXCEPT !.child[s][p] = n]
Adopt(t, n, p) == IF n = NULL THEN t ELSE [t EXCEPT !.parent[n] = p]

\* Whoever points down to n points to m.
Replace(t, n, m) ==
  IF n = Root(t) THEN [t EXCEPT !.parent[mAnchor] = m]
  ELSE Link(t, t.parent[n], SideOf(t, n), m)

\* n goes below m, its child on the side other than s.
Turn(t, n, m, inner, s) ==
  LET lifted == Adopt(Adopt(Link(t, n, Other(s), inner), inner, n), m, t.parent[n])
  IN Adopt(Link(Replace(lifted, n, m), m, s, n), n, m)

\* RBTreeRotateLeft and RBTreeRotateRight.
Rotate(t, n, s) == LET m == t.child[Other(s)][n] IN Turn(t, n, m, t.child[s][m], s)

\* A loop that begins with x: a round more than it needs leaves all as it is,
\* and none needs more rounds than there are nodes.
Repeated(Round(_), x) ==
  LET after[k \in 0..N] == IF k = 0 THEN x ELSE Round(after[k - 1]) IN after[N]

-----------------------------------------------------------------------------
(* RBTreeInsert                                                              *)

\* The red nodes n and p change places with the black g.
Straighten(t, n, p, g, s) ==
  IF n = t.child[Other(s)][p]
  THEN [tree |-> Rotate(Red(Black(Rotate(t, p, s), n), g), g, Other(s)), node |-> p]
  ELSE [tree |-> Rotate(Red(Black(t, p), g), g, Other(s)), node |-> n]

\* A round of the loop over the red nodes with a red parent, r.node the lowest.
Recolor(r) ==
  LET t == r.tree
      p == t.parent[r.node]
      g == t.parent[p]
      s == SideOf(t, p)
      uncle == t.child[Other(s)][g]
  IN IF r.node = Root(t) \/ ~IsRed(t, p) THEN r
     ELSE IF IsRed(t, uncle) THEN [tree |-> Red(Black(Black(t, p), uncle), g), node |-> g]
     ELSE Straighten(t, r.node, p, g, s)

\* The new node as a leaf, and the anchor's idea of the outermost nodes.
Attach(t, n, p, s) ==
  LET leaf == [Red(t, n) EXCEPT !.parent[n] = p, !.child[s][p] = n]
  IN IF p = mAnchor THEN [leaf EXCEPT !.parent[mAnchor] = n, !.child[Other(s)][mAnchor] = n]
     ELSE IF p = t.child[s][mAnchor] THEN Link(leaf, mAnchor, s, n)
     ELSE leaf

RBTreeInsert(t, n, p, s) ==
  LET r == Repeated(Recolor, [tree |-> Attach(t, n, p, s), node |-> n])
  IN Black(r.tree, Root(r.tree))

-----------------------------------------------------------------------------
(* RBTreeErase                                                               *)

\* The sibling of a child of xp on side s, made black.
BlackSibling(t, xp, s) ==
  LET sibling == t.child[Other(s)][xp]
  IN IF IsRed(t, sibling) THEN Rotate(Red(Black(t, sibling), xp), xp, s) ELSE t

\* One of the sibling's children is red: the far one is made so.
RedFarNephew(t, xp, s) ==
  LET sibling == t.child[Other(s)][xp]
  IN IF IsRed(t, t.child[Other(s)][sibling]) THEN t
     ELSE Rotate(Red(Black(t, t.child[s][sibling]), sibling), sibling, Other(s))

\* The sibling takes the place and the colour of xp.
LiftSibling(t, xp, s) ==
  LET sibling == t.child[Other(s)][xp]
      coloured == IF IsRed(t, xp) THEN Red(t, sibling) ELSE Black(t, sibling)
  IN Rotate(Black(Black(coloured, xp), t.child[Other(s)][sibling]), xp, s)

\* A round of the loop over the nodes x, children of xp, that lack a black node
\* on every way down from them; done is its break.
Deepen(r) ==
  LET x == r.node
      xp == r.parent
      s == IF x = r.tree.child["left"][xp] THEN "left" ELSE "right"
      t == BlackSibling(r.tree, xp, s)
      sibling == t.child[Other(s)][xp]
  IN IF r.done \/ x = Root(r.tree) \/ IsRed(r.tree, x) THEN r
     ELSE IF \A sd \in Sides : ~IsRed(t, t.child[sd][sibling])
     THEN [tree |-> Red(t, sibling), node |-> xp, parent |-> t.parent[xp], done |-> FALSE]
     ELSE [tree |-> LiftSibling(RedFarNephew(t, xp, s), xp, s), node |-> x, parent |-> xp,
           done |-> TRUE]

\* n has at most one child, x: it takes n's place.
Unlink(t, n, x) ==
  LET p == t.parent[n]
      cut == Replace(Adopt(t, x, p), n, x)
      Outer(s) == IF n # t.child[s][mAnchor] THEN t.child[s][mAnchor]
                  ELSE IF t.child[Other(s)][n] # NULL THEN Outermost(cut, s, x)
                  ELSE p
  IN Link(Link(cut, mAnchor, "left", Outer("left")), mAnchor, "right", Outer("right"))

\* Mutant of Supplant: the successor keeps its own colour.
SupplantKeepsColour(t, n, y, x) ==
  LET left == t.child["left"][n]
      right == t.child["right"][n]
      t1 == Link(Adopt(t, left, y), y, "left", left)
      t2 == IF y = right THEN t1
            ELSE Adopt(Link(Link(Adopt(t1, x, t.parent[y]), t.parent[y], "left", x),
                            y, "right", right), right, y)
  IN Adopt(Replace(t2, n, y), y, t.parent[n])

\* n has two children: its successor y takes its place and its colour.
Supplant(t, n, y, x) ==
  LET left == t.child["left"][n]
      right == t.child["right"][n]
      t1 == Link(Adopt(t, left, y), y, "left", left)
      t2 == IF y = right THEN t1
            ELSE Adopt(Link(Link(Adopt(t1, x, t.parent[y]), t.parent[y], "left", x),
                            y, "right", right), right, y)
      t3 == Adopt(Replace(t2, n, y), y, t.parent[n])
  IN IF IsRed(t, n) THEN Red(t3, y) ELSE Black(t3, y)

\* DoFreeNode: the node's memory says nothing any more.
DoFreeNode(t, n) ==
  [t EXCEPT !.child["left"][n] = NULL, !.child["right"][n] = NULL, !.parent[n] = NULL,
            !.red = @ \ {n}, !.mnSize = @ - 1]

RBTreeErase(t, n) ==
  LET y == IF NULL \in {t.child["left"][n], t.child["right"][n]} THEN n
           ELSE Outermost(t, "left", t.child["right"][n])
      x == IF t.child["left"][y] = NULL THEN t.child["right"][y] ELSE t.child["left"][y]
      xp == IF t.parent[y] = n THEN y ELSE t.parent[y]
      out == IF y = n THEN Unlink(t, n, x) ELSE Supplant(t, n, y, x)
      r == Repeated(Deepen, [tree |-> out, node |-> x, done |-> FALSE,
                             parent |-> IF y = n THEN t.parent[n] ELSE xp])
  IN IF IsRed(t, y) THEN out ELSE Black(r.tree, r.node)

\* erase(position)
EraseItem(t, n) == DoFreeNode(RBTreeErase(t, n), n)

-----------------------------------------------------------------------------
(* Searching.                                                                *)

\* Down the tree from the root, left where GoesLeft: the last node passed, the
\* last one passed on its left (the anchor where there is none).
Search(t, GoesLeft(_)) ==
  LET Descend(r) ==
        IF r.node = NULL THEN r
        ELSE IF GoesLeft(r.node)
        THEN [node |-> t.child["left"][r.node], last |-> r.node, end |-> r.node]
        ELSE [node |-> t.child["right"][r.node], last |-> r.node, end |-> r.end]
  IN Repeated(Descend, [node |-> Root(t), last |-> mAnchor, end |-> mAnchor])

\* The keys of `key`, an item.
lower_bound(t, key) == LET Left(n) == ~Less(n, key) IN Search(t, Left).end
upper_bound(t, key) == LET Left(n) == Less(key, n) IN Search(t, Left).end
find(t, key) ==
  LET n == lower_bound(t, key) IN IF n # mAnchor /\ ~Less(key, n) THEN n ELSE mAnchor

\* DoGetKeyInsertionPositionNonuniqueKeys
PositionNonunique(t, key) == LET Left(n) == Less(key, n) IN Search(t, Left).last

\* DoGetKeyInsertionPositionUniqueKeys
PositionUnique(t, key) ==
  LET last == PositionNonunique(t, key)
      left == last = mAnchor \/ Less(key, last)
      below == IF left THEN RBTreeDecrement(t, last) ELSE last
  IN IF (left /\ last = t.child["left"][mAnchor]) \/ Less(below, key)
     THEN [canInsert |-> TRUE, node |-> last]
     ELSE [canInsert |-> FALSE, node |-> below]

\* Mutant of PositionHint: where keys may repeat the item behind the hint is not
\* looked at.
HintBehindOnly(t, position, key) ==
  LET Before(m, n) == IF unique THEN Less(m, n) ELSE ~Less(n, m)
      next == RBTreeIncrement(t, position)
      rightmost == t.child["right"][mAnchor]
  IN IF position \notin {rightmost, mAnchor}
     THEN IF ~(Before(position, key) /\ (unique => Before(key, next)))
          THEN [node |-> NULL, left |-> FALSE]
          ELSE IF t.child["right"][position] # NULL THEN [node |-> next, left |-> TRUE]
          ELSE [node |-> position, left |-> FALSE]
     ELSE IF t.mnSize > 0 /\ Before(rightmost, key) THEN [node |-> rightmost, left |-> FALSE]
     ELSE [node |-> NULL, left |-> FALSE]

\* Both DoGetKeyInsertionPosition...Hint; Before is < or <=, as keys may repeat.
PositionHint(t, position, key) ==
  LET Before(m, n) == IF unique THEN Less(m, n) ELSE ~Less(n, m)
      next == RBTreeIncrement(t, position)
      rightmost == t.child["right"][mAnchor]
  IN IF position \notin {rightmost, mAnchor}
     THEN IF ~(Before(position, key) /\ Before(key, next)) THEN [node |-> NULL, left |-> FALSE]
          ELSE IF t.child["right"][position] # NULL THEN [node |-> next, left |-> TRUE]
          ELSE [node |-> position, left |-> FALSE]
     ELSE IF t.mnSize > 0 /\ Before(rightmost, key) THEN [node |-> rightmost, left |-> FALSE]
     ELSE [node |-> NULL, left |-> FALSE]

-----------------------------------------------------------------------------
(* The operations.                                                           *)

\* DoInsertValueImpl
InsertBelow(t, n, p, forceToLeft) ==
  [RBTreeInsert(t, n, p, IF forceToLeft \/ p = mAnchor \/ Less(n, p) THEN "left" ELSE "right")
     EXCEPT !.mnSize = @ + 1]

\* DoInsertValue: in a set the item may be there already.
DoInsertItem(t, n) ==
  IF ~unique THEN InsertBelow(t, n, PositionNonunique(t, n), FALSE)
  ELSE IF PositionUnique(t, n).canInsert THEN InsertBelow(t, n, PositionUnique(t, n).node, FALSE)
  ELSE t

\* DoInsertValueHint
InsertByHint(t, position, n) ==
  LET p == PositionHint(t, position, n)
  IN IF p.node = NULL THEN DoInsertItem(t, n) ELSE InsertBelow(t, n, p.node, p.left)

\* What is in t, from begin() to end().
InOrder(t) ==
  LET From[n \in Held(t) \cup {mAnchor}] ==
        IF n = mAnchor THEN <<>> ELSE <<n>> \o From[RBTreeIncrement(t, n)]
  IN From[t.child["left"][mAnchor]]

\* The iterator at the k-th item of s, or end().
IteratorAt(s, k) == IF k > Len(s) THEN mAnchor ELSE s[k]

Insertable == IF unique THEN Nodes ELSE Nodes \ Held(tree)

Insert(n) ==
  /\ n \in Insertable
  /\ tree' = DoInsertItem(tree, n)
  /\ UNCHANGED unique

InsertHint(position, n) ==
  /\ n \in Insertable /\ position \in Held(tree) \cup {mAnchor}
  /\ tree' = InsertByHint(tree, position, n)
  /\ UNCHANGED unique

EraseAt(n) ==
  /\ n \in Held(tree)
  /\ tree' = EraseItem(tree, n)
  /\ UNCHANGED unique

\* erase(first, last), which clears when that is all there is.
EraseRun(t, first, last) ==
  LET EraseFirst(r) ==
        IF r.first = last THEN r
        ELSE [tree |-> EraseItem(r.tree, r.first), first |-> RBTreeIncrement(r.tree, r.first)]
  IN IF first = t.child["left"][mAnchor] /\ last = mAnchor THEN Empty
     ELSE Repeated(EraseFirst, [tree |-> t, first |-> first]).tree

\* erase(first, last), from the i-th item to before the j-th.
EraseRange(i, j) ==
  /\ i <= j
  /\ tree' = EraseRun(tree, IteratorAt(InOrder(tree), i), IteratorAt(InOrder(tree), j))
  /\ UNCHANGED unique

\* erase(first, last) of reverse iterators, each given by its base().
EraseReverseRun(t, first, last) ==
  EraseRun(t, RBTreeDecrement(t, last), RBTreeDecrement(t, first))

\* erase(key) of a multiset: all items of the key.
EraseEqual(n) ==
  /\ tree' = EraseRun(tree, lower_bound(tree, n), upper_bound(tree, n))
  /\ UNCHANGED unique

TreeNext ==
  \/ \E n \in Nodes :
       \/ Insert(n) \/ EraseAt(n) \/ EraseEqual(n)
       \/ \E position \in Nodes \cup {mAnchor} : InsertHint(position, n)
  \/ \E i, j \in 1..(Len(InOrder(tree)) + 1) : EraseRange(i, j)

TreeSpec == TreeInit /\ [][TreeNext]_treeVars

-----------------------------------------------------------------------------
\* The black nodes on the ways down from n, a set of numbers.
BlackHeights(t, n) ==
  LET Heights[m \in Nodes \cup {NULL}] ==
        IF m = NULL THEN {0}
        ELSE {h + IF IsRed(t, m) THEN 0 ELSE 1 :
                h \in Heights[t.child["left"][m]] \cup Heights[t.child["right"][m]]}
  IN Heights[n]

(* What validate() looks for and what it takes for granted: the links of the  *)
(* tree agree with each other, no red node has a red child, every way down    *)
(* passes as many black nodes, and mnSize counts them.                       *)
Valid ==
  /\ \A n \in Held(tree) : \A s \in Sides :
       LET c == tree.child[s][n]
       IN c # NULL => tree.parent[c] = n /\ ~(IsRed(tree, n) /\ IsRed(tree, c))
  /\ ~IsRed(tree, Root(tree)) /\ IsRed(tree, mAnchor)
  /\ \A h, k \in BlackHeights(tree, Root(tree)) : h = k
  /\ tree.mnSize = Len(InOrder(tree))

(* Backwards from the end through the same items, with the anchor recognised  *)
(* by its red colour alone.                                                  *)
IterationReverses ==
  LET s == InOrder(tree)
      n == Len(s)
  IN \A i \in 1..n : RBTreeDecrement(tree, IF i = n THEN mAnchor ELSE s[i + 1]) = s[i]

(* The searches find what a walk through the items finds, for every key.      *)
SearchesAgree ==
  \A key \in Nodes :
    LET s == InOrder(tree)
        First(Test(_)) == LET found == {i \in DOMAIN s : Test(s[i])}
                          IN IF found = {} THEN mAnchor
                             ELSE s[CHOOSE i \in found : \A j \in found : i <= j]
        NotLess(n) == ~Less(n, key)
        Greater(n) == Less(key, n)
        Equal(n) == ~Less(key, n) /\ ~Less(n, key)
    IN /\ lower_bound(tree, key) = First(NotLess)
       /\ upper_bound(tree, key) = First(Greater)
       /\ find(tree, key) = First(Equal)

(* What a call is asked to erase is what goes; an item goes behind all those  *)
(* of its key, or right behind the hint if it may, unless the keys are unique *)
(* and it is there: then nothing changes.                                    *)
ChangesAsAsked ==
  LET s == InOrder(tree)
      n == Len(s)
      Outside(i, j) == SubSeq(s, 1, i - 1) \o SubSeq(s, j, n)
      With(m, i) == SubSeq(s, 1, i - 1) \o <<m>> \o SubSeq(s, i, n)
      MayGoBehind(m, i) ==
        /\ ~Less(m, s[i]) /\ (i < n => ~Less(s[i + 1], m))
  IN /\ \A i, j \in 1..(n + 1) :
          i <= j => InOrder(EraseRun(tree, IteratorAt(s, i), IteratorAt(s, j))) = Outside(i, j)
     /\ \A i \in 1..n : InOrder(EraseItem(tree, s[i])) = Outside(i, i + 1)
     /\ \A m \in Insertable :
          IF m \in Held(tree)
          THEN \A position \in Held(tree) \cup {mAnchor} :
                 DoInsertItem(tree, m) = tree /\ InsertByHint(tree, position, m) = tree
          ELSE /\ \E i \in 1..(n + 1) : /\ IteratorAt(s, i) = upper_bound(tree, m)
                                       /\ InOrder(DoInsertItem(tree, m)) = With(m, i)
                                       /\ InOrder(InsertByHint(tree, mAnchor, m)) = With(m, i)
               /\ \A i \in 1..n :
                    LET hinted == InsertByHint(tree, s[i], m)
                    IN IF MayGoBehind(m, i) THEN InOrder(hinted) = With(m, i + 1)
                       ELSE hinted = DoInsertItem(tree, m)

(* After every sequence of insertions and erasures the tree is balanced, its  *)
(* links and colours agree, it can be walked both ways and searched, and the *)
(* next call does to it what it says.                                        *)
TreeSound == Valid /\ IterationReverses /\ SearchesAgree /\ ChangesAsAsked

(* The reverse range erases what erasing its items one by one from first on   *)
(* erases, as the comment in it says; last is not rend(), which has no next.  *)
ReverseRangeErased ==
  LET s == InOrder(tree)
      n == Len(s)
  IN \A i \in 2..n, j \in 2..(n + 1) :
       i <= j => InOrder(EraseReverseRun(tree, IteratorAt(s, j), s[i]))
                   = SubSeq(s, 1, i - 1) \o SubSeq(s, j, n)

Abstract == INSTANCE SortedItems WITH Members <- Nodes, Key <- KeyOf, items <- InOrder(tree)

(* An rbtree is a sorted sequence of its items: no insertion, with whatever   *)
(* hint, and no erasure misplaces, loses or repeats one.                     *)
ImplementsSortedItems == Abstract!Spec
=============================================================================
