--------------------------- MODULE TreeShapeProofs ---------------------------
(* Relinking a red-black tree, for every number of nodes.                    *)
(*                                                                           *)
(* Nodes and links are not enough to reason by: a tree is described with a   *)
(* number q[x] for each node, its place in order, and ends e["left"][x] and  *)
(* e["right"][x], the places of the first and the last item below it.        *)
(* Placed says that each node is between its ends, that what hangs on a side *)
(* of it has the rest of the interval on that side, and that parents and     *)
(* children agree.  A black height b[x] of each node gives Heights, which    *)
(* allows one subtree to lack a black node while an erasure repairs it, and  *)
(* Clean says that no red node has a red child.  Sound is all of it together *)
(* with the list of the items and the ends that the anchor keeps.            *)
(*                                                                           *)
(* A rotation keeps the places and moves two ends (RotationTurns), so the    *)
(* order of the items cannot change.  The loop that repairs an insertion     *)
(* ends because the interval below the node it looks at grows.  In order     *)
(* walks and climbs are recursive functions on the places: Walkable is what  *)
(* they need of a tree.                                                      *)
EXTENDS RedBlackTree, SequenceTheorems, FiniteSetTheorems, WellFoundedInduction, TLAPS

-----------------------------------------------------------------------------
(* What relinking and colouring do to a tree.                                *)

Spots == Nodes \cup {mAnchor}
Links == Spots \cup {NULL}

Trees ==
  [child : [Sides -> [Spots -> Links]], parent : [Spots -> Links], red : SUBSET Spots, mnSize : Int]

\* u has the links of t.
SameLinks(t, u) == u \in Trees /\ u.child = t.child /\ u.parent = t.parent

LEMMA SpotsAreNumbers == Nodes \subseteq Nat \ {0} /\ NULL \notin Spots /\ mAnchor \notin Nodes
  BY DEF Nodes, NULL, mAnchor, Spots

LEMMA Colours ==
  ASSUME NEW t \in Trees, NEW n \in Spots
  PROVE  /\ SameLinks(t, Black(t, n)) /\ SameLinks(t, Red(t, n))
         /\ Black(t, n).red = t.red \ {n} /\ Red(t, n).red = t.red \cup {n}
         /\ Black(t, n).mnSize = t.mnSize /\ Red(t, n).mnSize = t.mnSize
  BY DEF Trees, SameLinks, Black, Red

\* u is t with n as the child of p on side s ...
Linked(t, u, p, s, n) ==
  /\ u \in Trees /\ u.parent = t.parent /\ u.red = t.red /\ u.mnSize = t.mnSize
  /\ \A sd \in Sides, z \in Spots : u.child[sd][z] = IF sd = s /\ z = p THEN n ELSE t.child[sd][z]

LEMMA LinkIs ==
  ASSUME NEW t \in Trees, NEW p \in Spots, NEW s \in Sides, NEW n \in Links
  PROVE  Linked(t, Link(t, p, s, n), p, s, n)
  BY DEF Trees, Link, Linked

\* ... with p as the parent of n ...
Adopted(t, u, n, p) ==
  /\ u \in Trees /\ u.child = t.child /\ u.red = t.red /\ u.mnSize = t.mnSize
  /\ \A z \in Spots : u.parent[z] = IF z = n THEN p ELSE t.parent[z]

LEMMA ParentIs ==
  ASSUME NEW t \in Trees, NEW n \in Spots, NEW p \in Links
  PROVE  Adopted(t, [t EXCEPT !.parent[n] = p], n, p)
  BY DEF Trees, Adopted

LEMMA AdoptIs ==
  ASSUME NEW t \in Trees, NEW n \in Links, NEW p \in Links
  PROVE  Adopted(t, Adopt(t, n, p), n, p)
<1>1. CASE n = NULL
  <2>1. \A z \in Spots : z # n
    BY <1>1, SpotsAreNumbers
  <2> QED
    BY <1>1, <2>1 DEF Adopt, Adopted
<1>2. CASE n # NULL
  <2>1. n \in Spots
    BY <1>2 DEF Links
  <2>2. Adopt(t, n, p) = [t EXCEPT !.parent[n] = p]
    BY <1>2 DEF Adopt
  <2> QED
    BY <2>1, <2>2, ParentIs
<1> QED
  BY <1>1, <1>2

LEMMA SideOfIsSide == ASSUME NEW t, NEW n PROVE SideOf(t, n) \in Sides
  BY DEF SideOf, Sides

LEMMA OtherSide == ASSUME NEW s \in Sides PROVE Other(s) \in Sides /\ Other(s) # s /\ Other(Other(s)) = s
  BY DEF Sides, Other

\* ... with m where n was.
Replaced(t, u, n, m, p) ==
  /\ u \in Trees /\ u.red = t.red /\ u.mnSize = t.mnSize
  /\ \A sd \in Sides, z \in Spots :
       u.child[sd][z] = IF n # Root(t) /\ z = p /\ sd = SideOf(t, n) THEN m ELSE t.child[sd][z]
  /\ \A z \in Spots : u.parent[z] = IF n = Root(t) /\ z = mAnchor THEN m ELSE t.parent[z]

LEMMA ReplaceIs ==
  ASSUME NEW t \in Trees, NEW n \in Spots, NEW m \in Links, t.parent[n] \in Spots
  PROVE  Replaced(t, Replace(t, n, m), n, m, t.parent[n])
<1>1. CASE n = Root(t)
  <2>1. mAnchor \in Spots
    BY DEF Spots
  <2>2. Replace(t, n, m) = [t EXCEPT !.parent[mAnchor] = m]
    BY <1>1 DEF Replace
  <2>3. Adopted(t, Replace(t, n, m), mAnchor, m)
    BY <2>1, <2>2, ParentIs
  <2> QED
    BY <1>1, <2>3 DEF Adopted, Replaced
<1>2. CASE n # Root(t)
  <2>1. Replace(t, n, m) = Link(t, t.parent[n], SideOf(t, n), m)
    BY <1>2 DEF Replace
  <2>2. Linked(t, Replace(t, n, m), t.parent[n], SideOf(t, n), m)
    BY <2>1, LinkIs, SideOfIsSide
  <2> QED
    BY <1>2, <2>2 DEF Linked, Replaced
<1> QED
  BY <1>1, <1>2

\* u is t with n below m, its child on the side other than s, and the child of
\* m on side s, if any, below n.
Rotated(t, u, n, m, i, p, s) ==
  /\ u \in Trees /\ u.red = t.red /\ u.mnSize = t.mnSize
  /\ \A sd \in Sides, z \in Spots :
       u.child[sd][z] = IF z = n /\ sd = Other(s) THEN i
                        ELSE IF z = m /\ sd = s THEN n
                        ELSE IF n # Root(t) /\ z = p /\ sd = SideOf(t, n) THEN m
                        ELSE t.child[sd][z]
  /\ \A z \in Spots :
       u.parent[z] = IF z = n THEN m ELSE IF z = m THEN p ELSE IF z = i THEN n
                     ELSE IF z = mAnchor /\ n = Root(t) THEN m ELSE t.parent[z]

LEMMA RotateIs ==
  ASSUME NEW t \in Trees, NEW n \in Nodes, NEW s \in Sides,
         NEW m \in Nodes, NEW i \in Nodes \cup {NULL}, NEW p \in Spots,
         m = t.child[Other(s)][n], i = t.child[s][m], p = t.parent[n],
         n # m, n # i, m # i, p # n, p # m, p # i
  PROVE  Rotated(t, Rotate(t, n, s), n, m, i, p, s)
<1>0. /\ n \in Spots /\ m \in Spots /\ i \in Links /\ n \in Links /\ m \in Links /\ p \in Links
      /\ Other(s) \in Sides /\ Other(s) # s /\ mAnchor \in Spots /\ n # mAnchor /\ m # mAnchor /\ i # mAnchor
  BY OtherSide, SpotsAreNumbers DEF Spots, Links, NULL, mAnchor
<1>1. PICK t1 : t1 = Link(t, n, Other(s), i)
  OBVIOUS
<1>2. PICK t2 : t2 = Adopt(t1, i, n)
  OBVIOUS
<1>3. PICK t3 : t3 = Adopt(t2, m, p)
  OBVIOUS
<1>4. PICK t4 : t4 = Replace(t3, n, m)
  OBVIOUS
<1>5. PICK t5 : t5 = Link(t4, m, s, n)
  OBVIOUS
<1>6. PICK t6 : t6 = Adopt(t5, n, m)
  OBVIOUS
<1>7. Rotate(t, n, s) = t6
  <2>1. Rotate(t, n, s) = Turn(t, n, m, i, s)
    BY Zenon DEF Rotate
  <2>2. Turn(t, n, m, i, s) =
          Adopt(Link(Replace(Adopt(Adopt(Link(t, n, Other(s), i), i, n), m, p), n, m), m, s, n), n, m)
    BY Zenon DEF Turn
  <2> QED
    BY <1>1, <1>2, <1>3, <1>4, <1>5, <1>6, <2>1, <2>2, Zenon
<1>8. Linked(t, t1, n, Other(s), i)
  BY <1>0, <1>1, LinkIs, Zenon
<1>9. Adopted(t1, t2, i, n)
  <2>1. t1 \in Trees
    BY <1>8 DEF Linked
  <2> QED
    BY <1>0, <1>2, <2>1, AdoptIs, Zenon
<1>10. Adopted(t2, t3, m, p)
  <2>1. t2 \in Trees
    BY <1>9 DEF Adopted
  <2> QED
    BY <1>0, <1>3, <2>1, AdoptIs, Zenon
<1>11. t3.parent[n] = p /\ Root(t3) = Root(t) /\ (n # Root(t) => SideOf(t3, n) = SideOf(t, n))
  <2>1. t3.parent[n] = p
    BY <1>0, <1>8, <1>9, <1>10 DEF Linked, Adopted
  <2>2. Root(t3) = Root(t)
    BY <1>0, <1>8, <1>9, <1>10 DEF Root, Linked, Adopted
  <2>3. t3.child["left"][p] = t.child["left"][p]
    BY <1>0, <1>8, <1>9, <1>10 DEF Sides, Linked, Adopted
  <2> QED
    BY <2>1, <2>2, <2>3 DEF SideOf
<1>12. Replaced(t3, t4, n, m, p)
  <2>1. t3 \in Trees
    BY <1>10 DEF Adopted
  <2> QED
    BY <1>0, <1>4, <2>1, <1>11, ReplaceIs
<1>13. Linked(t4, t5, m, s, n)
  <2>1. t4 \in Trees
    BY <1>12 DEF Replaced
  <2> QED
    BY <1>0, <1>5, <2>1, LinkIs, Zenon
<1>14. Adopted(t5, t6, n, m)
  <2>1. t5 \in Trees
    BY <1>13 DEF Linked
  <2> QED
    BY <1>0, <1>6, <2>1, AdoptIs, Zenon
<1>15. \A sd \in Sides, z \in Spots :
         t6.child[sd][z] = IF z = n /\ sd = Other(s) THEN i
                           ELSE IF z = m /\ sd = s THEN n
                           ELSE IF n # Root(t) /\ z = p /\ sd = SideOf(t, n) THEN m
                           ELSE t.child[sd][z]
  BY <1>0, <1>8, <1>9, <1>10, <1>11, <1>12, <1>13, <1>14 DEF Linked, Adopted, Replaced
<1>16. \A z \in Spots :
         t6.parent[z] = IF z = n THEN m ELSE IF z = m THEN p ELSE IF z = i THEN n
                        ELSE IF z = mAnchor /\ n = Root(t) THEN m ELSE t.parent[z]
  BY <1>0, <1>8, <1>9, <1>10, <1>11, <1>12, <1>13, <1>14 DEF Linked, Adopted, Replaced
<1>17. t6 \in Trees /\ t6.red = t.red /\ t6.mnSize = t.mnSize
  BY <1>8, <1>9, <1>10, <1>12, <1>13, <1>14 DEF Linked, Adopted, Replaced
<1> QED
  BY <1>7, <1>15, <1>16, <1>17 DEF Rotated

-----------------------------------------------------------------------------
(* The shape of a tree of the nodes H.  Node x is at position q[x], and what  *)
(* is below it, with it, is what is at e["left"][x] to e["right"][x].        *)

\* Which way the positions go on side s.
Dir(s) == IF s = "left" THEN -1 ELSE 1

\* What there is on side sd of x.
Arm(t, H, q, e, x, sd) ==
  IF t.child[sd][x] = NULL THEN e[sd][x] = q[x]
  ELSE /\ t.child[sd][x] \in H
       /\ t.parent[t.child[sd][x]] = x
       /\ e[sd][t.child[sd][x]] = e[sd][x]
       /\ e[Other(sd)][t.child[sd][x]] = q[x] + Dir(sd)

\* What there is above x, in a tree of length L.
Hangs(t, H, e, L, x) ==
  IF x = Root(t) THEN t.parent[x] = mAnchor /\ e["left"][x] = 1 /\ e["right"][x] = L
  ELSE t.parent[x] \in H /\ \E sd \in Sides : x = t.child[sd][t.parent[x]]

Around(q, e, x) == e["left"][x] <= q[x] /\ q[x] <= e["right"][x]

Placed(t, H, q, e, L) ==
  /\ t \in Trees /\ H \subseteq Nodes /\ L \in Nat
  /\ q \in [H -> 1..L] /\ e \in [Sides -> [H -> 1..L]]
  /\ \A x \in H : Around(q, e, x)
  /\ \A x \in H, sd \in Sides : Arm(t, H, q, e, x, sd)
  /\ \A x \in H : Hangs(t, H, e, L, x)
  /\ (IF H = {} THEN Root(t) = NULL ELSE Root(t) \in H)

LEMMA PlacedBySameLinks ==
  ASSUME NEW t, NEW u, SameLinks(t, u), NEW H, NEW q, NEW e, NEW L, Placed(t, H, q, e, L)
  PROVE  Placed(u, H, q, e, L)
  BY DEF SameLinks, Placed, Arm, Hangs, Root

\* A child's nodes are those of its parent on one side of it.
Below(q, e, x, c, sd) ==
  IF sd = "left"
  THEN e["left"][c] = e["left"][x] /\ e["right"][c] = q[x] - 1
  ELSE e["left"][c] = q[x] + 1 /\ e["right"][c] = e["right"][x]

LEMMA ChildIsBelow ==
  ASSUME NEW t, NEW H, NEW q, NEW e, NEW L, Placed(t, H, q, e, L),
         NEW x \in H, NEW sd \in Sides, t.child[sd][x] # NULL
  PROVE  /\ t.child[sd][x] \in H /\ t.parent[t.child[sd][x]] = x
         /\ Below(q, e, x, t.child[sd][x], sd) /\ t.child[sd][x] # x
         /\ Around(q, e, x) /\ Around(q, e, t.child[sd][x])
<1>1. Arm(t, H, q, e, x, sd)
  BY DEF Placed
<1>2. /\ t.child[sd][x] \in H /\ t.parent[t.child[sd][x]] = x
      /\ e[sd][t.child[sd][x]] = e[sd][x] /\ e[Other(sd)][t.child[sd][x]] = q[x] + Dir(sd)
  BY <1>1 DEF Arm
<1>3. q[x] \in Int
  BY DEF Placed
<1>4. Below(q, e, x, t.child[sd][x], sd)
  BY <1>2, <1>3 DEF Below, Sides, Other, Dir
<1>5. Around(q, e, x) /\ Around(q, e, t.child[sd][x])
  BY <1>2 DEF Placed
<1>6. t.child[sd][x] # x
  <2>1. e["left"][x] \in Int /\ e["right"][x] \in Int
    BY DEF Placed, Sides
  <2> QED
    BY <1>3, <1>4, <1>5, <2>1 DEF Below, Around
<1> QED
  BY <1>2, <1>4, <1>5, <1>6

\* What is at x in a tree that is placed.
LEMMA PlacesAreNumbers ==
  ASSUME NEW t, NEW H, NEW q, NEW e, NEW L, Placed(t, H, q, e, L), NEW x \in H
  PROVE  /\ q[x] \in 1..L /\ e["left"][x] \in 1..L /\ e["right"][x] \in 1..L
         /\ e["left"][x] <= q[x] /\ q[x] <= e["right"][x]
         /\ x \in Nodes /\ x \in Spots /\ x # NULL /\ x # mAnchor /\ L \in Nat
         /\ t \in Trees
  BY SpotsAreNumbers DEF Placed, Around, Sides, Spots

LEMMA ParentIsAbove ==
  ASSUME NEW t, NEW H, NEW q, NEW e, NEW L, Placed(t, H, q, e, L), NEW x \in H
  PROVE  /\ t.parent[x] \in Spots
         /\ x = Root(t) => t.parent[x] = mAnchor
         /\ x # Root(t) => /\ t.parent[x] \in H
                           /\ SideOf(t, x) \in Sides /\ x = t.child[SideOf(t, x)][t.parent[x]]
                           /\ Below(q, e, t.parent[x], x, SideOf(t, x))
<1>1. Hangs(t, H, e, L, x) /\ H \subseteq Nodes
  BY DEF Placed
<1>2. CASE x = Root(t)
  BY <1>1, <1>2 DEF Hangs, Spots
<1>3. CASE x # Root(t)
  <2>1. t.parent[x] \in H /\ \E sd \in Sides : x = t.child[sd][t.parent[x]]
    BY <1>1, <1>3 DEF Hangs
  <2>2. SideOf(t, x) \in Sides /\ x = t.child[SideOf(t, x)][t.parent[x]]
    BY <2>1 DEF SideOf, Sides
  <2>3. x # NULL
    BY PlacesAreNumbers
  <2>4. Below(q, e, t.parent[x], x, SideOf(t, x))
    BY <2>1, <2>2, <2>3, ChildIsBelow
  <2> QED
    BY <1>1, <1>3, <2>1, <2>2, <2>4 DEF Spots
<1> QED
  BY <1>2, <1>3

\* The nodes that a rotation takes are different.
AboutToRotate(t, H, n, m, i, p, s) ==
  /\ t \in Trees /\ n \in H /\ n \in Nodes /\ m \in H /\ m \in Nodes
  /\ i \in Nodes \cup {NULL} /\ p \in Spots /\ s \in Sides
  /\ m = t.child[Other(s)][n] /\ i = t.child[s][m] /\ p = t.parent[n]
  /\ n # m /\ n # i /\ m # i /\ p # n /\ p # m /\ p # i
  /\ t.parent[m] = n /\ (i # NULL => i \in H /\ t.parent[i] = m)
  /\ (n # Root(t) => p \in H)

LEMMA RotationIsPossible ==
  ASSUME NEW t, NEW H, NEW q, NEW e, NEW L, Placed(t, H, q, e, L),
         NEW n \in H, NEW s \in Sides, t.child[Other(s)][n] # NULL
  PROVE  AboutToRotate(t, H, n, t.child[Other(s)][n], t.child[s][t.child[Other(s)][n]], t.parent[n], s)
<1>1. PICK m : m = t.child[Other(s)][n]
  OBVIOUS
<1>2. PICK i : i = t.child[s][m]
  OBVIOUS
<1>3. PICK p : p = t.parent[n]
  OBVIOUS
<1>4. Other(s) \in Sides
  BY OtherSide
<1>5. m \in H /\ t.parent[m] = n /\ Below(q, e, n, m, Other(s)) /\ m # NULL
  BY <1>1, <1>4, ChildIsBelow
<1>6. i # NULL => i \in H /\ t.parent[i] = m /\ Below(q, e, m, i, s)
  BY <1>2, <1>5, ChildIsBelow
<1>7. p \in Spots /\ (n = Root(t) => p = mAnchor)
      /\ (n # Root(t) => p \in H /\ SideOf(t, n) \in Sides /\ Below(q, e, p, n, SideOf(t, n)))
  BY <1>3, ParentIsAbove
<1>8. /\ q[n] \in 1..L /\ e["left"][n] \in 1..L /\ e["right"][n] \in 1..L
      /\ e["left"][n] <= q[n] /\ q[n] <= e["right"][n] /\ n \in Nodes /\ n # mAnchor /\ n # NULL /\ L \in Nat
      /\ t \in Trees
  BY PlacesAreNumbers
<1>9. /\ q[m] \in 1..L /\ e["left"][m] \in 1..L /\ e["right"][m] \in 1..L
      /\ e["left"][m] <= q[m] /\ q[m] <= e["right"][m] /\ m \in Nodes /\ m # mAnchor
  BY <1>5, PlacesAreNumbers
<1>10. n # m
  BY <1>5, <1>8, <1>9 DEF Below
<1>11. CASE i # NULL
  <2>1. /\ q[i] \in 1..L /\ e["left"][i] \in 1..L /\ e["right"][i] \in 1..L
        /\ e["left"][i] <= q[i] /\ q[i] <= e["right"][i] /\ i \in Nodes /\ i # mAnchor
    BY <1>6, <1>11, PlacesAreNumbers
  <2>2. n # i /\ m # i
    BY <1>4, <1>5, <1>6, <1>8, <1>9, <1>11, <2>1 DEF Below, Sides, Other
  <2>3. p # n /\ p # m /\ p # i
    <3>1. CASE n = Root(t)
      BY <1>7, <1>8, <1>9, <2>1, <3>1
    <3>2. CASE n # Root(t)
      <4>1. /\ q[p] \in 1..L /\ e["left"][p] \in 1..L /\ e["right"][p] \in 1..L
            /\ e["left"][p] <= q[p] /\ q[p] <= e["right"][p]
        BY <1>7, <3>2, PlacesAreNumbers
      <4>2. p # n
        BY <1>7, <1>8, <3>2, <4>1 DEF Below
      <4>3. p # m
        BY <1>5, <1>7, <1>8, <1>9, <3>2, <4>1 DEF Below
      <4>4. p # i
        BY <1>4, <1>5, <1>6, <1>7, <1>8, <1>9, <1>11, <2>1, <3>2, <4>1 DEF Below, Sides, Other
      <4> QED
        BY <4>2, <4>3, <4>4
    <3> QED
      BY <3>1, <3>2
  <2> QED
    BY <1>1, <1>2, <1>3, <1>5, <1>6, <1>7, <1>8, <1>9, <1>10, <1>11, <2>1, <2>2, <2>3, Zenon DEF AboutToRotate
<1>12. CASE i = NULL
  <2>3. p # n /\ p # m /\ p # i
    <3>0. NULL \notin Spots
      BY SpotsAreNumbers
    <3>1. CASE n = Root(t)
      BY <1>7, <1>8, <1>9, <1>12, <3>0, <3>1
    <3>2. CASE n # Root(t)
      <4>1. /\ q[p] \in 1..L /\ e["left"][p] \in 1..L /\ e["right"][p] \in 1..L
            /\ e["left"][p] <= q[p] /\ q[p] <= e["right"][p]
        BY <1>7, <3>2, PlacesAreNumbers
      <4>2. p # n
        BY <1>7, <1>8, <3>2, <4>1 DEF Below
      <4>3. p # m
        BY <1>5, <1>7, <1>8, <1>9, <3>2, <4>1 DEF Below
      <4> QED
        BY <1>7, <1>12, <3>0, <4>2, <4>3
    <3> QED
      BY <3>1, <3>2
  <2>4. NULL \notin Nodes
    BY SpotsAreNumbers DEF Spots
  <2> QED
    BY <1>1, <1>2, <1>3, <1>5, <1>7, <1>8, <1>9, <1>10, <1>12, <2>3, <2>4 DEF AboutToRotate
<1> QED
  BY <1>11, <1>12

\* The ends after a rotation.
TurnedEnds(H, q, e, n, m, s) ==
  [sd \in Sides |-> [z \in H |->
     IF z = m THEN e[sd][n] ELSE IF z = n /\ sd = Other(s) THEN q[m] - Dir(Other(s)) ELSE e[sd][z]]]

\* A node has its two sides apart.
LEMMA ChildrenDiffer ==
  ASSUME NEW t, NEW H, NEW q, NEW e, NEW L, Placed(t, H, q, e, L),
         NEW x \in H, NEW s \in Sides, t.child[s][x] # NULL
  PROVE  t.child[s][x] # t.child[Other(s)][x]
<1>1. SUFFICES ASSUME t.child[s][x] = t.child[Other(s)][x] PROVE FALSE
  OBVIOUS
<1>2. Other(s) \in Sides /\ Other(s) # s
  BY OtherSide
<1>3. PICK c : c = t.child[s][x]
  OBVIOUS
<1>4. c \in H /\ Below(q, e, x, c, s) /\ Below(q, e, x, c, Other(s))
  BY <1>1, <1>2, <1>3, ChildIsBelow
<1>5. q[c] \in Int /\ e["left"][c] <= q[c] /\ q[c] <= e["right"][c] /\ e["left"][c] \in Int /\ e["right"][c] \in Int
  BY <1>4, PlacesAreNumbers
<1>6. q[x] \in Int
  BY PlacesAreNumbers
<1> QED
  BY <1>2, <1>4, <1>5, <1>6 DEF Below, Sides

LEMMA RotationPlaces ==
  ASSUME NEW t, NEW H, NEW q, NEW e, NEW L, Placed(t, H, q, e, L),
         NEW n, NEW m, NEW i, NEW p, NEW s, AboutToRotate(t, H, n, m, i, p, s),
         NEW u, Rotated(t, u, n, m, i, p, s)
  PROVE  Placed(u, H, q, TurnedEnds(H, q, e, n, m, s), L)
<1>1. PICK f : f = TurnedEnds(H, q, e, n, m, s)
  OBVIOUS
<1>2. PICK o : o = Other(s)
  OBVIOUS
<1>3. /\ o \in Sides /\ o # s /\ s = Other(o) /\ s \in Sides /\ \A sd \in Sides : sd = s \/ sd = o
      /\ Dir(s) = -Dir(o) /\ Dir(o) \in Int
  BY <1>2, OtherSide DEF AboutToRotate, Sides, Other, Dir
<1>4. /\ t \in Trees /\ n \in H /\ n \in Nodes /\ m \in H /\ m \in Nodes
      /\ i \in Nodes \cup {NULL} /\ p \in Spots
      /\ m = t.child[o][n] /\ i = t.child[s][m] /\ p = t.parent[n]
      /\ n # m /\ n # i /\ m # i /\ p # n /\ p # m /\ p # i
      /\ t.parent[m] = n /\ (i # NULL => i \in H /\ t.parent[i] = m)
      /\ (n # Root(t) => p \in H)
  BY <1>2 DEF AboutToRotate
<1>5. /\ u \in Trees
      /\ \A sd \in Sides, z \in Spots :
           u.child[sd][z] = IF z = n /\ sd = o THEN i
                            ELSE IF z = m /\ sd = s THEN n
                            ELSE IF n # Root(t) /\ z = p /\ sd = SideOf(t, n) THEN m
                            ELSE t.child[sd][z]
      /\ \A z \in Spots :
           u.parent[z] = IF z = n THEN m ELSE IF z = m THEN p ELSE IF z = i THEN n
                         ELSE IF z = mAnchor /\ n = Root(t) THEN m ELSE t.parent[z]
  BY <1>2 DEF Rotated
<1>6. \A sd \in Sides, z \in H :
        f[sd][z] = IF z = m THEN e[sd][n] ELSE IF z = n /\ sd = o THEN q[m] - Dir(o) ELSE e[sd][z]
  BY <1>1, <1>2 DEF TurnedEnds
<1>7. H \subseteq Spots /\ NULL \notin H /\ mAnchor \notin H /\ mAnchor \in Spots /\ NULL \notin Spots /\ H \subseteq Nodes
  BY SpotsAreNumbers DEF Placed, Spots
<1>8. m # NULL /\ Below(q, e, n, m, o)
  BY <1>3, <1>4, <1>7, ChildIsBelow
<1>9. i # NULL => Below(q, e, m, i, s)
  BY <1>3, <1>4, ChildIsBelow
<1>10. i = NULL => e[s][m] = q[m]
  <2>1. Arm(t, H, q, e, m, s)
    BY <1>3, <1>4 DEF Placed
  <2> QED
    BY <1>4, <2>1 DEF Arm
<1>11. /\ q[n] \in 1..L /\ e["left"][n] \in 1..L /\ e["right"][n] \in 1..L
       /\ e["left"][n] <= q[n] /\ q[n] <= e["right"][n] /\ L \in Nat
  BY <1>4, PlacesAreNumbers
<1>12. /\ q[m] \in 1..L /\ e["left"][m] \in 1..L /\ e["right"][m] \in 1..L
       /\ e["left"][m] <= q[m] /\ q[m] <= e["right"][m]
  BY <1>4, PlacesAreNumbers
<1>13. q[m] - Dir(o) \in 1..L
  BY <1>3, <1>8, <1>11, <1>12 DEF Below, Dir, Sides
<1>14. f \in [Sides -> [H -> 1..L]]
  <2>1. e \in [Sides -> [H -> 1..L]]
    BY DEF Placed
  <2> QED
    BY <1>1, <1>2, <1>4, <1>13, <2>1 DEF TurnedEnds
<1>15. ASSUME NEW x \in H PROVE Around(q, f, x)
  <2>1. f["left"][x] = (IF x = m THEN e["left"][n] ELSE IF x = n /\ "left" = o THEN q[m] - Dir(o) ELSE e["left"][x])
    BY <1>6 DEF Sides
  <2>2. f["right"][x] = (IF x = m THEN e["right"][n] ELSE IF x = n /\ "right" = o THEN q[m] - Dir(o) ELSE e["right"][x])
    BY <1>6 DEF Sides
  <2>3. /\ q[x] \in Int /\ e["left"][x] <= q[x] /\ q[x] <= e["right"][x]
    BY PlacesAreNumbers
  <2> QED
    BY <1>3, <1>4, <1>8, <1>11, <1>12, <2>1, <2>2, <2>3 DEF Around, Below, Dir, Sides
<1>16. ASSUME NEW x \in H, NEW sd \in Sides PROVE Arm(u, H, q, f, x, sd)
  <2>0. x \in Spots /\ Arm(t, H, q, e, x, sd)
    BY <1>7 DEF Placed
  <2>1. CASE x = n /\ sd = o
    <3>1. u.child[sd][x] = i /\ f[o][n] = q[m] - Dir(o)
      BY <1>3, <1>4, <1>5, <1>6, <2>0, <2>1
    <3>2. CASE i = NULL
      BY <1>3, <1>8, <1>10, <1>11, <1>12, <2>1, <3>1, <3>2 DEF Arm, Below, Dir, Sides
    <3>3. CASE i # NULL
      <4>1. i \in Spots /\ i \in H /\ u.parent[i] = n
        BY <1>4, <1>5, <1>7, <3>3, Zenon
      <4>2. f[o][i] = e[o][i] /\ f[s][i] = e[s][i]
        BY <1>3, <1>4, <1>6, <4>1
      <4>3. e[o][i] = q[m] - Dir(o) /\ e[s][i] = q[n] + Dir(o)
        BY <1>3, <1>8, <1>9, <1>11, <1>12, <3>3 DEF Below, Dir, Sides
      <4> QED
        BY <1>3, <2>1, <3>1, <3>3, <4>1, <4>2, <4>3 DEF Arm, Other
    <3> QED
      BY <3>2, <3>3
  <2>2. CASE x = n /\ sd = s
    <3>1. u.child[sd][x] = t.child[sd][x] /\ f[s][n] = e[s][n]
      BY <1>3, <1>4, <1>5, <1>6, <2>0, <2>2
    <3>2. CASE t.child[sd][x] = NULL
      BY <2>0, <2>2, <3>1, <3>2 DEF Arm
    <3>3. CASE t.child[sd][x] # NULL
      <4>1. PICK c : c = t.child[sd][x]
        OBVIOUS
      <4>2. c \in H /\ t.parent[c] = n /\ e[s][c] = e[s][n] /\ e[o][c] = q[n] + Dir(s) /\ c # m /\ c # n /\ c # i
        <5>1. c \in H /\ t.parent[c] = n /\ e[s][c] = e[s][n] /\ e[o][c] = q[n] + Dir(s)
          BY <1>2, <2>0, <2>2, <3>3, <4>1 DEF Arm
        <5>2. c # m
          BY <1>2, <1>3, <1>4, <2>2, <3>3, <4>1, ChildrenDiffer
        <5> QED
          BY <1>4, <1>7, <5>1, <5>2
      <4>3. f[s][c] = e[s][c] /\ f[o][c] = e[o][c]
        BY <1>3, <1>6, <4>2
      <4>4. u.parent[c] = n
        BY <1>5, <1>7, <4>2
      <4> QED
        BY <1>2, <2>2, <3>1, <3>3, <4>1, <4>2, <4>3, <4>4 DEF Arm
    <3> QED
      BY <3>2, <3>3
  <2>3. CASE x = m /\ sd = s
    <3>1. u.child[sd][x] = n
      BY <1>3, <1>4, <1>5, <2>0, <2>3
    <3>2. u.parent[n] = m /\ n # NULL
      BY <1>4, <1>5, <1>7
    <3>3. f[s][n] = e[s][n] /\ f[s][m] = e[s][n] /\ f[o][n] = q[m] - Dir(o)
      BY <1>3, <1>4, <1>6
    <3>4. q[m] - Dir(o) = q[m] + Dir(s)
      BY <1>3, <1>12
    <3> QED
      BY <1>2, <1>4, <2>3, <3>1, <3>2, <3>3, <3>4 DEF Arm
  <2>4. CASE x = m /\ sd = o
    <3>1. u.child[sd][x] = t.child[sd][x] /\ f[o][m] = e[o][n]
      BY <1>3, <1>4, <1>5, <1>6, <2>0, <2>4
    <3>2. e[o][n] = e[o][m]
      BY <1>3, <1>8 DEF Below, Sides
    <3>3. CASE t.child[sd][x] = NULL
      BY <2>0, <2>4, <3>1, <3>2, <3>3 DEF Arm
    <3>4. CASE t.child[sd][x] # NULL
      <4>1. PICK c : c = t.child[sd][x]
        OBVIOUS
      <4>2. c \in H /\ t.parent[c] = m /\ e[o][c] = e[o][m] /\ e[s][c] = q[m] + Dir(o) /\ c # m /\ c # n /\ c # i
        <5>1. c \in H /\ t.parent[c] = m /\ e[o][c] = e[o][m] /\ e[s][c] = q[m] + Dir(o)
          BY <1>3, <2>0, <2>4, <3>4, <4>1 DEF Arm
        <5>2. c # i
          BY <1>3, <1>4, <2>4, <3>4, <4>1, ChildrenDiffer
        <5> QED
          BY <1>4, <1>7, <5>1, <5>2
      <4>3. f[s][c] = e[s][c] /\ f[o][c] = e[o][c]
        BY <1>3, <1>6, <4>2
      <4>4. u.parent[c] = m
        BY <1>5, <1>7, <4>2
      <4> QED
        BY <1>3, <2>4, <3>1, <3>2, <3>4, <4>1, <4>2, <4>3, <4>4 DEF Arm
    <3> QED
      BY <3>3, <3>4
  <2>5. CASE x # n /\ x # m
    <3>0. f[sd][x] = e[sd][x]
      BY <1>6, <2>5
    <3>1. CASE n # Root(t) /\ x = p /\ sd = SideOf(t, n)
      <4>1. u.child[sd][x] = m /\ u.parent[m] = p
        BY <1>4, <1>5, <1>7, <2>0, <2>5, <3>1
      <4>2. n = t.child[sd][x]
        BY <1>4, <3>1, ParentIsAbove
      <4>3. e[sd][n] = e[sd][x] /\ e[Other(sd)][n] = q[x] + Dir(sd)
        BY <1>4, <1>7, <2>0, <4>2, Zenon DEF Arm
      <4>4. f[sd][m] = e[sd][n] /\ f[Other(sd)][m] = e[Other(sd)][n]
        BY <1>4, <1>6, OtherSide
      <4> QED
        BY <1>4, <1>8, <3>0, <3>1, <4>1, <4>3, <4>4 DEF Arm
    <3>2. CASE ~(n # Root(t) /\ x = p /\ sd = SideOf(t, n))
      <4>1. u.child[sd][x] = t.child[sd][x]
        BY <1>5, <2>0, <2>5, <3>2
      <4>2. CASE t.child[sd][x] = NULL
        BY <2>0, <3>0, <4>1, <4>2 DEF Arm
      <4>3. CASE t.child[sd][x] # NULL
        <5>1. PICK c : c = t.child[sd][x]
          OBVIOUS
        <5>2. c \in H /\ t.parent[c] = x /\ e[sd][c] = e[sd][x] /\ e[Other(sd)][c] = q[x] + Dir(sd)
          BY <2>0, <4>3, <5>1 DEF Arm
        <5>3. c # n
          <6>1. SUFFICES ASSUME c = n PROVE FALSE
            OBVIOUS
          <6>2. x = p /\ n # Root(t)
            <7>1. x = p
              BY <1>4, <5>2, <6>1
            <7>2. n = Root(t) => p = mAnchor
              BY <1>4, ParentIsAbove
            <7> QED
              BY <1>7, <7>1, <7>2
          <6>3. n = t.child[SideOf(t, n)][p] /\ SideOf(t, n) \in Sides
            BY <1>4, <6>2, ParentIsAbove
          <6>4. sd # SideOf(t, n)
            BY <3>2, <6>2
          <6>5. SideOf(t, n) = Other(sd)
            BY <6>3, <6>4 DEF Sides, Other
          <6> QED
            BY <4>3, <5>1, <6>1, <6>2, <6>3, <6>5, ChildrenDiffer
        <5>4. c # m /\ c # i
          BY <1>4, <1>7, <2>5, <5>2
        <5>5. f[sd][c] = e[sd][c] /\ f[Other(sd)][c] = e[Other(sd)][c]
          BY <1>6, <5>2, <5>3, <5>4, OtherSide
        <5>6. u.parent[c] = x
          BY <1>5, <1>7, <5>2, <5>3, <5>4
        <5> QED
          BY <3>0, <4>1, <4>3, <5>1, <5>2, <5>5, <5>6 DEF Arm
      <4> QED
        BY <4>2, <4>3
    <3> QED
      BY <3>1, <3>2
  <2> QED
    BY <1>3, <2>1, <2>2, <2>3, <2>4, <2>5
<1>17. Root(u) = IF n = Root(t) THEN m ELSE Root(t)
  <2>1. mAnchor # n /\ mAnchor # m /\ mAnchor # i
    BY <1>4, <1>7
  <2> QED
    BY <1>5, <1>7, <2>1 DEF Root
<1>18. m # Root(t) /\ i # Root(t)
  <2>1. t.parent[m] # mAnchor /\ (i # NULL => t.parent[i] # mAnchor)
    BY <1>4, <1>7
  <2>2. m # Root(t) /\ (i # NULL => i # Root(t))
    BY <1>4, <2>1, ParentIsAbove
  <2>3. Root(t) # NULL
    BY <1>4, <1>7 DEF Placed
  <2> QED
    BY <2>2, <2>3
<1>19. ASSUME NEW x \in H PROVE Hangs(u, H, f, L, x)
  <2>0. x \in Spots /\ Hangs(t, H, e, L, x)
    BY <1>7 DEF Placed
  <2>1. CASE x = m
    <3>1. u.parent[m] = p /\ f["left"][m] = e["left"][n] /\ f["right"][m] = e["right"][n]
      BY <1>4, <1>5, <1>6, <1>7, Zenon DEF Sides
    <3>2. CASE n = Root(t)
      <4>1. Hangs(t, H, e, L, n)
        BY <1>4 DEF Placed
      <4> QED
        BY <1>4, <1>17, <2>1, <3>1, <3>2, <4>1 DEF Hangs
    <3>3. CASE n # Root(t)
      <4>1. SideOf(t, n) \in Sides /\ p \in H
        BY <1>4, <3>3, ParentIsAbove, Zenon
      <4>2. m = u.child[SideOf(t, n)][p]
        BY <1>4, <1>5, <3>3, <4>1, Zenon
      <4> QED
        BY <1>17, <1>18, <2>1, <3>1, <3>3, <4>1, <4>2 DEF Hangs
    <3> QED
      BY <3>2, <3>3, Zenon
  <2>2. CASE x = n
    <3>1. u.parent[n] = m /\ n = u.child[s][m]
      BY <1>3, <1>4, <1>5, <1>7
    <3> QED
      BY <1>3, <1>4, <1>17, <2>2, <3>1, Zenon DEF Hangs
  <2>3. CASE x = i
    <3>1. u.parent[i] = n /\ i = u.child[o][n]
      BY <1>3, <1>4, <1>5, <1>7, <2>0, <2>3, Zenon
    <3> QED
      BY <1>3, <1>4, <1>17, <1>18, <2>3, <3>1, Zenon DEF Hangs
  <2>4. CASE x # m /\ x # n /\ x # i
    <3>1. u.parent[x] = t.parent[x] /\ f["left"][x] = e["left"][x] /\ f["right"][x] = e["right"][x]
      BY <1>5, <1>6, <1>7, <2>0, <2>4 DEF Sides
    <3>2. CASE x = Root(t)
      BY <1>17, <2>0, <2>4, <3>1, <3>2 DEF Hangs
    <3>3. CASE x # Root(t)
      <4>1. PICK sd \in Sides : x = t.child[sd][t.parent[x]]
        BY <2>0, <3>3 DEF Hangs
      <4>2. t.parent[x] \in H /\ t.parent[x] \in Spots
        BY <1>7, <2>0, <3>3, Zenon DEF Hangs
      <4>3. ~(n # Root(t) /\ t.parent[x] = p /\ sd = SideOf(t, n))
        BY <1>4, <2>4, <4>1, ParentIsAbove, SMTT(60)
      <4>4. u.child[sd][t.parent[x]] = x
        BY <1>4, <1>5, <2>4, <4>1, <4>2, <4>3
      <4> QED
        BY <1>17, <2>4, <3>1, <3>3, <4>2, <4>4 DEF Hangs
    <3> QED
      BY <3>2, <3>3
  <2> QED
    BY <2>1, <2>2, <2>3, <2>4
<1>20. H # {} /\ Root(u) \in H
  BY <1>4, <1>17 DEF Placed
<1> QED
  <2>1. L \in Nat /\ q \in [H -> 1..L]
    BY DEF Placed
  <2> QED
    BY <1>1, <1>5, <1>7, <1>14, <1>15, <1>16, <1>19, <1>20, <2>1 DEF Placed

\* What has to do with no node of H is in u as it is in t.
Kept(t, u, H) ==
  /\ u.mnSize = t.mnSize
  /\ \A z \in Spots \ H :
       /\ \A sd \in Sides : u.child[sd][z] = t.child[sd][z]
       /\ z \in u.red <=> z \in t.red
       /\ z # mAnchor => u.parent[z] = t.parent[z]

LEMMA KeptThrough ==
  ASSUME NEW t, NEW u, NEW v, NEW H, Kept(t, u, H), Kept(u, v, H)
  PROVE  Kept(t, v, H)
  BY DEF Kept

LEMMA ColouringKeeps ==
  ASSUME NEW t \in Trees, NEW H, NEW n \in Spots, n \in H
  PROVE  Kept(t, Black(t, n), H) /\ Kept(t, Red(t, n), H)
<1>1. /\ SameLinks(t, Black(t, n)) /\ SameLinks(t, Red(t, n))
      /\ Black(t, n).red = t.red \ {n} /\ Red(t, n).red = t.red \cup {n}
      /\ Black(t, n).mnSize = t.mnSize /\ Red(t, n).mnSize = t.mnSize
  BY Colours
<1> QED
  BY <1>1 DEF Kept, SameLinks

LEMMA RotationKeeps ==
  ASSUME NEW t, NEW H, H \subseteq Nodes, NEW n, NEW m, NEW i, NEW p, NEW s, AboutToRotate(t, H, n, m, i, p, s),
         NEW u, Rotated(t, u, n, m, i, p, s)
  PROVE  Kept(t, u, H)
<1>1. u.red = t.red /\ u.mnSize = t.mnSize
  BY DEF Rotated
<1>2. n \in H /\ m \in H /\ (n # Root(t) => p \in H) /\ (i # NULL => i \in H) /\ NULL \notin Spots
  BY SpotsAreNumbers DEF AboutToRotate
<1>3. ASSUME NEW z \in Spots \ H, NEW sd \in Sides PROVE u.child[sd][z] = t.child[sd][z]
  <2>1. z # n /\ z # m /\ (n # Root(t) => z # p)
    BY <1>2, <1>3
  <2> QED
    BY <2>1 DEF Rotated
<1>4. ASSUME NEW z \in Spots \ H, z # mAnchor PROVE u.parent[z] = t.parent[z]
  <2>1. z # n /\ z # m /\ z # i
    BY <1>2, <1>4
  <2> QED
    BY <1>4, <2>1 DEF Rotated
<1> QED
  BY <1>1, <1>3, <1>4 DEF Kept

\* All of this about u, which is t rotated.
Turned(t, u, H, q, e, L, n, m, i, p, s) ==
  /\ AboutToRotate(t, H, n, m, i, p, s) /\ Rotated(t, u, n, m, i, p, s)
  /\ Placed(u, H, q, TurnedEnds(H, q, e, n, m, s), L) /\ Kept(t, u, H)

LEMMA RotationTurns ==
  ASSUME NEW t, NEW H, NEW q, NEW e, NEW L, Placed(t, H, q, e, L),
         NEW n \in H, NEW s \in Sides, t.child[Other(s)][n] # NULL
  PROVE  Turned(t, Rotate(t, n, s), H, q, e, L, n, t.child[Other(s)][n],
                t.child[s][t.child[Other(s)][n]], t.parent[n], s)
<1>1. PICK m : m = t.child[Other(s)][n]
  OBVIOUS
<1>2. PICK i : i = t.child[s][m]
  OBVIOUS
<1>3. PICK p : p = t.parent[n]
  OBVIOUS
<1>4. PICK u : u = Rotate(t, n, s)
  OBVIOUS
<1>5. AboutToRotate(t, H, n, m, i, p, s)
  BY <1>1, <1>2, <1>3, RotationIsPossible
<1>6. Rotated(t, u, n, m, i, p, s)
  BY <1>4, <1>5, RotateIs DEF AboutToRotate
<1>7. Placed(u, H, q, TurnedEnds(H, q, e, n, m, s), L)
  BY <1>5, <1>6, RotationPlaces
<1>8. H \subseteq Nodes
  BY DEF Placed
<1>9. Kept(t, u, H)
  BY <1>5, <1>6, <1>8, RotationKeeps
<1> QED
  BY <1>1, <1>2, <1>3, <1>4, <1>5, <1>6, <1>7, <1>9, Zenon DEF Turned

-----------------------------------------------------------------------------
(* Colours and heights: b[x] is the number of black nodes on every way down   *)
(* from x.                                                                   *)

Weight(t, x) == IF x \in t.red THEN 0 ELSE 1

\* Below xp, on side sx, a black node is lacking.
Lack(xp, sx, y, sd) == IF y = xp /\ sd = sx THEN 1 ELSE 0

Heights(t, H, b, xp, sx) ==
  /\ b \in [H \cup {NULL} -> Nat] /\ b[NULL] = 0
  /\ \A y \in H, sd \in Sides : b[y] = b[t.child[sd][y]] + Weight(t, y) + Lack(xp, sx, y, sd)

\* The heights after a rotation that leaves n with the height h.
TurnedHeights(H, b, n, m, h) ==
  [z \in H \cup {NULL} |-> IF z = n THEN h ELSE IF z = m THEN b[n] ELSE b[z]]

\* All nodes but n and m have the height b.
OthersLevel(t, H, b, n, m, xp, sx) ==
  /\ b \in [H \cup {NULL} -> Nat] /\ b[NULL] = 0
  /\ \A y \in H, sd \in Sides : y # n /\ y # m =>
       b[y] = b[t.child[sd][y]] + Weight(t, y) + Lack(xp, sx, y, sd)

LEMMA RotationLevels ==
  ASSUME NEW t, NEW u, NEW H, NEW q, NEW e, NEW L, NEW n, NEW m, NEW i, NEW p, NEW s,
         Placed(t, H, q, e, L), Turned(t, u, H, q, e, L, n, m, i, p, s),
         NEW b, NEW xp, NEW sx, OthersLevel(t, H, b, n, m, xp, sx), NEW h \in Nat,
         h = b[i] + Weight(t, n) + Lack(xp, sx, n, Other(s)),
         h = b[t.child[s][n]] + Weight(t, n) + Lack(xp, sx, n, s),
         b[n] = h + Weight(t, m) + Lack(xp, sx, m, s),
         b[n] = b[t.child[Other(s)][m]] + Weight(t, m) + Lack(xp, sx, m, Other(s))
  PROVE  Heights(u, H, TurnedHeights(H, b, n, m, h), xp, sx)
<1>1. PICK f : f = TurnedHeights(H, b, n, m, h)
  OBVIOUS
<1>2. PICK o : o = Other(s)
  OBVIOUS
<1>3. /\ t \in Trees /\ n \in H /\ m \in H /\ i \in H \cup {NULL} /\ p \in Spots /\ s \in Sides
      /\ m = t.child[o][n] /\ i = t.child[s][m] /\ p = t.parent[n]
      /\ n # m /\ n # i /\ m # i /\ p # n /\ p # m /\ p # i
      /\ t.parent[m] = n /\ t.parent[n] = p /\ (n # Root(t) => p \in H)
  BY <1>2, Zenon DEF Turned, AboutToRotate
<1>4. o \in Sides /\ o # s /\ \A sd \in Sides : sd = s \/ sd = o
  BY <1>2, <1>3, OtherSide, Zenon DEF Sides, Other
<1>5. /\ u.red = t.red
      /\ \A sd \in Sides, z \in Spots :
           u.child[sd][z] = IF z = n /\ sd = o THEN i
                            ELSE IF z = m /\ sd = s THEN n
                            ELSE IF n # Root(t) /\ z = p /\ sd = SideOf(t, n) THEN m
                            ELSE t.child[sd][z]
  BY <1>2 DEF Turned, Rotated
<1>6. b \in [H \cup {NULL} -> Nat] /\ b[NULL] = 0
  BY DEF OthersLevel
<1>7. \A z \in H \cup {NULL} : f[z] = IF z = n THEN h ELSE IF z = m THEN b[n] ELSE b[z]
  BY <1>1 DEF TurnedHeights
<1>8. f \in [H \cup {NULL} -> Nat] /\ f[NULL] = 0
  <2>1. n # NULL /\ m # NULL
    BY <1>3, PlacesAreNumbers, SMTT(60)
  <2>2. b[n] \in Nat
    BY <1>3, <1>6, Zenon
  <2> QED
    BY <1>1, <1>6, <1>7, <2>1, <2>2 DEF TurnedHeights
<1>9. \A y \in H, sd \in Sides :
        y \in Spots /\ t.child[sd][y] \in H \cup {NULL} /\ (t.child[sd][y] # NULL => t.parent[t.child[sd][y]] = y)
  BY ChildIsBelow, PlacesAreNumbers
<1>12. n # NULL /\ m # NULL
  BY <1>3, PlacesAreNumbers
<1>10. Weight(u, n) = Weight(t, n) /\ Weight(u, m) = Weight(t, m) /\ \A y : Weight(u, y) = Weight(t, y)
  BY <1>5 DEF Weight
<1>11. ASSUME NEW y \in H, NEW sd \in Sides
       PROVE  f[y] = f[u.child[sd][y]] + Weight(u, y) + Lack(xp, sx, y, sd)
  <2>1. CASE y = n /\ sd = o
    <3>1. u.child[sd][y] = i /\ f[i] = b[i] /\ f[y] = h
      BY <1>3, <1>5, <1>7, <1>9, <2>1, Zenon
    <3> QED
      BY <1>2, <1>10, <2>1, <3>1, Zenon
  <2>2. CASE y = n /\ sd = s
    <3>1. u.child[sd][y] = t.child[s][n] /\ f[y] = h
      BY <1>3, <1>4, <1>5, <1>7, <1>9, <2>2, Zenon
    <3>2. t.child[s][n] \in H \cup {NULL} /\ t.child[s][n] # n
      BY <1>3, <1>9, <1>12
    <3>3. t.child[s][n] # m
      <4>1. t.child[o][n] # NULL
        BY <1>3, PlacesAreNumbers
      <4> QED
        BY <1>2, <1>3, <1>4, <4>1, ChildrenDiffer
    <3>4. f[t.child[s][n]] = b[t.child[s][n]]
      BY <1>7, <3>2, <3>3
    <3> QED
      BY <1>10, <2>2, <3>1, <3>4, Zenon
  <2>3. CASE y = m /\ sd = s
    <3>1. u.child[sd][y] = n /\ f[y] = b[n] /\ f[n] = h
      BY <1>3, <1>4, <1>5, <1>7, <1>9, <2>3, Zenon
    <3> QED
      BY <1>10, <2>3, <3>1, Zenon
  <2>4. CASE y = m /\ sd = o
    <3>1. u.child[sd][y] = t.child[o][m] /\ f[y] = b[n]
      BY <1>3, <1>4, <1>5, <1>7, <1>9, <2>4, Zenon
    <3>2. t.child[o][m] \in H \cup {NULL} /\ t.child[o][m] # m /\ t.child[o][m] # n
      BY <1>3, <1>4, <1>9, <1>12
    <3>3. f[t.child[o][m]] = b[t.child[o][m]]
      BY <1>7, <3>2
    <3> QED
      BY <1>2, <1>10, <2>4, <3>1, <3>3, Zenon
  <2>5. CASE y # n /\ y # m
    <3>1. f[y] = b[y] /\ b[y] = b[t.child[sd][y]] + Weight(t, y) + Lack(xp, sx, y, sd)
      BY <1>7, <2>5 DEF OthersLevel
    <3>2. f[u.child[sd][y]] = b[t.child[sd][y]]
      <4>1. CASE n # Root(t) /\ y = p /\ sd = SideOf(t, n)
        <5>1. u.child[sd][y] = m /\ f[m] = b[n]
          BY <1>3, <1>5, <1>7, <1>9, <2>5, <4>1, Zenon
        <5>2. t.child[sd][y] = n
          BY <1>3, <4>1, ParentIsAbove
        <5> QED
          BY <5>1, <5>2, Zenon
      <4>2. CASE ~(n # Root(t) /\ y = p /\ sd = SideOf(t, n))
        <5>1. u.child[sd][y] = t.child[sd][y]
          BY <1>5, <1>9, <2>5, <4>2
        <5>2. t.child[sd][y] # m
          BY <1>3, <1>9, <1>12, <2>5
        <5>3. t.child[sd][y] # n
          <6>1. SUFFICES ASSUME t.child[sd][y] = n PROVE FALSE
            OBVIOUS
          <6>2. n # NULL /\ y = p /\ y # mAnchor
            BY <1>3, <1>9, <6>1, PlacesAreNumbers
          <6>3. n # Root(t)
            BY <1>3, <6>2, ParentIsAbove
          <6>4. n = t.child[SideOf(t, n)][p] /\ SideOf(t, n) \in Sides /\ sd # SideOf(t, n)
            BY <1>3, <4>2, <6>2, <6>3, ParentIsAbove
          <6>5. SideOf(t, n) = Other(sd)
            BY <6>4 DEF Sides, Other
          <6> QED
            BY <6>1, <6>2, <6>4, <6>5, ChildrenDiffer
        <5> QED
          BY <1>7, <1>9, <5>1, <5>2, <5>3
      <4> QED
        BY <4>1, <4>2
    <3> QED
      BY <1>10, <3>1, <3>2
  <2> QED
    BY <1>4, <2>1, <2>2, <2>3, <2>4, <2>5
<1> QED
  BY <1>1, <1>8, <1>11 DEF Heights

\* The children after a rotation.
LEMMA TurnedChildren ==
  ASSUME NEW t, NEW u, NEW H, NEW q, NEW e, NEW L, NEW n, NEW m, NEW i, NEW p, NEW s,
         Placed(t, H, q, e, L), Turned(t, u, H, q, e, L, n, m, i, p, s),
         NEW y \in H, NEW sd \in Sides
  PROVE  /\ y = n /\ sd = s => u.child[sd][y] = t.child[s][n]
         /\ y = n /\ sd # s => u.child[sd][y] = i
         /\ y = m /\ sd = s => u.child[sd][y] = n
         /\ y = m /\ sd # s => u.child[sd][y] = t.child[Other(s)][m]
         /\ y # n /\ y # m => u.child[sd][y] = IF t.child[sd][y] = n THEN m ELSE t.child[sd][y]
         /\ t.child[sd][y] = n => n # Root(t) /\ y = p
<1>2. PICK o : o = Other(s)
  OBVIOUS
<1>3. /\ t \in Trees /\ n \in H /\ m \in H /\ i \in H \cup {NULL} /\ p \in Spots /\ s \in Sides
      /\ m = t.child[o][n] /\ i = t.child[s][m] /\ p = t.parent[n]
      /\ n # m /\ n # i /\ m # i /\ p # n /\ p # m /\ p # i
      /\ t.parent[m] = n /\ t.parent[n] = p /\ (n # Root(t) => p \in H)
  BY <1>2 DEF Turned, AboutToRotate
<1>4. o \in Sides /\ o # s /\ (sd = s \/ sd = o)
  BY <1>2, <1>3, OtherSide DEF Sides, Other
<1>5. \A z \in Spots :
        u.child[sd][z] = IF z = n /\ sd = o THEN i
                         ELSE IF z = m /\ sd = s THEN n
                         ELSE IF n # Root(t) /\ z = p /\ sd = SideOf(t, n) THEN m
                         ELSE t.child[sd][z]
  BY <1>2 DEF Turned, Rotated
<1>6. y \in Spots /\ y # mAnchor /\ n # NULL /\ (t.child[sd][y] # NULL => t.parent[t.child[sd][y]] = y)
  BY <1>3, ChildIsBelow, PlacesAreNumbers
<1>7. t.child[sd][y] = n => n # Root(t) /\ y = p
  BY <1>3, <1>6, ParentIsAbove
<1>8. n # Root(t) => SideOf(t, n) \in Sides /\ n = t.child[SideOf(t, n)][p]
  BY <1>3, ParentIsAbove
<1>9. t.child[sd][y] = n => sd = SideOf(t, n)
  <2>1. SUFFICES ASSUME t.child[sd][y] = n, sd # SideOf(t, n) PROVE FALSE
    OBVIOUS
  <2>2. SideOf(t, n) = Other(sd) /\ n = t.child[SideOf(t, n)][y]
    BY <1>7, <1>8, <2>1 DEF Sides, Other
  <2> QED
    BY <1>6, <2>1, <2>2, ChildrenDiffer
<1>10. y # n /\ y # m => u.child[sd][y] = IF t.child[sd][y] = n THEN m ELSE t.child[sd][y]
  BY <1>5, <1>6, <1>7, <1>8, <1>9
<1> QED
  BY <1>2, <1>3, <1>4, <1>5, <1>6, <1>7, <1>10

\* If two nodes above each other are red, one of them is x.
Fine(t, y, c, x) == y \in t.red /\ c \in t.red => y = x \/ c = x

NoRedRed(t, H, x) == \A y \in H, sd \in Sides : Fine(t, y, t.child[sd][y], x)

LEMMA RotationColours ==
  ASSUME NEW t, NEW u, NEW H, NEW q, NEW e, NEW L, NEW n, NEW m, NEW i, NEW p, NEW s,
         Placed(t, H, q, e, L), Turned(t, u, H, q, e, L, n, m, i, p, s), NEW x,
         \A y \in H, sd \in Sides : y # n /\ y # m /\ t.child[sd][y] # n => Fine(t, y, t.child[sd][y], x),
         n # Root(t) => Fine(t, p, m, x),
         Fine(t, n, i, x), Fine(t, n, t.child[s][n], x),
         Fine(t, m, n, x), Fine(t, m, t.child[Other(s)][m], x)
  PROVE  NoRedRed(u, H, x)
<1>1. SUFFICES ASSUME NEW y \in H, NEW sd \in Sides PROVE Fine(u, y, u.child[sd][y], x)
  BY DEF NoRedRed
<1>2. /\ y = n /\ sd = s => u.child[sd][y] = t.child[s][n]
      /\ y = n /\ sd # s => u.child[sd][y] = i
      /\ y = m /\ sd = s => u.child[sd][y] = n
      /\ y = m /\ sd # s => u.child[sd][y] = t.child[Other(s)][m]
      /\ y # n /\ y # m => u.child[sd][y] = IF t.child[sd][y] = n THEN m ELSE t.child[sd][y]
      /\ t.child[sd][y] = n => n # Root(t) /\ y = p
  BY TurnedChildren
<1>3. u.red = t.red
  BY DEF Turned, Rotated
<1>4. Fine(t, y, u.child[sd][y], x)
  BY <1>2
<1> QED
  BY <1>3, <1>4 DEF Fine

-----------------------------------------------------------------------------
(* RBTreeInsert's loop.                                                      *)

\* Before a round, of t0 and everything else: n is the only red node that may
\* have a red parent.
Growing(t0, t, H, q, e, b, L, n) ==
  /\ Placed(t, H, q, e, L) /\ Heights(t, H, b, mAnchor, "left") /\ Kept(t0, t, H)
  /\ n \in H /\ n \in t.red /\ (Root(t) \in t.red => n = Root(t))
  /\ \A y \in H, sd \in Sides : y \in t.red /\ t.child[sd][y] \in t.red => t.child[sd][y] = n

\* A red node n with a red parent p, and g above them.
RedPair(t, H, b, n, p, g, s) ==
  /\ n # Root(t) /\ p = t.parent[n] /\ p \in t.red /\ p \in H /\ p # Root(t)
  /\ g = t.parent[p] /\ g \in H /\ g \notin t.red
  /\ s \in Sides /\ p = t.child[s][g]
  /\ n # p /\ n # g /\ p # g

LEMMA NothingLacks ==
  ASSUME NEW t, NEW H, NEW b, Heights(t, H, b, mAnchor, "left"), H \subseteq Nodes,
         NEW y \in H, NEW sd \in Sides
  PROVE  /\ t.child[sd][y] \in H \cup {NULL} => b[y] = b[t.child[sd][y]] + Weight(t, y)
         /\ Lack(mAnchor, "left", y, sd) = 0
         /\ t.child[sd][y] \in H \cup {NULL} => b[t.child[sd][y]] \in Nat
         /\ b[y] \in Nat
<1>1. y # mAnchor
  BY SpotsAreNumbers
<1>2. Lack(mAnchor, "left", y, sd) = 0
  BY <1>1 DEF Lack
<1>3. b \in [H \cup {NULL} -> Nat] /\ b[y] = b[t.child[sd][y]] + Weight(t, y) + Lack(mAnchor, "left", y, sd)
  BY DEF Heights
<1>4. Weight(t, y) \in Nat
  BY DEF Weight
<1>5. b[y] \in Nat /\ (t.child[sd][y] \in H \cup {NULL} => b[t.child[sd][y]] \in Nat)
  BY <1>3
<1> QED
  BY <1>2, <1>3, <1>4, <1>5

LEMMA RedPairSetting ==
  ASSUME NEW t0, NEW t, NEW H, NEW q, NEW e, NEW b, NEW L, NEW n, Growing(t0, t, H, q, e, b, L, n),
         n # Root(t), t.parent[n] \in t.red
  PROVE  RedPair(t, H, b, n, t.parent[n], t.parent[t.parent[n]], SideOf(t, t.parent[n]))
<1>1. PICK p : p = t.parent[n]
  OBVIOUS
<1>2. PICK g : g = t.parent[p]
  OBVIOUS
<1>3. PICK s : s = SideOf(t, p)
  OBVIOUS
<1>4. Placed(t, H, q, e, L) /\ n \in H /\ n \in t.red /\ (Root(t) \in t.red => n = Root(t))
      /\ \A y \in H, sd \in Sides : y \in t.red /\ t.child[sd][y] \in t.red => t.child[sd][y] = n
  BY DEF Growing
<1>5. p \in H /\ \E sd \in Sides : n = t.child[sd][p] /\ Below(q, e, p, n, sd)
  BY <1>1, <1>4, ParentIsAbove
<1>6. p # Root(t)
  BY <1>1, <1>4
<1>7. g \in H /\ s \in Sides /\ p = t.child[s][g] /\ Below(q, e, g, p, s)
  BY <1>2, <1>3, <1>4, <1>5, <1>6, ParentIsAbove
<1>8. /\ q[p] \in Int /\ e["left"][p] \in Int /\ e["right"][p] \in Int
      /\ e["left"][p] <= q[p] /\ q[p] <= e["right"][p]
  BY <1>4, <1>5, PlacesAreNumbers
<1>9. /\ q[n] \in Int /\ e["left"][n] \in Int /\ e["right"][n] \in Int
      /\ e["left"][n] <= q[n] /\ q[n] <= e["right"][n]
  BY <1>4, PlacesAreNumbers
<1>10. q[g] \in Int
  BY <1>4, <1>7, PlacesAreNumbers
<1>11. n # p
  BY <1>5, <1>8, <1>9 DEF Below
<1>12. p # g
  BY <1>7, <1>8, <1>10 DEF Below
<1>13. n # g
  <2>1. PICK sd \in Sides : Below(q, e, p, n, sd)
    BY <1>5
  <2>2. e["left"][p] <= q[n] /\ q[n] <= e["right"][p]
    BY <1>8, <1>9, <2>1 DEF Below
  <2> QED
    BY <1>7, <1>8, <1>10, <2>2 DEF Below
<1>14. g \notin t.red
  BY <1>1, <1>4, <1>7, <1>11
<1> QED
  BY <1>1, <1>2, <1>3, <1>5, <1>6, <1>7, <1>11, <1>12, <1>13, <1>14, Zenon DEF RedPair

\* The number of nodes below x.
Size(e, x) == e["right"][x] - e["left"][x]

LEMMA ParentIsLarger ==
  ASSUME NEW t, NEW H, NEW q, NEW e, NEW L, Placed(t, H, q, e, L), NEW x \in H, x # Root(t)
  PROVE  Size(e, t.parent[x]) >= Size(e, x) + 1 /\ Size(e, x) \in Nat /\ Size(e, t.parent[x]) < L
<1>1. t.parent[x] \in H /\ \E sd \in Sides : Below(q, e, t.parent[x], x, sd)
  BY ParentIsAbove
<1>2. PICK p : p = t.parent[x]
  OBVIOUS
<1>3. /\ q[p] \in 1..L /\ e["left"][p] \in 1..L /\ e["right"][p] \in 1..L
      /\ e["left"][p] <= q[p] /\ q[p] <= e["right"][p] /\ L \in Nat
  BY <1>1, <1>2, PlacesAreNumbers
<1>4. /\ q[x] \in 1..L /\ e["left"][x] \in 1..L /\ e["right"][x] \in 1..L
      /\ e["left"][x] <= q[x] /\ q[x] <= e["right"][x]
  BY PlacesAreNumbers
<1>5. Size(e, p) >= Size(e, x) + 1 /\ Size(e, x) \in Nat /\ Size(e, p) < L
  BY <1>1, <1>2, <1>3, <1>4 DEF Below, Size
<1> QED
  BY <1>2, <1>5

\* The uncle is red as well: the two become black, and g red.
LEMMA RecolouredGrows ==
  ASSUME NEW t0, NEW t, NEW H, NEW q, NEW e, NEW b, NEW L, NEW n, Growing(t0, t, H, q, e, b, L, n),
         NEW p, NEW g, NEW s, RedPair(t, H, b, n, p, g, s), t.child[Other(s)][g] \in t.red
  PROVE  \E f : Growing(t0, Red(Black(Black(t, p), t.child[Other(s)][g]), g), H, q, e, f, L, g)
<1>1. PICK a : a = t.child[Other(s)][g]
  OBVIOUS
<1>2. PICK o : o = Other(s)
  OBVIOUS
<1>3. PICK u : u = Red(Black(Black(t, p), a), g)
  OBVIOUS
<1>4. Placed(t, H, q, e, L) /\ n \in H /\ n \in t.red /\ (Root(t) \in t.red => n = Root(t))
      /\ Heights(t, H, b, mAnchor, "left") /\ Kept(t0, t, H)
      /\ \A y \in H, sd \in Sides : y \in t.red /\ t.child[sd][y] \in t.red => t.child[sd][y] = n
  BY Zenon DEF Growing
<1>5. /\ n # Root(t) /\ p = t.parent[n] /\ p \in t.red /\ p \in H /\ p # Root(t)
      /\ g = t.parent[p] /\ g \in H /\ g \notin t.red
      /\ s \in Sides /\ p = t.child[s][g] /\ n # p /\ n # g /\ p # g
  BY Zenon DEF RedPair
<1>6. o \in Sides /\ o # s /\ \A sd \in Sides : sd = s \/ sd = o
  BY <1>2, <1>5, OtherSide, Zenon DEF Sides, Other
<1>7. t \in Trees /\ H \subseteq Nodes /\ H \subseteq Spots /\ NULL \notin H /\ NULL \notin Spots /\ mAnchor \notin H
      /\ NULL \notin t.red
  BY <1>4, SpotsAreNumbers DEF Placed, Spots, Trees
<1>8. a \in H /\ t.parent[a] = g /\ a \in t.red /\ a # g /\ a = t.child[o][g] /\ t.child[o][g] # NULL
  <2>1. a \in t.red /\ a = t.child[o][g] /\ t.child[o][g] # NULL
    BY <1>1, <1>2, <1>7, Zenon
  <2>2. Placed(t, H, q, e, L) /\ g \in H /\ o \in Sides
    BY <1>4, <1>5, <1>6, Zenon
  <2>3. t.child[o][g] \in H /\ t.parent[t.child[o][g]] = g /\ t.child[o][g] # g
    BY ONLY <2>1, <2>2, ChildIsBelow
  <2> QED
    BY <2>1, <2>3
<1>9. a # p /\ a # g
  <2>1. Placed(t, H, q, e, L) /\ g \in H /\ o \in Sides /\ s = Other(o) /\ p = t.child[s][g]
    BY <1>2, <1>4, <1>5, <1>6, OtherSide, Zenon
  <2>2. t.child[o][g] # t.child[Other(o)][g]
    BY ONLY <1>8, <2>1, ChildrenDiffer
  <2> QED
    BY <1>8, <2>1, <2>2, Zenon
<1>10. SameLinks(t, u) /\ u.red = ((t.red \ {p}) \ {a}) \cup {g} /\ Kept(t, u, H)
  <2>1. PICK t1 : t1 = Black(t, p)
    BY Zenon
  <2>2. SameLinks(t, t1) /\ t1.red = t.red \ {p} /\ Kept(t, t1, H)
    BY <1>5, <1>7, <2>1, Colours, ColouringKeeps, Zenon
  <2>3. PICK t2 : t2 = Black(t1, a)
    OBVIOUS
  <2>4. SameLinks(t1, t2) /\ t2.red = t1.red \ {a} /\ Kept(t1, t2, H)
    BY <1>7, <1>8, <2>2, <2>3, Colours, ColouringKeeps, Zenon DEF SameLinks
  <2>5. u = Red(t2, g)
    BY <1>3, <2>1, <2>3
  <2>6. SameLinks(t2, u) /\ u.red = t2.red \cup {g} /\ Kept(t2, u, H)
    <3>1. t2 \in Trees /\ g \in Spots
      BY <1>5, <1>7, <2>4, Zenon DEF SameLinks
    <3> QED
      BY <1>5, <2>5, <3>1, Colours, ColouringKeeps, Zenon
  <2>7. Kept(t, u, H)
    BY <2>2, <2>4, <2>6, KeptThrough
  <2> QED
    BY <2>2, <2>4, <2>6, <2>7 DEF SameLinks
<1>11. Placed(u, H, q, e, L) /\ Kept(t0, u, H)
  BY <1>4, <1>10, PlacedBySameLinks, KeptThrough
<1>12. PICK f : f = [z \in H \cup {NULL} |-> IF z = p \/ z = a THEN b[z] + 1 ELSE b[z]]
  OBVIOUS
<1>13. b \in [H \cup {NULL} -> Nat] /\ b[NULL] = 0
  BY <1>4 DEF Heights
<1>14. \A y \in H, sd \in Sides : t.child[sd][y] # NULL => t.child[sd][y] \in H /\ t.parent[t.child[sd][y]] = y
  BY <1>4, ChildIsBelow
<1>15. ASSUME NEW y \in H, NEW sd \in Sides
       PROVE  f[y] = f[u.child[sd][y]] + Weight(u, y) + Lack(mAnchor, "left", y, sd)
  <2>1. PICK c : c = t.child[sd][y]
    OBVIOUS
  <2>2. u.child[sd][y] = c /\ c \in H \cup {NULL} /\ (c # NULL => t.parent[c] = y)
    BY <1>10, <1>14, <2>1 DEF SameLinks
  <2>3. b[y] = b[c] + Weight(t, y) /\ Lack(mAnchor, "left", y, sd) = 0 /\ b[c] \in Nat /\ b[y] \in Nat
    BY <1>4, <1>7, <2>1, <2>2, NothingLacks
  <2>4. f[y] = (IF y = p \/ y = a THEN b[y] + 1 ELSE b[y]) /\ f[c] = (IF c = p \/ c = a THEN b[c] + 1 ELSE b[c])
    BY <1>12, <2>2
  <2>5. CASE y = g
    <3>1. c = p \/ c = a
      BY <1>1, <1>2, <1>5, <1>6, <2>1, <2>5, Zenon
    <3>2. Weight(u, y) = 0 /\ Weight(t, y) = 1 /\ y # p /\ y # a
      BY <1>5, <1>9, <1>10, <2>5, Zenon DEF Weight
    <3> QED
      BY <2>2, <2>3, <2>4, <3>1, <3>2, SMTT(60)
  <2>6. CASE y # g
    <3>1. c # p /\ c # a
      BY <1>5, <1>7, <1>8, <2>2, <2>6, Zenon
    <3>2. Weight(u, y) = IF y = p \/ y = a THEN Weight(t, y) + 1 ELSE Weight(t, y)
      <4>1. y \in u.red <=> y \in t.red /\ y # p /\ y # a
        BY <1>10, <2>6, Zenon
      <4>2. p \in t.red /\ a \in t.red
        BY <1>5, <1>8, Zenon
      <4> QED
        BY <4>1, <4>2 DEF Weight
    <3> QED
      BY <2>2, <2>3, <2>4, <3>1, <3>2, SMTT(60) DEF Weight
  <2> QED
    BY <2>5, <2>6
<1>16. Heights(u, H, f, mAnchor, "left")
  <2>1. f \in [H \cup {NULL} -> Nat]
    BY <1>12, <1>13, SMTT(60)
  <2>2. f[NULL] = 0
    BY <1>5, <1>7, <1>8, <1>12, <1>13, Zenon
  <2> QED
    BY <1>15, <2>1, <2>2 DEF Heights
<1>17. ASSUME NEW y \in H, NEW sd \in Sides, y \in u.red, u.child[sd][y] \in u.red PROVE u.child[sd][y] = g
  <2>1. PICK c : c = t.child[sd][y]
    OBVIOUS
  <2>2. u.child[sd][y] = c
    BY <1>10, <2>1, Zenon DEF SameLinks
  <2>3. CASE y = g
    <3>1. c = p \/ c = a
      BY <1>1, <1>2, <1>5, <1>6, <2>1, <2>3, Zenon
    <3> QED
      BY <1>5, <1>9, <1>10, <1>17, <2>2, <3>1, Zenon
  <2>4. CASE y # g /\ c # g
    <3>1. y \in t.red /\ c \in t.red /\ y # p
      BY <1>10, <1>17, <2>2, <2>4
    <3>2. c = n /\ c # NULL
      BY <1>4, <1>7, <2>1, <3>1
    <3>3. t.parent[c] = y
      BY <1>14, <2>1, <3>2, Zenon
    <3> QED
      BY <1>5, <3>1, <3>2, <3>3, Zenon
  <2> QED
    BY <2>2, <2>3, <2>4
<1>18. Root(u) \in u.red => g = Root(u)
  <2>1. Root(u) = Root(t)
    BY <1>10 DEF SameLinks, Root
  <2> QED
    BY <1>4, <1>5, <1>10, <2>1, Zenon
<1>19. Growing(t0, u, H, q, e, f, L, g)
  BY <1>5, <1>10, <1>11, <1>16, <1>17, <1>18, Zenon DEF Growing
<1> QED
  BY <1>1, <1>3, <1>19

LEMMA ChildIsHeld ==
  ASSUME NEW t, NEW H, NEW q, NEW e, NEW L, Placed(t, H, q, e, L), NEW x \in H, NEW sd \in Sides
  PROVE  /\ t.child[sd][x] \in H \cup {NULL} /\ t.child[sd][x] # x
         /\ t.child[sd][x] # NULL => t.parent[t.child[sd][x]] = x
<1>1. x # NULL
  BY PlacesAreNumbers
<1> QED
  BY <1>1, ChildIsBelow

\* After the rounds, of t0 and everything else: no red node has a red child.
Grown(t0, t, H, q, L) ==
  \E e, b : /\ Placed(t, H, q, e, L) /\ Heights(t, H, b, mAnchor, "left") /\ Kept(t0, t, H)
            /\ NoRedRed(t, H, NULL)

\* A round leaves r as it is.
Settled(r) == r.node = Root(r.tree) \/ r.tree.parent[r.node] \notin r.tree.red

\* The uncle is black, and n, p and g are in a line.
Straight(t, H, b, n, p, g, s) ==
  RedPair(t, H, b, n, p, g, s) /\ n = t.child[s][p] /\ t.child[Other(s)][g] \notin t.red

LEMMA StraightIsGrown ==
  ASSUME NEW t0, NEW t, NEW H, NEW q, NEW e, NEW b, NEW L, NEW n, Growing(t0, t, H, q, e, b, L, n),
         NEW p, NEW g, NEW s, Straight(t, H, b, n, p, g, s)
  PROVE  /\ Grown(t0, Rotate(Red(Black(t, p), g), g, Other(s)), H, q, L)
         /\ Settled([tree |-> Rotate(Red(Black(t, p), g), g, Other(s)), node |-> n])
<1>1. PICK o : o = Other(s)
  OBVIOUS
<1>2. PICK t1 : t1 = Red(Black(t, p), g)
  OBVIOUS
<1>3. PICK u : u = Rotate(t1, g, o)
  OBVIOUS
<1>4. Placed(t, H, q, e, L) /\ n \in H /\ n \in t.red
      /\ Heights(t, H, b, mAnchor, "left") /\ Kept(t0, t, H)
      /\ \A y \in H, sd \in Sides : y \in t.red /\ t.child[sd][y] \in t.red => t.child[sd][y] = n
  BY DEF Growing
<1>5. /\ n # Root(t) /\ p = t.parent[n] /\ p \in t.red /\ p \in H /\ p # Root(t)
      /\ g = t.parent[p] /\ g \in H /\ g \notin t.red
      /\ s \in Sides /\ p = t.child[s][g] /\ n # p /\ n # g /\ p # g
      /\ n = t.child[s][p] /\ t.child[o][g] \notin t.red
  BY <1>1, Zenon DEF RedPair, Straight
<1>6. o \in Sides /\ o # s /\ s = Other(o) /\ \A sd \in Sides : sd = s \/ sd = o
  BY <1>1, <1>5, OtherSide, Zenon DEF Sides, Other
<1>7. t \in Trees /\ H \subseteq Nodes /\ H \subseteq Spots /\ NULL \notin H /\ NULL \notin Spots /\ mAnchor \notin H
      /\ NULL \notin t.red
  BY <1>4, SpotsAreNumbers DEF Placed, Spots, Trees
<1>8. SameLinks(t, t1) /\ t1.red = (t.red \ {p}) \cup {g} /\ Kept(t, t1, H)
  <2>1. PICK t2 : t2 = Black(t, p)
    OBVIOUS
  <2>2. SameLinks(t, t2) /\ t2.red = t.red \ {p} /\ Kept(t, t2, H)
    BY <1>5, <1>7, <2>1, Colours, ColouringKeeps, Zenon
  <2>3. t1 = Red(t2, g)
    BY <1>2, <2>1
  <2>4. SameLinks(t2, t1) /\ t1.red = t2.red \cup {g} /\ Kept(t2, t1, H)
    <3>1. t2 \in Trees /\ g \in Spots
      BY <1>5, <1>7, <2>2, Zenon DEF SameLinks
    <3> QED
      BY <1>5, <2>3, <3>1, Colours, ColouringKeeps, Zenon
  <2>5. Kept(t, t1, H)
    BY <2>2, <2>4, KeptThrough
  <2> QED
    BY <2>2, <2>4, <2>5 DEF SameLinks
<1>9. Placed(t1, H, q, e, L) /\ Kept(t0, t1, H)
  BY <1>4, <1>8, PlacedBySameLinks, KeptThrough
<1>10. t1.child = t.child /\ t1.parent = t.parent
  BY <1>8, Zenon DEF SameLinks
<1>11. p # NULL
  BY <1>5, <1>7, Zenon
<1>12. PICK i : i = t.child[o][p]
  OBVIOUS
<1>13. Turned(t1, u, H, q, e, L, g, p, i, t.parent[g], o)
  <2>1. Turned(t1, Rotate(t1, g, o), H, q, e, L, g, t1.child[Other(o)][g],
                t1.child[o][t1.child[Other(o)][g]], t1.parent[g], o)
    BY <1>5, <1>6, <1>9, <1>10, <1>11, RotationTurns, Zenon
  <2> QED
    BY <1>3, <1>5, <1>6, <1>10, <1>12, <2>1, Zenon
<1>14. \A y \in H, sd \in Sides : t.child[sd][y] \in H \cup {NULL} /\ (t.child[sd][y] # NULL => t.parent[t.child[sd][y]] = y)
  BY <1>4, ChildIsBelow
<1>15. i \in H \cup {NULL} /\ t.child[o][g] \in H \cup {NULL}
  BY <1>5, <1>6, <1>12, <1>14, Zenon
<1>16. i # n
  <2>1. Placed(t, H, q, e, L) /\ p \in H /\ s \in Sides /\ t.child[s][p] # NULL
    BY <1>4, <1>5, <1>7, Zenon
  <2>2. t.child[s][p] # t.child[Other(s)][p]
    BY ONLY <2>1, ChildrenDiffer
  <2> QED
    BY <1>1, <1>5, <1>12, <2>2, Zenon
<1>17. b \in [H \cup {NULL} -> Nat] /\ b[NULL] = 0 /\ b[p] \in Nat
  BY <1>4, <1>5, Zenon DEF Heights
<1>18. /\ b[p] = b[i] + Weight(t, p) /\ b[p] = b[n] + Weight(t, p)
       /\ b[g] = b[p] + Weight(t, g) /\ b[g] = b[t.child[o][g]] + Weight(t, g)
       /\ b[i] \in Nat /\ b[n] \in Nat /\ b[g] \in Nat /\ b[t.child[o][g]] \in Nat
  <2>1. Heights(t, H, b, mAnchor, "left") /\ H \subseteq Nodes /\ p \in H /\ g \in H /\ s \in Sides /\ o \in Sides
    BY <1>4, <1>5, <1>6, <1>7, Zenon
  <2>2. /\ t.child[o][p] \in H \cup {NULL} /\ t.child[s][p] \in H \cup {NULL}
        /\ t.child[o][g] \in H \cup {NULL} /\ t.child[s][g] \in H \cup {NULL}
    BY <2>1, <1>14
  <2>3. /\ b[p] = b[t.child[o][p]] + Weight(t, p) /\ b[t.child[o][p]] \in Nat
        /\ b[p] = b[t.child[s][p]] + Weight(t, p) /\ b[t.child[s][p]] \in Nat
    BY ONLY <2>1, <2>2, NothingLacks
  <2>4. /\ b[g] = b[t.child[o][g]] + Weight(t, g) /\ b[t.child[o][g]] \in Nat
        /\ b[g] = b[t.child[s][g]] + Weight(t, g) /\ b[g] \in Nat
    BY ONLY <2>1, <2>2, NothingLacks, SMTT(60)
  <2> QED
    BY <1>5, <1>12, <2>3, <2>4, Zenon
<1>19. Weight(t, p) = 0 /\ Weight(t, g) = 1 /\ Weight(t1, p) = 1 /\ Weight(t1, g) = 0
  BY <1>5, <1>8, Zenon DEF Weight
<1>20. \A y \in H, sd \in Sides : Lack(mAnchor, "left", y, sd) = 0
  BY <1>7 DEF Lack
<1>21. OthersLevel(t1, H, b, g, p, mAnchor, "left")
  <2>1. ASSUME NEW y \in H, NEW sd \in Sides, y # g, y # p
        PROVE  b[y] = b[t1.child[sd][y]] + Weight(t1, y) + Lack(mAnchor, "left", y, sd)
    <3>1. Weight(t1, y) = Weight(t, y)
      BY <1>8, <2>1 DEF Weight
    <3> QED
      BY <1>4, <1>10, <3>1 DEF Heights
  <2> QED
    BY <1>17, <2>1 DEF OthersLevel
<1>22. Heights(u, H, TurnedHeights(H, b, g, p, b[p]), mAnchor, "left")
  <2>1. /\ b[p] = b[i] + Weight(t1, g) + Lack(mAnchor, "left", g, Other(o))
        /\ b[p] = b[t1.child[o][g]] + Weight(t1, g) + Lack(mAnchor, "left", g, o)
        /\ b[g] = b[p] + Weight(t1, p) + Lack(mAnchor, "left", p, o)
        /\ b[g] = b[t1.child[Other(o)][p]] + Weight(t1, p) + Lack(mAnchor, "left", p, Other(o))
    <3>1. /\ Lack(mAnchor, "left", g, s) = 0 /\ Lack(mAnchor, "left", g, o) = 0
          /\ Lack(mAnchor, "left", p, s) = 0 /\ Lack(mAnchor, "left", p, o) = 0
          /\ Other(o) = s /\ t1.child[o][g] = t.child[o][g] /\ t1.child[s][p] = n
      BY <1>5, <1>6, <1>10, <1>20, Zenon
    <3> QED
      BY <1>17, <1>18, <1>19, <3>1, SMTT(60)
  <2> QED
    BY <1>9, <1>13, <1>17, <1>21, <2>1, RotationLevels
<1>23. NoRedRed(u, H, NULL)
  <2>1. ASSUME NEW y \in H, NEW sd \in Sides, y # g, y # p, t1.child[sd][y] # g
        PROVE  Fine(t1, y, t1.child[sd][y], NULL)
    <3>1. SUFFICES ASSUME y \in t1.red, t1.child[sd][y] \in t1.red PROVE FALSE
      BY DEF Fine
    <3>2. y \in t.red /\ t.child[sd][y] \in t.red
      BY <1>8, <1>10, <2>1, <3>1
    <3>3. t.child[sd][y] = n /\ n # NULL
      BY <1>4, <1>7, <3>2, Zenon
    <3> QED
      BY <1>5, <1>14, <2>1, <3>3, Zenon
  <2>2. Fine(t1, t.parent[g], p, NULL) /\ Fine(t1, p, g, NULL) /\ Fine(t1, p, t1.child[Other(o)][p], NULL)
    BY <1>5, <1>8, Zenon DEF Fine
  <2>3. Fine(t1, g, i, NULL)
    <3>1. i \notin t1.red
      <4>1. i # g /\ (i \in t.red => i = n)
        BY <1>4, <1>5, <1>6, <1>7, <1>12, <1>13, Zenon DEF Turned, AboutToRotate
      <4> QED
        BY <1>8, <1>16, <4>1, Zenon
    <3> QED
      BY <3>1 DEF Fine
  <2>4. Fine(t1, g, t1.child[o][g], NULL)
    <3>1. t.child[o][g] # g
      <4>1. Placed(t, H, q, e, L) /\ g \in H /\ o \in Sides
        BY <1>4, <1>5, <1>6, Zenon
      <4> QED
        BY ONLY <4>1, ChildIsHeld, SMTT(60)
    <3> QED
      BY <1>5, <1>8, <1>10, <3>1, Zenon DEF Fine
  <2> QED
    BY <1>9, <1>13, <2>1, <2>2, <2>3, <2>4, RotationColours, SMTT(60)
<1>24. Grown(t0, u, H, q, L)
  <2>1. Placed(u, H, q, TurnedEnds(H, q, e, g, p, o), L) /\ Kept(t1, u, H)
    BY <1>13 DEF Turned
  <2>2. Kept(t0, u, H)
    BY <1>9, <2>1, KeptThrough, Zenon
  <2> QED
    BY <1>22, <1>23, <2>1, <2>2, Zenon DEF Grown
<1>25. u.parent[n] \notin u.red
  <2>1. Rotated(t1, u, g, p, i, t.parent[g], o)
    BY <1>13 DEF Turned
  <2>2. u.red = t1.red /\ n \in Spots /\ n # mAnchor
    BY <1>4, <1>7, <2>1, Zenon DEF Rotated
  <2>3. u.parent[n] = p
    BY <1>5, <1>10, <1>16, <2>1, <2>2, Zenon DEF Rotated
  <2> QED
    BY <1>5, <1>8, <2>2, <2>3, Zenon
<1> QED
  BY <1>1, <1>2, <1>3, <1>24, <1>25 DEF Settled

\* The uncle is black, and n is between p and g.
Bent(t, H, b, n, p, g, s) ==
  RedPair(t, H, b, n, p, g, s) /\ n = t.child[Other(s)][p] /\ t.child[Other(s)][g] \notin t.red

LEMMA BentIsStraightened ==
  ASSUME NEW t0, NEW t, NEW H, NEW q, NEW e, NEW b, NEW L, NEW n, Growing(t0, t, H, q, e, b, L, n),
         NEW p, NEW g, NEW s, Bent(t, H, b, n, p, g, s)
  PROVE  \E f, h : /\ Growing(t0, Rotate(t, p, s), H, q, f, h, L, p)
                   /\ Straight(Rotate(t, p, s), H, h, p, n, g, s)
<1>1. PICK o : o = Other(s)
  OBVIOUS
<1>2. PICK u : u = Rotate(t, p, s)
  OBVIOUS
<1>4. Placed(t, H, q, e, L) /\ n \in H /\ n \in t.red /\ (Root(t) \in t.red => n = Root(t))
      /\ Heights(t, H, b, mAnchor, "left") /\ Kept(t0, t, H)
      /\ \A y \in H, sd \in Sides : y \in t.red /\ t.child[sd][y] \in t.red => t.child[sd][y] = n
  BY DEF Growing
<1>5. /\ n # Root(t) /\ p = t.parent[n] /\ p \in t.red /\ p \in H /\ p # Root(t)
      /\ g = t.parent[p] /\ g \in H /\ g \notin t.red
      /\ s \in Sides /\ p = t.child[s][g] /\ n # p /\ n # g /\ p # g
      /\ n = t.child[o][p] /\ t.child[o][g] \notin t.red
  BY <1>1, Zenon DEF RedPair, Bent
<1>6. o \in Sides /\ o # s /\ s = Other(o) /\ \A sd \in Sides : sd = s \/ sd = o
  BY <1>1, <1>5, OtherSide, Zenon DEF Sides, Other
<1>7. t \in Trees /\ H \subseteq Nodes /\ H \subseteq Spots /\ NULL \notin H /\ NULL \notin Spots /\ mAnchor \notin H
      /\ NULL \notin t.red
  BY <1>4, SpotsAreNumbers DEF Placed, Spots, Trees
<1>8. PICK i : i = t.child[s][n]
  OBVIOUS
<1>9. Turned(t, u, H, q, e, L, p, n, i, g, s)
  <2>1. t.child[Other(s)][p] # NULL /\ p \in H /\ s \in Sides
    BY <1>1, <1>4, <1>5, <1>7, Zenon
  <2>2. Turned(t, Rotate(t, p, s), H, q, e, L, p, t.child[Other(s)][p],
                t.child[s][t.child[Other(s)][p]], t.parent[p], s)
    BY <1>4, <2>1, RotationTurns
  <2> QED
    BY <1>1, <1>2, <1>5, <1>8, <2>2, Zenon
<1>10. \A y \in H, sd \in Sides : /\ t.child[sd][y] \in H \cup {NULL} /\ t.child[sd][y] # y
                                  /\ t.child[sd][y] # NULL => t.parent[t.child[sd][y]] = y
  BY <1>4, ChildIsHeld, SMTT(60)
<1>11. b \in [H \cup {NULL} -> Nat] /\ b[NULL] = 0 /\ b[p] \in Nat
  BY <1>4, <1>5, Zenon DEF Heights
<1>12. /\ b[p] = b[n] + Weight(t, p) /\ b[p] = b[t.child[s][p]] + Weight(t, p)
       /\ b[n] = b[i] + Weight(t, n) /\ b[n] = b[t.child[o][n]] + Weight(t, n)
       /\ b[t.child[s][p]] \in Nat /\ b[i] \in Nat /\ b[t.child[o][n]] \in Nat /\ b[n] \in Nat
  <2>1. Heights(t, H, b, mAnchor, "left") /\ H \subseteq Nodes /\ p \in H /\ n \in H /\ s \in Sides /\ o \in Sides
    BY <1>4, <1>5, <1>6, <1>7, Zenon
  <2>2. /\ t.child[o][p] \in H \cup {NULL} /\ t.child[s][p] \in H \cup {NULL}
        /\ t.child[o][n] \in H \cup {NULL} /\ t.child[s][n] \in H \cup {NULL}
    BY <2>1, <1>10
  <2>3. /\ b[p] = b[t.child[o][p]] + Weight(t, p) /\ b[t.child[o][p]] \in Nat
        /\ b[p] = b[t.child[s][p]] + Weight(t, p) /\ b[t.child[s][p]] \in Nat
    BY ONLY <2>1, <2>2, NothingLacks
  <2>4. /\ b[n] = b[t.child[o][n]] + Weight(t, n) /\ b[t.child[o][n]] \in Nat
        /\ b[n] = b[t.child[s][n]] + Weight(t, n) /\ b[t.child[s][n]] \in Nat
    BY ONLY <2>1, <2>2, NothingLacks, SMTT(60)
  <2> QED
    BY <1>5, <1>8, <2>3, <2>4, Zenon
<1>13. Weight(t, p) = 0 /\ Weight(t, n) = 0
  BY <1>4, <1>5, Zenon DEF Weight
<1>14. \A y \in H, sd \in Sides : Lack(mAnchor, "left", y, sd) = 0
  BY <1>7 DEF Lack
<1>15. OthersLevel(t, H, b, p, n, mAnchor, "left")
  BY <1>4 DEF Heights, OthersLevel
<1>16. Heights(u, H, TurnedHeights(H, b, p, n, b[p]), mAnchor, "left")
  <2>1. /\ b[p] = b[i] + Weight(t, p) + Lack(mAnchor, "left", p, Other(s))
        /\ b[p] = b[t.child[s][p]] + Weight(t, p) + Lack(mAnchor, "left", p, s)
        /\ b[p] = b[p] + Weight(t, n) + Lack(mAnchor, "left", n, s)
        /\ b[p] = b[t.child[Other(s)][n]] + Weight(t, n) + Lack(mAnchor, "left", n, Other(s))
    <3>1. /\ Lack(mAnchor, "left", n, s) = 0 /\ Lack(mAnchor, "left", n, o) = 0
          /\ Lack(mAnchor, "left", p, s) = 0 /\ Lack(mAnchor, "left", p, o) = 0
      BY <1>4, <1>5, <1>6, <1>14, Zenon
    <3> QED
      BY <1>1, <1>11, <1>12, <1>13, <3>1, SMTT(60)
  <2> QED
    BY <1>4, <1>9, <1>11, <1>15, <2>1, RotationLevels
<1>17. Rotated(t, u, p, n, i, g, s) /\ Kept(t, u, H) /\ Placed(u, H, q, TurnedEnds(H, q, e, p, n, s), L) /\ n # i
  BY <1>9 DEF Turned, AboutToRotate
<1>18. u.red = t.red
  BY <1>17, Zenon DEF Rotated
<1>19. Root(u) = Root(t) /\ u.parent[p] = n /\ u.parent[n] = g
  <2>1. mAnchor # p /\ mAnchor # n /\ mAnchor # i /\ mAnchor \in Spots /\ p \in Spots /\ n \in Spots /\ p # n
    BY <1>4, <1>5, <1>7, <1>8, <1>10, Zenon DEF Spots, NULL, mAnchor
  <2> QED
    BY <1>5, <1>17, <2>1, Zenon DEF Rotated, Root
<1>20. ASSUME NEW y \in H, NEW sd \in Sides
       PROVE  /\ y = p /\ sd = s => u.child[sd][y] = t.child[s][p]
              /\ y = p /\ sd # s => u.child[sd][y] = i
              /\ y = n /\ sd = s => u.child[sd][y] = p
              /\ y = n /\ sd # s => u.child[sd][y] = t.child[o][n]
              /\ y # p /\ y # n => u.child[sd][y] = IF t.child[sd][y] = p THEN n ELSE t.child[sd][y]
              /\ t.child[sd][y] = p => y = g
  BY <1>1, <1>4, <1>9, TurnedChildren
<1>21. /\ t.child[s][p] # n /\ t.child[o][g] # p
  <2>1. Placed(t, H, q, e, L) /\ p \in H /\ g \in H /\ s \in Sides /\ o \in Sides /\ p # NULL /\ n # NULL
    BY <1>4, <1>5, <1>6, <1>7, Zenon
  <2>2. t.child[o][p] # NULL /\ t.child[s][g] # NULL
    BY <1>5, <2>1, Zenon
  <2>3. t.child[o][p] # t.child[Other(o)][p] /\ t.child[s][g] # t.child[Other(s)][g]
    BY ONLY <2>1, <2>2, ChildrenDiffer
  <2> QED
    BY <1>1, <1>5, <1>6, <2>3, Zenon
<1>22. ASSUME NEW y \in H, NEW sd \in Sides, y \in u.red, u.child[sd][y] \in u.red
       PROVE  u.child[sd][y] = p
  <2>1. CASE y = p /\ sd = s
    BY <1>4, <1>5, <1>18, <1>20, <1>21, <1>22, <2>1, Zenon
  <2>2. CASE y = p /\ sd # s
    BY <1>4, <1>5, <1>6, <1>8, <1>17, <1>18, <1>20, <1>22, <2>2, Zenon
  <2>3. CASE y = n /\ sd = s
    BY <1>20, <2>3
  <2>4. CASE y = n /\ sd # s
    BY <1>4, <1>6, <1>10, <1>18, <1>20, <1>22, <2>4
  <2>5. CASE y # p /\ y # n
    <3>1. CASE t.child[sd][y] = p
      BY <1>5, <1>18, <1>20, <1>22, <3>1, Zenon
    <3>2. CASE t.child[sd][y] # p
      <4>1. t.child[sd][y] = n
        BY <1>4, <1>18, <1>20, <1>22, <2>5, <3>2
      <4> QED
        BY <1>4, <1>5, <1>7, <1>10, <2>5, <4>1, Zenon
    <3> QED
      BY <3>1, <3>2
  <2> QED
    BY <2>1, <2>2, <2>3, <2>4, <2>5, Zenon
<1>23. PICK f : f = TurnedEnds(H, q, e, p, n, s)
  OBVIOUS
<1>24. PICK h : h = TurnedHeights(H, b, p, n, b[p])
  OBVIOUS
<1>25. Growing(t0, u, H, q, f, h, L, p)
  <2>1. Kept(t0, u, H)
    BY <1>4, <1>17, KeptThrough, Zenon
  <2> QED
    BY <1>4, <1>5, <1>16, <1>17, <1>18, <1>19, <1>22, <1>23, <1>24, <2>1, Zenon DEF Growing
<1>26. Straight(u, H, h, p, n, g, s)
  <2>1. u.child[s][g] = n
    BY <1>5, <1>20, Zenon
  <2>2. u.child[s][n] = p
    BY <1>4, <1>5, <1>20, Zenon
  <2>3. u.child[o][g] = t.child[o][g]
    BY <1>5, <1>6, <1>20, <1>21, Zenon
  <2>4. RedPair(u, H, h, p, n, g, s)
    BY <1>4, <1>5, <1>18, <1>19, <2>1, Zenon DEF RedPair
  <2> QED
    BY <1>1, <1>5, <1>18, <2>2, <2>3, <2>4, Zenon DEF Straight
<1> QED
  BY <1>2, <1>25, <1>26

LEMMA StraightenIsGrown ==
  ASSUME NEW t0, NEW t, NEW H, NEW q, NEW e, NEW b, NEW L, NEW n, Growing(t0, t, H, q, e, b, L, n),
         NEW p, NEW g, NEW s, RedPair(t, H, b, n, p, g, s), t.child[Other(s)][g] \notin t.red
  PROVE  /\ Grown(t0, Straighten(t, n, p, g, s).tree, H, q, L)
         /\ Settled(Straighten(t, n, p, g, s))
<1>1. CASE n = t.child[Other(s)][p]
  <2>1. Bent(t, H, b, n, p, g, s)
    BY <1>1 DEF Bent
  <2>2. PICK u : u = Rotate(t, p, s)
    OBVIOUS
  <2>3. PICK f, h : Growing(t0, u, H, q, f, h, L, p) /\ Straight(u, H, h, p, n, g, s)
    BY <2>1, <2>2, BentIsStraightened
  <2>4. /\ Grown(t0, Rotate(Red(Black(u, n), g), g, Other(s)), H, q, L)
        /\ Settled([tree |-> Rotate(Red(Black(u, n), g), g, Other(s)), node |-> p])
    BY <2>3, StraightIsGrown, Zenon
  <2>5. PICK v : v = Rotate(Red(Black(u, n), g), g, Other(s))
    OBVIOUS
  <2>6. Straighten(t, n, p, g, s) = [tree |-> v, node |-> p]
    BY <1>1, <2>2, <2>5, Zenon DEF Straighten
  <2>7. Grown(t0, v, H, q, L) /\ Settled([tree |-> v, node |-> p])
    BY <2>4, <2>5, Zenon
  <2> QED
    BY <2>6, <2>7
<1>2. CASE n # t.child[Other(s)][p]
  <2>1. Placed(t, H, q, e, L) /\ n \in H
    BY Zenon DEF Growing
  <2>2. n # Root(t) /\ p = t.parent[n] /\ s \in Sides
    BY DEF RedPair
  <2>3. n = t.child[SideOf(t, n)][p] /\ SideOf(t, n) \in Sides
    BY <2>1, <2>2, ParentIsAbove
  <2>4. n = t.child[s][p]
    BY <1>2, <2>2, <2>3 DEF Sides, Other
  <2>5. Straight(t, H, b, n, p, g, s)
    BY <2>4 DEF Straight
  <2>6. PICK v : v = Rotate(Red(Black(t, p), g), g, Other(s))
    OBVIOUS
  <2>7. Grown(t0, v, H, q, L) /\ Settled([tree |-> v, node |-> n])
    BY <2>5, <2>6, StraightIsGrown
  <2>8. Straighten(t, n, p, g, s) = [tree |-> v, node |-> n]
    BY <1>2, <2>6, Zenon DEF Straighten
  <2> QED
    BY <2>7, <2>8
<1> QED
  BY <1>1, <1>2

-----------------------------------------------------------------------------
(* Loops.                                                                    *)

LEMMA SetInduction ==
  ASSUME NEW S, 0 \in S, \A n \in Nat : n \in S => n + 1 \in S
  PROVE  \A n \in Nat : n \in S
<1> DEFINE R == {ss \in Nat \X Nat : ss[1] < ss[2]}
           T == Nat \ S
<1>1. SUFFICES ASSUME T # {} PROVE FALSE
  OBVIOUS
<1>2. \E x \in T : \A y \in T : ~(<<y, x>> \in R)
  <2>1. IsWellFoundedOn(R, Nat) BY NatLessThanWellFounded DEF OpToRel
  <2>2. T \subseteq Nat OBVIOUS
  <2> HIDE DEF R, T
  <2> QED BY <1>1, <2>1, <2>2, WFMin, Zenon
<1>3. PICK x \in T : \A y \in T : ~(<<y, x>> \in R) BY <1>2
<1>4. x # 0 /\ x \in Nat /\ x - 1 \in Nat OBVIOUS
<1>5. <<x - 1, x>> \in R BY <1>4
<1>6. x - 1 \in S BY <1>3, <1>4, <1>5
<1> QED BY <1>4, <1>6

\* g[k] is x after k rounds F, for the k up to n.
Rounds(S, F, x, n, g) ==
  g \in [0..n -> S] /\ g = [k \in 0..n |-> IF k = 0 THEN x ELSE F[g[k - 1]]]

LEMMA RoundsExist ==
  ASSUME NEW S, NEW F \in [S -> S], NEW x \in S
  PROVE  \A n \in Nat : \E g : Rounds(S, F, x, n, g)
<1> DEFINE I == {n \in Nat : \E g : Rounds(S, F, x, n, g)}
<1>1. 0 \in I
  <2>1. PICK g : g = [k \in 0..0 |-> x]
    OBVIOUS
  <2>2. g \in [0..0 -> S] /\ g = [k \in 0..0 |-> IF k = 0 THEN x ELSE F[g[k - 1]]]
    BY <2>1
  <2>3. \E h : Rounds(S, F, x, 0, h)
    BY <2>2 DEF Rounds
  <2> QED
    BY <2>3
<1>2. ASSUME NEW n \in Nat, n \in I PROVE n + 1 \in I
  <2>1. PICK g : Rounds(S, F, x, n, g)
    BY <1>2
  <2>2. g \in [0..n -> S] /\ \A k \in 0..n : g[k] = IF k = 0 THEN x ELSE F[g[k - 1]]
    BY <2>1 DEF Rounds
  <2>3. PICK h : h = [k \in 0..(n + 1) |-> IF k = n + 1 THEN F[g[n]] ELSE g[k]]
    OBVIOUS
  <2>4. h \in [0..(n + 1) -> S]
    BY <2>2, <2>3
  <2>5. ASSUME NEW k \in 0..(n + 1) PROVE h[k] = IF k = 0 THEN x ELSE F[h[k - 1]]
    <3>1. CASE k = n + 1
      <4>1. h[k] = F[g[n]] /\ h[k - 1] = g[n] /\ k # 0
        BY <2>3, <3>1
      <4> QED
        BY <4>1
    <3>2. CASE k # n + 1
      <4>1. k \in 0..n /\ h[k] = g[k] /\ (k # 0 => h[k - 1] = g[k - 1])
        BY <2>3, <3>2
      <4> QED
        BY <2>2, <4>1
    <3> QED
      BY <3>1, <3>2
  <2>6. h = [k \in 0..(n + 1) |-> IF k = 0 THEN x ELSE F[h[k - 1]]]
    BY <2>3, <2>5
  <2>7. \E f : Rounds(S, F, x, n + 1, f)
    BY <2>4, <2>6 DEF Rounds
  <2> QED
    BY <2>7
<1>3. \A n \in Nat : n \in I
  <2> HIDE DEF I
  <2> QED
    BY <1>1, <1>2, SetInduction
<1> QED
  BY <1>3

\* A round that changes something brings the end nearer: M counts what is left.
Ending(S, F, M, n) ==
  /\ F \in [S -> S] /\ M \in [S -> 0..n]
  /\ \A r \in S : F[r] = r \/ M[F[r]] < M[r]

LEMMA RoundsEnd ==
  ASSUME NEW S, NEW F, NEW M, NEW n \in Nat, Ending(S, F, M, n), NEW g,
         g[0] \in S, \A k \in 1..n : g[k - 1] \in S => g[k] = F[g[k - 1]]
  PROVE  g[n] \in S /\ F[g[n]] = g[n]
<1>1. /\ F \in [S -> S] /\ M \in [S -> 0..n]
      /\ \A r \in S : F[r] = r \/ M[F[r]] < M[r]
  BY DEF Ending
<1> DEFINE I == {k \in Nat : k <= n => g[k] \in S /\ (F[g[k]] = g[k] \/ M[g[k]] <= n - k)}
<1>2. 0 \in I
  <2>1. M[g[0]] \in 0..n
    BY <1>1
  <2> QED
    BY <2>1
<1>3. ASSUME NEW k \in Nat, k \in I PROVE k + 1 \in I
  <2>1. SUFFICES ASSUME k + 1 <= n PROVE g[k + 1] \in S /\ (F[g[k + 1]] = g[k + 1] \/ M[g[k + 1]] <= n - (k + 1))
    OBVIOUS
  <2>2. k + 1 \in 1..n /\ (k + 1) - 1 = k /\ k <= n
    BY <2>1
  <2>3. g[k] \in S /\ (F[g[k]] = g[k] \/ M[g[k]] <= n - k)
    BY <1>3, <2>2
  <2>4. g[k + 1] = F[g[k]]
    BY <2>2, <2>3
  <2>5. g[k + 1] \in S
    BY <1>1, <2>3, <2>4
  <2>6. CASE F[g[k]] = g[k]
    BY <2>4, <2>5, <2>6
  <2>7. CASE F[g[k]] # g[k]
    <3>1. M[g[k + 1]] < M[g[k]] /\ M[g[k]] <= n - k
      BY <1>1, <2>3, <2>4, <2>7
    <3>2. M[g[k + 1]] \in Int /\ M[g[k]] \in Int
      BY <1>1, <2>3, <2>5
    <3> QED
      BY <2>2, <2>5, <3>1, <3>2
  <2> QED
    BY <2>6, <2>7
<1>4. \A k \in Nat : k \in I
  <2> HIDE DEF I
  <2> QED
    BY <1>2, <1>3, SetInduction
<1>5. g[n] \in S /\ (F[g[n]] = g[n] \/ M[g[n]] <= 0)
  BY <1>4
<1>6. CASE F[g[n]] # g[n]
  <2>1. M[F[g[n]]] < M[g[n]] /\ M[g[n]] <= 0 /\ F[g[n]] \in S
    BY <1>1, <1>5, <1>6
  <2>2. M[F[g[n]]] \in Nat /\ M[g[n]] \in Nat
    BY <1>1, <1>5, <2>1
  <2> QED
    BY <2>1, <2>2
<1> QED
  BY <1>5, <1>6

-----------------------------------------------------------------------------
(* The end of both rebalancings.                                             *)

\* Of t0 and everything else: a red-black tree of H.
Balanced(t0, t, H, q, L) ==
  \E e, b : /\ Placed(t, H, q, e, L) /\ Heights(t, H, b, mAnchor, "left") /\ Kept(t0, t, H)
            /\ NoRedRed(t, H, NULL) /\ Root(t) \notin t.red

\* Where a black node is lacking: nowhere, or above x.
LackingAt(t, H, xp, sx, x) ==
  \/ xp = mAnchor /\ x = Root(t)
  \/ xp \in H /\ sx \in Sides /\ x = t.child[sx][xp]

LEMMA BlackNodeAdded ==
  ASSUME NEW t, NEW H, NEW q, NEW e, NEW b, NEW L, NEW xp, NEW sx, NEW x \in H,
         Placed(t, H, q, e, L), Heights(t, H, b, xp, sx), LackingAt(t, H, xp, sx, x),
         x \in t.red, NoRedRed(t, H, x)
  PROVE  /\ \E f : Heights(Black(t, x), H, f, mAnchor, "left")
         /\ NoRedRed(Black(t, x), H, NULL)
<1>1. t \in Trees /\ H \subseteq Nodes /\ H \subseteq Spots /\ NULL \notin H /\ mAnchor \notin H
  BY SpotsAreNumbers DEF Placed, Spots
<1>2. PICK u : u = Black(t, x)
  OBVIOUS
<1>3. u.child = t.child /\ u.red = t.red \ {x}
  BY <1>1, <1>2, Colours DEF SameLinks
<1>4. \A y \in H, sd \in Sides : /\ t.child[sd][y] \in H \cup {NULL} /\ t.child[sd][y] # y
                                 /\ t.child[sd][y] # NULL => t.parent[t.child[sd][y]] = y
  BY ChildIsHeld
<1>5. b \in [H \cup {NULL} -> Nat] /\ b[NULL] = 0
      /\ \A y \in H, sd \in Sides : b[y] = b[t.child[sd][y]] + Weight(t, y) + Lack(xp, sx, y, sd)
  BY DEF Heights
<1>6. PICK f : f = [z \in H \cup {NULL} |-> IF z = x THEN b[x] + 1 ELSE b[z]]
  OBVIOUS
<1>7. f \in [H \cup {NULL} -> Nat] /\ f[NULL] = 0
  BY <1>1, <1>5, <1>6
<1>8. ASSUME NEW y \in H, NEW sd \in Sides
      PROVE  f[y] = f[u.child[sd][y]] + Weight(u, y) + Lack(mAnchor, "left", y, sd)
  <2>1. PICK c : c = t.child[sd][y]
    OBVIOUS
  <2>2. c \in H \cup {NULL} /\ c # y /\ (c # NULL => t.parent[c] = y) /\ u.child[sd][y] = c
    BY <1>3, <1>4, <2>1
  <2>3. b[y] = b[c] + Weight(t, y) + Lack(xp, sx, y, sd) /\ b[y] \in Nat /\ b[c] \in Nat
    BY <1>5, <2>1, <2>2
  <2>4. f[y] = (IF y = x THEN b[y] + 1 ELSE b[y]) /\ f[c] = (IF c = x THEN b[c] + 1 ELSE b[c])
    BY <1>6, <2>2
  <2>5. Lack(mAnchor, "left", y, sd) = 0
    BY <1>1 DEF Lack
  <2>6. Weight(u, y) = (IF y = x THEN Weight(t, y) + 1 ELSE Weight(t, y)) /\ Weight(t, y) \in {0, 1}
    BY <1>3 DEF Weight
  <2>7. Lack(xp, sx, y, sd) = IF c = x THEN 1 ELSE 0
    <3>1. CASE xp = mAnchor /\ x = Root(t)
      <4>1. c # x
        BY <1>1, <2>2, <3>1, ParentIsAbove
      <4> QED
        BY <1>1, <3>1, <4>1 DEF Lack
    <3>2. CASE xp \in H /\ sx \in Sides /\ x = t.child[sx][xp]
      <4>1. c = x => y = xp
        BY <1>1, <1>4, <2>2, <3>2
      <4>2. c = x /\ y = xp => sd = sx
        <5>1. SUFFICES ASSUME c = x, y = xp, sd # sx PROVE FALSE
          OBVIOUS
        <5>2. sd = Other(sx)
          BY <3>2, <5>1 DEF Sides, Other
        <5>3. Placed(t, H, q, e, L) /\ xp \in H /\ sx \in Sides /\ t.child[sx][xp] # NULL
          BY <1>1, <3>2
        <5>4. t.child[sx][xp] # t.child[Other(sx)][xp]
          BY ONLY <5>3, ChildrenDiffer
        <5> QED
          BY <2>1, <3>2, <5>1, <5>2, <5>4
      <4> QED
        BY <2>1, <3>2, <4>1, <4>2 DEF Lack
    <3> QED
      BY <3>1, <3>2 DEF LackingAt
  <2> QED
    BY <2>2, <2>3, <2>4, <2>5, <2>6, <2>7
<1>9. Heights(u, H, f, mAnchor, "left")
  BY <1>7, <1>8 DEF Heights
<1>10. NoRedRed(u, H, NULL)
  BY <1>3 DEF NoRedRed, Fine
<1> QED
  BY <1>2, <1>9, <1>10

LEMMA BlackRootIsBalanced ==
  ASSUME NEW t0, NEW t, NEW H, NEW q, NEW L, Grown(t0, t, H, q, L), H # {}
  PROVE  Balanced(t0, Black(t, Root(t)), H, q, L)
<1>1. PICK e, b : /\ Placed(t, H, q, e, L) /\ Heights(t, H, b, mAnchor, "left") /\ Kept(t0, t, H)
                  /\ NoRedRed(t, H, NULL)
  BY DEF Grown
<1>2. PICK x : x = Root(t)
  OBVIOUS
<1>3. t \in Trees /\ x \in H /\ x \in Spots /\ H \subseteq Nodes /\ NULL \notin t.red /\ NULL \notin H
  BY <1>1, <1>2, SpotsAreNumbers DEF Placed, Spots, Trees
<1>4. PICK u : u = Black(t, x)
  OBVIOUS
<1>5. SameLinks(t, u) /\ u.red = t.red \ {x} /\ Kept(t, u, H)
  BY <1>3, <1>4, Colours, ColouringKeeps
<1>6. Placed(u, H, q, e, L) /\ Kept(t0, u, H) /\ Root(u) = x
  BY <1>1, <1>2, <1>5, PlacedBySameLinks, KeptThrough DEF SameLinks, Root
<1>7. (\E f : Heights(u, H, f, mAnchor, "left")) /\ NoRedRed(u, H, NULL)
  <2>1. CASE x \in t.red
    <3>1. LackingAt(t, H, mAnchor, "left", x)
      BY <1>2 DEF LackingAt
    <3>2. NoRedRed(t, H, x)
      BY <1>1, <1>3 DEF NoRedRed, Fine
    <3> QED
      BY <1>1, <1>3, <1>4, <2>1, <3>1, <3>2, BlackNodeAdded, Zenon
  <2>2. CASE x \notin t.red
    <3>1. u.red = t.red /\ u.child = t.child
      BY <1>5, <2>2 DEF SameLinks
    <3>2. Heights(u, H, b, mAnchor, "left")
      BY <1>1, <3>1 DEF Heights, Weight
    <3>3. NoRedRed(u, H, NULL)
      BY <1>1, <3>1 DEF NoRedRed, Fine
    <3> QED
      BY <3>2, <3>3
  <2> QED
    BY <2>1, <2>2
<1> QED
  BY <1>2, <1>4, <1>5, <1>6, <1>7 DEF Balanced

-----------------------------------------------------------------------------
(* RBTreeInsert's loop ends.                                                 *)

\* What a round begins with.
Recolored(t0, H, q, e, L, r) ==
  \/ \E b : Growing(t0, r.tree, H, q, e, b, L, r.node)
  \/ Grown(t0, r.tree, H, q, L) /\ Settled(r)

LEMMA RecolorGrows ==
  ASSUME NEW t0, NEW H, NEW q, NEW e, NEW L, NEW r, r = [tree |-> r.tree, node |-> r.node],
         r.node \in H, Recolored(t0, H, q, e, L, r)
  PROVE  \/ Recolor(r) = r /\ Settled(r)
         \/ /\ ~Settled(r) /\ Recolor(r).node \in H /\ Recolor(r) \in [tree : Trees, node : H]
            /\ Recolored(t0, H, q, e, L, Recolor(r))
            /\ Settled(Recolor(r)) \/ Size(e, Recolor(r).node) > Size(e, r.node)
<1>1. PICK t : t = r.tree
  OBVIOUS
<1>2. PICK n : n = r.node
  OBVIOUS
<1>3. PICK p : p = t.parent[n]
  OBVIOUS
<1>4. PICK g : g = t.parent[p]
  OBVIOUS
<1>5. PICK s : s = SideOf(t, p)
  OBVIOUS
<1>6. PICK a : a = t.child[Other(s)][g]
  OBVIOUS
<1>7. Recolor(r) = IF n = Root(t) \/ ~IsRed(t, p) THEN r
                   ELSE IF IsRed(t, a) THEN [tree |-> Red(Black(Black(t, p), a), g), node |-> g]
                   ELSE Straighten(t, n, p, g, s)
  BY <1>1, <1>2, <1>3, <1>4, <1>5, <1>6, Zenon DEF Recolor
<1>8. Settled(r) <=> n = Root(t) \/ p \notin t.red
  BY <1>1, <1>2, <1>3 DEF Settled
<1>9. CASE Settled(r)
  BY <1>7, <1>8, <1>9 DEF IsRed
<1>10. CASE ~Settled(r)
  <2>1. PICK b : Growing(t0, t, H, q, e, b, L, n)
    BY <1>1, <1>2, <1>10 DEF Recolored
  <2>2. RedPair(t, H, b, n, p, g, s)
    BY <1>3, <1>4, <1>5, <1>8, <1>10, <2>1, RedPairSetting
  <2>3. CASE a \in t.red
    <3>1. PICK u : u = Red(Black(Black(t, p), a), g)
      OBVIOUS
    <3>2. PICK f : Growing(t0, u, H, q, e, f, L, g)
      BY <1>6, <2>1, <2>2, <2>3, <3>1, RecolouredGrows, Zenon
    <3>3. Recolor(r) = [tree |-> u, node |-> g]
      BY <1>7, <1>8, <1>10, <2>3, <3>1 DEF IsRed
    <3>4. g \in H /\ u \in Trees
      BY <3>2 DEF Growing, Placed
    <3>5. Size(e, g) > Size(e, n)
      <4>1. Placed(t, H, q, e, L) /\ n \in H /\ n # Root(t) /\ p \in H /\ p # Root(t) /\ p = t.parent[n] /\ g = t.parent[p]
        BY <2>1, <2>2 DEF Growing, RedPair
      <4>2. Size(e, p) >= Size(e, n) + 1 /\ Size(e, n) \in Nat
        BY ONLY <4>1, ParentIsLarger
      <4>3. Size(e, g) >= Size(e, p) + 1 /\ Size(e, p) \in Nat
        BY ONLY <4>1, ParentIsLarger
      <4>4. Size(e, g) \in Int
        <5>1. g \in H
          BY <2>2 DEF RedPair
        <5>2. e["right"][g] \in Int /\ e["left"][g] \in Int
          BY <4>1, <5>1, PlacesAreNumbers
        <5> QED
          BY <5>2 DEF Size
      <4> QED
        BY <4>2, <4>3, <4>4, SMTT(60)
    <3>6. Recolored(t0, H, q, e, L, [tree |-> u, node |-> g])
      BY <3>2 DEF Recolored
    <3> QED
      BY <1>2, <1>10, <3>3, <3>4, <3>5, <3>6
  <2>4. CASE a \notin t.red
    <3>1. PICK v : v = Straighten(t, n, p, g, s)
      OBVIOUS
    <3>2. Grown(t0, v.tree, H, q, L) /\ Settled(v)
      BY <1>6, <2>1, <2>2, <2>4, <3>1, StraightenIsGrown, Zenon
    <3>3. Recolor(r) = v
      BY <1>7, <1>8, <1>10, <2>4, <3>1 DEF IsRed
    <3>4. v \in [tree : Trees, node : H]
      <4>1. v.tree \in Trees
        BY <3>2 DEF Grown, Placed
      <4>2. v = [tree |-> v.tree, node |-> v.node] /\ v.node \in {n, p}
        BY <3>1 DEF Straighten
      <4>3. n \in H /\ p \in H
        BY <2>1, <2>2 DEF Growing, RedPair
      <4>4. v.node \in H
        BY <4>2, <4>3
      <4> QED
        BY <4>1, <4>2, <4>4
    <3>5. Recolored(t0, H, q, e, L, v)
      BY <3>2 DEF Recolored
    <3> QED
      BY <1>10, <3>2, <3>3, <3>4, <3>5
  <2> QED
    BY <2>3, <2>4
<1> QED
  BY <1>9, <1>10

LEMMA RecolorLoop ==
  ASSUME NEW t0, NEW t, NEW H, NEW q, NEW e, NEW b, NEW L, NEW n, L <= N,
         Growing(t0, t, H, q, e, b, L, n)
  PROVE  Grown(t0, Repeated(Recolor, [tree |-> t, node |-> n]).tree, H, q, L)
<1>1. PICK x : x = [tree |-> t, node |-> n]
  OBVIOUS
<1>2. PICK S : S = {r \in [tree : Trees, node : H] : Recolored(t0, H, q, e, L, r)}
  OBVIOUS
<1>3. Placed(t, H, q, e, L) /\ n \in H /\ L \in Nat /\ N \in Nat
  BY RedBlackTreeAssumption DEF Growing, Placed
<1>4. x \in S
  <2>1. t \in Trees
    BY <1>3 DEF Placed
  <2>2. Recolored(t0, H, q, e, L, x)
    BY <1>1 DEF Recolored
  <2> QED
    BY <1>1, <1>2, <1>3, <2>1, <2>2
<1>5. ASSUME NEW r \in S
      PROVE  \/ Recolor(r) = r /\ Settled(r)
             \/ ~Settled(r) /\ Recolor(r) \in S /\ (Settled(Recolor(r)) \/ Size(e, Recolor(r).node) > Size(e, r.node))
  <2>1. r = [tree |-> r.tree, node |-> r.node] /\ r.node \in H /\ Recolored(t0, H, q, e, L, r)
    BY <1>2
  <2>2. \/ Recolor(r) = r /\ Settled(r)
        \/ /\ ~Settled(r) /\ Recolor(r).node \in H /\ Recolor(r) \in [tree : Trees, node : H]
           /\ Recolored(t0, H, q, e, L, Recolor(r))
           /\ Settled(Recolor(r)) \/ Size(e, Recolor(r).node) > Size(e, r.node)
    BY <2>1, RecolorGrows
  <2> QED
    BY <1>2, <2>2, Zenon
<1>6. ASSUME NEW z \in H PROVE Size(e, z) \in 0..(L - 1)
  <2>1. e["left"][z] \in 1..L /\ e["right"][z] \in 1..L /\ e["left"][z] <= e["right"][z]
    <3>1. /\ q[z] \in 1..L /\ e["left"][z] \in 1..L /\ e["right"][z] \in 1..L
          /\ e["left"][z] <= q[z] /\ q[z] <= e["right"][z]
      BY <1>3, PlacesAreNumbers
    <3> QED
      BY <3>1
  <2> QED
    BY <2>1, <1>3 DEF Size
<1>7. PICK F : F = [r \in S |-> Recolor(r)]
  OBVIOUS
<1>8. PICK M : M = [r \in S |-> IF Settled(r) THEN 0 ELSE L - Size(e, r.node)]
  OBVIOUS
<1>9. F \in [S -> S]
  BY <1>5, <1>7
<1>10. \A r \in S : r.node \in H
  BY <1>2
<1>11. Ending(S, F, M, N)
  <2>1. M \in [S -> 0..N]
    <3>1. ASSUME NEW r \in S PROVE (IF Settled(r) THEN 0 ELSE L - Size(e, r.node)) \in 0..N
      <4>1. Size(e, r.node) \in 0..(L - 1)
        BY <1>6, <1>10
      <4> QED
        BY <1>3, <4>1
    <3> QED
      BY <1>8, <3>1
  <2>2. ASSUME NEW r \in S, F[r] # r PROVE M[F[r]] < M[r]
    <3>1. ~Settled(r) /\ Recolor(r) \in S /\ (Settled(Recolor(r)) \/ Size(e, Recolor(r).node) > Size(e, r.node))
      BY <1>5, <1>7, <2>2
    <3>2. PICK v : v = Recolor(r)
      OBVIOUS
    <3>3. Size(e, r.node) \in 0..(L - 1) /\ Size(e, v.node) \in 0..(L - 1)
      BY <1>6, <1>10, <3>1, <3>2
    <3>4. M[r] = L - Size(e, r.node) /\ M[v] = IF Settled(v) THEN 0 ELSE L - Size(e, v.node)
      BY <1>8, <3>1, <3>2
    <3>5. M[v] < M[r]
      BY <1>3, <3>1, <3>2, <3>3, <3>4
    <3> QED
      BY <1>7, <3>2, <3>5
  <2> QED
    BY <1>9, <2>1, <2>2 DEF Ending
<1>12. PICK f : f = CHOOSE w : w = [k \in 0..N |-> IF k = 0 THEN x ELSE Recolor(w[k - 1])]
  OBVIOUS
<1>13. f = [k \in 0..N |-> IF k = 0 THEN x ELSE Recolor(f[k - 1])]
  <2>1. PICK g : Rounds(S, F, x, N, g)
    BY <1>3, <1>4, <1>9, RoundsExist
  <2>2. g \in [0..N -> S] /\ g = [k \in 0..N |-> IF k = 0 THEN x ELSE F[g[k - 1]]]
    BY <2>1, Zenon DEF Rounds
  <2>3. ASSUME NEW k \in 0..N, k # 0 PROVE F[g[k - 1]] = Recolor(g[k - 1])
    <3>1. k - 1 \in 0..N
      BY <1>3, <2>3
    <3> QED
      BY <1>7, <2>2, <3>1
  <2>4. \A k \in 0..N : g[k] = IF k = 0 THEN x ELSE Recolor(g[k - 1])
    BY <2>2, <2>3, Zenon
  <2>5. g = [k \in 0..N |-> IF k = 0 THEN x ELSE Recolor(g[k - 1])]
    BY <2>2, <2>4, Zenon
  <2> QED
    BY <1>12, <2>5, Zenon
<1>14. Repeated(Recolor, x) = f[N]
  BY <1>12, Zenon DEF Repeated
<1>15. f[N] \in S /\ F[f[N]] = f[N]
  <2>1. f[0] = x
    BY <1>3, <1>13
  <2>2. ASSUME NEW k \in 1..N, f[k - 1] \in S PROVE f[k] = F[f[k - 1]]
    <3>1. k \in 0..N /\ k # 0
      BY <1>3
    <3> QED
      BY <1>7, <1>13, <2>2, <3>1
  <2> QED
    BY <1>3, <1>4, <1>11, <2>1, <2>2, RoundsEnd
<1>16. Settled(f[N])
  <2>1. Recolor(f[N]) = f[N]
    BY <1>7, <1>15
  <2>2. M[F[f[N]]] \in Int
    BY <1>11, <1>15 DEF Ending
  <2>3. PICK v : v = f[N]
    OBVIOUS
  <2>4. v \in S /\ Recolor(v) = v
    BY <1>15, <2>1, <2>3
  <2>5. Size(e, v.node) \in Int
    BY <1>6, <1>10, <2>4
  <2>6. ~(Size(e, v.node) > Size(e, v.node))
    BY <2>5
  <2> QED
    BY <1>5, <2>3, <2>4, <2>6
<1>17. PICK r : r = f[N]
  OBVIOUS
<1>18. Recolored(t0, H, q, e, L, r) /\ Settled(r)
  BY <1>2, <1>15, <1>16, <1>17
<1>19. Grown(t0, r.tree, H, q, L)
  <2>1. ASSUME NEW c, Growing(t0, r.tree, H, q, e, c, L, r.node) PROVE Grown(t0, r.tree, H, q, L)
    <3>1. /\ Placed(r.tree, H, q, e, L) /\ Heights(r.tree, H, c, mAnchor, "left") /\ Kept(t0, r.tree, H)
          /\ r.node \in H
          /\ \A y \in H, sd \in Sides : y \in r.tree.red /\ r.tree.child[sd][y] \in r.tree.red => r.tree.child[sd][y] = r.node
      BY <2>1 DEF Growing
    <3>2. ASSUME NEW y \in H, NEW sd \in Sides, y \in r.tree.red, r.tree.child[sd][y] \in r.tree.red PROVE FALSE
      <4>1. r.tree.child[sd][y] = r.node
        BY <3>1, <3>2
      <4>2. r.node # NULL /\ y # mAnchor
        BY <3>1, PlacesAreNumbers
      <4>3. r.tree.parent[r.node] = y
        <5>1. Placed(r.tree, H, q, e, L) /\ y \in H /\ sd \in Sides
          BY <3>1
        <5>2. r.tree.child[sd][y] # NULL => r.tree.parent[r.tree.child[sd][y]] = y
          BY ONLY <5>1, ChildIsHeld
        <5> QED
          BY <4>1, <4>2, <5>2
      <4>4. r.node # Root(r.tree)
        <5>1. Placed(r.tree, H, q, e, L) /\ r.node \in H
          BY <3>1
        <5>2. r.node = Root(r.tree) => r.tree.parent[r.node] = mAnchor
          BY ONLY <5>1, ParentIsAbove
        <5> QED
          BY <4>2, <4>3, <5>2
      <4> QED
        BY <1>18, <3>2, <4>3, <4>4 DEF Settled
    <3>3. NoRedRed(r.tree, H, NULL)
      BY <3>2, Zenon DEF NoRedRed, Fine
    <3> QED
      BY <3>1, <3>3 DEF Grown
  <2> QED
    BY <1>18, <2>1 DEF Recolored
<1> QED
  BY <1>1, <1>14, <1>17, <1>19, Zenon

-----------------------------------------------------------------------------
(* The items s of a tree, from the first to the last.                        *)

Listed(s, q, H, L) ==
  /\ s \in [1..L -> H] /\ q \in [H -> 1..L]
  /\ \A i \in 1..L : q[s[i]] = i
  /\ \A x \in H : s[q[x]] = x

\* The anchor's children are the first item and the last.
Ends(t, H, q, L) ==
  IF H = {} THEN \A sd \in Sides : t.child[sd][mAnchor] = mAnchor
  ELSE /\ t.child["left"][mAnchor] \in H /\ q[t.child["left"][mAnchor]] = 1
       /\ t.child["right"][mAnchor] \in H /\ q[t.child["right"][mAnchor]] = L

\* What is not in the tree has nothing to do with it.
Apart(t, z) == z \notin t.red /\ t.parent[z] = NULL /\ \A sd \in Sides : t.child[sd][z] = NULL

Clean(t, H) == mAnchor \in t.red /\ \A z \in Nodes \ H : Apart(t, z)

\* A red-black tree of H, whose items are s.
Arranged(t, H, s, q, e, b, L) ==
  /\ Placed(t, H, q, e, L) /\ Listed(s, q, H, L) /\ Ends(t, H, q, L) /\ Clean(t, H)
  /\ Heights(t, H, b, mAnchor, "left") /\ NoRedRed(t, H, NULL) /\ Root(t) \notin t.red

Sound(t, H, s, L) == \E q, e, b : Arranged(t, H, s, q, e, b, L)

LEMMA FirstInterval == \A n \in Nat : IsFiniteSet(1..n) /\ Cardinality(1..n) = n
<1> QED
  BY FS_Interval

LEMMA NoMoreThanNodes ==
  ASSUME NEW s, NEW q, NEW H, NEW L \in Nat, Listed(s, q, H, L), H \subseteq Nodes
  PROVE  L <= N
<1>1. N \in Nat /\ IsFiniteSet(1..N) /\ Cardinality(1..N) = N /\ Cardinality(1..L) = L /\ IsFiniteSet(1..L)
  BY RedBlackTreeAssumption, FirstInterval
<1>2. s \in Injection(1..L, 1..N)
  <2>1. s \in [1..L -> 1..N]
    BY DEF Listed, Nodes
  <2>2. \A i, j \in 1..L : s[i] = s[j] => i = j
    BY DEF Listed
  <2> QED
    BY <2>1, <2>2 DEF Injection, IsInjective
<1> QED
  BY <1>1, <1>2, FS_Injection

-----------------------------------------------------------------------------
(* A new leaf.                                                               *)

Attached(t, u, n, p, s) ==
  /\ u \in Trees /\ u.red = t.red \cup {n} /\ u.mnSize = t.mnSize
  /\ \A sd \in Sides, z \in Spots :
       u.child[sd][z] =
         IF z = p /\ sd = s THEN n
         ELSE IF z = mAnchor /\ (p = mAnchor \/ (sd = s /\ p = t.child[s][mAnchor])) THEN n
         ELSE t.child[sd][z]
  /\ \A z \in Spots :
       u.parent[z] = IF z = n THEN p ELSE IF z = mAnchor /\ p = mAnchor THEN n ELSE t.parent[z]

LEMMA AttachIs ==
  ASSUME NEW t \in Trees, NEW n \in Nodes, NEW p \in Spots, NEW s \in Sides, n # p
  PROVE  Attached(t, Attach(t, n, p, s), n, p, s)
<1>1. mAnchor \in Spots /\ n \in Spots /\ n # mAnchor /\ n \in Links /\ p \in Links
      /\ Other(s) \in Sides /\ Other(s) # s /\ \A sd \in Sides : sd = s \/ sd = Other(s)
  BY SpotsAreNumbers, OtherSide DEF Spots, Links, Sides, Other
<1>2. PICK leaf : leaf = [Red(t, n) EXCEPT !.parent[n] = p, !.child[s][p] = n]
  OBVIOUS
<1>3. /\ leaf \in Trees /\ leaf.red = t.red \cup {n} /\ leaf.mnSize = t.mnSize
      /\ \A sd \in Sides, z \in Spots : leaf.child[sd][z] = IF sd = s /\ z = p THEN n ELSE t.child[sd][z]
      /\ \A z \in Spots : leaf.parent[z] = IF z = n THEN p ELSE t.parent[z]
  <2>1. PICK a : a = Red(t, n)
    OBVIOUS
  <2>2. a \in Trees /\ a.child = t.child /\ a.parent = t.parent /\ a.red = t.red \cup {n} /\ a.mnSize = t.mnSize
    BY <1>1, <2>1, Colours DEF SameLinks
  <2>3. PICK c : c = [a EXCEPT !.parent[n] = p]
    OBVIOUS
  <2>4. Adopted(a, c, n, p)
    BY <1>1, <2>2, <2>3, ParentIs
  <2>5. leaf = Link(c, p, s, n)
    BY <1>2, <2>1, <2>3, Zenon DEF Link
  <2>6. Linked(c, leaf, p, s, n)
    <3>1. c \in Trees
      BY <2>4 DEF Adopted
    <3> QED
      BY <1>1, <2>5, <3>1, LinkIs
  <2> QED
    BY <2>2, <2>4, <2>6 DEF Adopted, Linked
<1>4. CASE p = mAnchor
  <2>1. PICK c : c = [leaf EXCEPT !.parent[mAnchor] = n]
    OBVIOUS
  <2>2. Adopted(leaf, c, mAnchor, n)
    BY <1>1, <1>3, <2>1, ParentIs
  <2>3. Attach(t, n, p, s) = Link(c, mAnchor, Other(s), n)
    BY <1>2, <1>4, <2>1, Zenon DEF Link, Attach
  <2>4. Linked(c, Attach(t, n, p, s), mAnchor, Other(s), n)
    <3>1. c \in Trees
      BY <2>2 DEF Adopted
    <3> QED
      BY <1>1, <2>3, <3>1, LinkIs
  <2> QED
    BY <1>1, <1>3, <1>4, <2>2, <2>4 DEF Adopted, Linked, Attached
<1>5. CASE p # mAnchor /\ p = t.child[s][mAnchor]
  <2>1. Attach(t, n, p, s) = Link(leaf, mAnchor, s, n)
    BY <1>2, <1>5, Zenon DEF Attach
  <2>2. Linked(leaf, Attach(t, n, p, s), mAnchor, s, n)
    BY <1>1, <1>3, <2>1, LinkIs
  <2> QED
    BY <1>1, <1>3, <1>5, <2>2 DEF Linked, Attached
<1>6. CASE p # mAnchor /\ p # t.child[s][mAnchor]
  <2>1. Attach(t, n, p, s) = leaf
    BY <1>2, <1>6, Zenon DEF Attach
  <2> QED
    BY <1>1, <1>3, <1>6, <2>1 DEF Attached
<1> QED
  BY <1>4, <1>5, <1>6

NewLeaf(t, H, n, p, s) ==
  n \in Nodes \ H /\ Apart(t, n) /\ p \in H /\ s \in Sides /\ t.child[s][p] = NULL

\* The position of a new leaf of p on side s, and what is behind it moved.
Where(q, p, s) == IF s = "left" THEN q[p] ELSE q[p] + 1

Moved(H, q, n, p, s) ==
  [z \in H \cup {n} |-> IF z = n THEN Where(q, p, s)
                        ELSE IF q[z] > q[p] \/ (z = p /\ s = "left") THEN q[z] + 1 ELSE q[z]]

MovedEnds(H, q, e, n, p, s) ==
  [sd \in Sides |-> [z \in H \cup {n} |->
     IF z = n THEN Where(q, p, s)
     ELSE IF e[sd][z] > q[p] \/ (sd = "right" /\ e[sd][z] = q[p]) THEN e[sd][z] + 1 ELSE e[sd][z]]]

\* n is the k-th.
Inserted(s, L, k, n) == [i \in 1..(L + 1) |-> IF i < k THEN s[i] ELSE IF i = k THEN n ELSE s[i - 1]]

\* z after that.
MovedAt(q, e, v, f, p, s, L, z) ==
  /\ q[z] \in 1..L /\ q[p] \in 1..L /\ (q[z] = q[p] => z = p)
  /\ e["left"][z] \in 1..L /\ e["right"][z] \in 1..L
  /\ e["left"][z] <= q[z] /\ q[z] <= e["right"][z]
  /\ v[z] = (IF q[z] > q[p] \/ (z = p /\ s = "left") THEN q[z] + 1 ELSE q[z])
  /\ f["left"][z] = (IF e["left"][z] > q[p] THEN e["left"][z] + 1 ELSE e["left"][z])
  /\ f["right"][z] = (IF e["right"][z] >= q[p] THEN e["right"][z] + 1 ELSE e["right"][z])

LEMMA MovedNumbers ==
  ASSUME NEW t, NEW H, NEW r, NEW q, NEW e, NEW L, Placed(t, H, q, e, L), Listed(r, q, H, L),
         NEW n, NEW p, NEW s, NewLeaf(t, H, n, p, s), NEW z \in H
  PROVE  MovedAt(q, e, Moved(H, q, n, p, s), MovedEnds(H, q, e, n, p, s), p, s, L, z)
<1>1. z # n /\ p \in H
  BY DEF NewLeaf
<1>2. q[z] \in 1..L /\ q[p] \in 1..L /\ e["left"][z] \in 1..L /\ e["right"][z] \in 1..L
      /\ e["left"][z] <= q[z] /\ q[z] <= e["right"][z]
  BY <1>1, PlacesAreNumbers
<1>3. q[z] = q[p] => z = p
  BY <1>1 DEF Listed
<1>4. Moved(H, q, n, p, s)[z] = (IF q[z] > q[p] \/ (z = p /\ s = "left") THEN q[z] + 1 ELSE q[z])
  BY <1>1 DEF Moved
<1>5. MovedEnds(H, q, e, n, p, s)["left"][z] = (IF e["left"][z] > q[p] THEN e["left"][z] + 1 ELSE e["left"][z])
  BY <1>1 DEF MovedEnds, Sides
<1>6. MovedEnds(H, q, e, n, p, s)["right"][z] = (IF e["right"][z] >= q[p] THEN e["right"][z] + 1 ELSE e["right"][z])
  <2>1. MovedEnds(H, q, e, n, p, s)["right"][z]
          = (IF e["right"][z] > q[p] \/ e["right"][z] = q[p] THEN e["right"][z] + 1 ELSE e["right"][z])
    BY <1>1 DEF MovedEnds, Sides
  <2> QED
    BY <1>2, <2>1
<1> QED
  BY <1>2, <1>3, <1>4, <1>5, <1>6 DEF MovedAt

LEMMA LeafIsPlaced ==
  ASSUME NEW t, NEW u, NEW H, NEW r, NEW q, NEW e, NEW L, Placed(t, H, q, e, L), Listed(r, q, H, L),
         NEW n, NEW p, NEW s, NewLeaf(t, H, n, p, s), Attached(t, u, n, p, s)
  PROVE  Placed(u, H \cup {n}, Moved(H, q, n, p, s), MovedEnds(H, q, e, n, p, s), L + 1)
<1>1. PICK v : v = Moved(H, q, n, p, s)
  OBVIOUS
<1>2. PICK f : f = MovedEnds(H, q, e, n, p, s)
  OBVIOUS
<1>3. PICK k : k = Where(q, p, s)
  OBVIOUS
<1>4. n \in Nodes /\ n \notin H /\ p \in H /\ s \in Sides /\ t.child[s][p] = NULL
  BY DEF NewLeaf
<1>5. H \subseteq Nodes /\ H \subseteq Spots /\ NULL \notin H /\ mAnchor \notin H /\ n # NULL /\ n # mAnchor
      /\ mAnchor \in Spots /\ n \in Spots /\ L \in Nat /\ Root(t) \in H
  BY <1>4, SpotsAreNumbers DEF Placed, Spots
<1>6. /\ u \in Trees
      /\ \A sd \in Sides, z \in H : u.child[sd][z] = IF z = p /\ sd = s THEN n ELSE t.child[sd][z]
      /\ \A z \in H : u.parent[z] = t.parent[z]
      /\ u.parent[n] = p /\ u.parent[mAnchor] = t.parent[mAnchor]
  <2>1. p # mAnchor /\ p # n
    BY <1>4, <1>5
  <2> QED
    BY <1>4, <1>5, <2>1 DEF Attached
<1>7. \A sd \in Sides : u.child[sd][n] = t.child[sd][n]
  <2>1. p # mAnchor /\ p # n
    BY <1>4, <1>5
  <2> QED
    BY <1>4, <1>5, <2>1 DEF Attached
<1>8. q[p] \in 1..L /\ k \in 1..(L + 1) /\ k = (IF s = "left" THEN q[p] ELSE q[p] + 1)
  BY <1>3, <1>4, PlacesAreNumbers DEF Where
<1>9. v[n] = k /\ \A sd \in Sides : f[sd][n] = k
  BY <1>1, <1>2, <1>3 DEF Moved, MovedEnds
<1>10. ASSUME NEW z \in H
       PROVE  /\ q[z] \in 1..L /\ (q[z] = q[p] => z = p)
              /\ e["left"][z] \in 1..L /\ e["right"][z] \in 1..L
              /\ e["left"][z] <= q[z] /\ q[z] <= e["right"][z]
              /\ v[z] = (IF q[z] > q[p] \/ (z = p /\ s = "left") THEN q[z] + 1 ELSE q[z])
              /\ f["left"][z] = (IF e["left"][z] > q[p] THEN e["left"][z] + 1 ELSE e["left"][z])
              /\ f["right"][z] = (IF e["right"][z] >= q[p] THEN e["right"][z] + 1 ELSE e["right"][z])
  <2>1. MovedAt(q, e, v, f, p, s, L, z)
    BY <1>1, <1>2, MovedNumbers
  <2> QED
    BY <2>1 DEF MovedAt
<1>11. ASSUME NEW z \in H PROVE v[z] \in 1..(L + 1) /\ f["left"][z] \in 1..(L + 1) /\ f["right"][z] \in 1..(L + 1) /\ Around(v, f, z)
  <2>1. /\ q[z] \in 1..L /\ (q[z] = q[p] => z = p)
        /\ e["left"][z] \in 1..L /\ e["right"][z] \in 1..L
        /\ e["left"][z] <= q[z] /\ q[z] <= e["right"][z]
        /\ v[z] = (IF q[z] > q[p] \/ (z = p /\ s = "left") THEN q[z] + 1 ELSE q[z])
        /\ f["left"][z] = (IF e["left"][z] > q[p] THEN e["left"][z] + 1 ELSE e["left"][z])
        /\ f["right"][z] = (IF e["right"][z] >= q[p] THEN e["right"][z] + 1 ELSE e["right"][z])
    BY <1>10
  <2> QED
    BY <1>5, <1>8, <2>1 DEF Around
<1>12. v \in [H \cup {n} -> 1..(L + 1)]
  BY <1>1, <1>8, <1>9, <1>11 DEF Moved
<1>13. f \in [Sides -> [H \cup {n} -> 1..(L + 1)]]
  <2>1. \A sd \in Sides, z \in H \cup {n} : f[sd][z] \in 1..(L + 1)
    BY <1>8, <1>9, <1>11 DEF Sides
  <2> QED
    BY <1>2, <2>1 DEF MovedEnds
<1>14. Around(v, f, n)
  BY <1>8, <1>9 DEF Around, Sides
<1>15. ASSUME NEW x \in H, NEW sd \in Sides PROVE Arm(u, H \cup {n}, v, f, x, sd)
  <2>1. Arm(t, H, q, e, x, sd)
    BY DEF Placed
  <2>2. /\ q[x] \in 1..L /\ (q[x] = q[p] => x = p)
        /\ e["left"][x] \in 1..L /\ e["right"][x] \in 1..L
        /\ e["left"][x] <= q[x] /\ q[x] <= e["right"][x]
        /\ v[x] = (IF q[x] > q[p] \/ (x = p /\ s = "left") THEN q[x] + 1 ELSE q[x])
        /\ f["left"][x] = (IF e["left"][x] > q[p] THEN e["left"][x] + 1 ELSE e["left"][x])
        /\ f["right"][x] = (IF e["right"][x] >= q[p] THEN e["right"][x] + 1 ELSE e["right"][x])
    BY <1>10
  <2>3. sd = "left" \/ sd = "right"
    BY DEF Sides
  <2>4. CASE x = p /\ sd = s
    <3>1. u.child[sd][x] = n /\ u.parent[n] = x /\ n # NULL
      BY <1>5, <1>6, <2>4
    <3>2. e[sd][x] = q[x]
      BY <1>4, <2>1, <2>4 DEF Arm
    <3>3. f[sd][n] = f[sd][x]
      BY <1>5, <1>8, <1>9, <2>2, <2>3, <2>4, <3>2
    <3>4. f[Other(sd)][n] = v[x] + Dir(sd)
      BY <1>5, <1>8, <1>9, <2>2, <2>3, <2>4, <3>2 DEF Dir, Other, Sides
    <3> QED
      BY <3>1, <3>3, <3>4 DEF Arm
  <2>5. CASE ~(x = p /\ sd = s)
    <3>1. u.child[sd][x] = t.child[sd][x]
      BY <1>6, <2>5
    <3>2. CASE t.child[sd][x] = NULL
      <4>1. e[sd][x] = q[x]
        BY <2>1, <3>2 DEF Arm
      <4>2. f[sd][x] = v[x]
        BY <1>8, <2>2, <2>3, <2>5, <4>1, <1>4 DEF Sides
      <4> QED
        BY <3>1, <3>2, <4>2 DEF Arm
    <3>3. CASE t.child[sd][x] # NULL
      <4>1. PICK c : c = t.child[sd][x]
        OBVIOUS
      <4>2. c \in H /\ t.parent[c] = x /\ e[sd][c] = e[sd][x] /\ e[Other(sd)][c] = q[x] + Dir(sd)
        BY <2>1, <3>3, <4>1 DEF Arm
      <4>3. /\ e["left"][c] \in 1..L /\ e["right"][c] \in 1..L
            /\ f["left"][c] = (IF e["left"][c] > q[p] THEN e["left"][c] + 1 ELSE e["left"][c])
            /\ f["right"][c] = (IF e["right"][c] >= q[p] THEN e["right"][c] + 1 ELSE e["right"][c])
        BY <1>10, <4>2
      <4>4. f[sd][c] = f[sd][x]
        BY <2>2, <2>3, <4>2, <4>3
      <4>5. f[Other(sd)][c] = v[x] + Dir(sd)
        <5>1. CASE sd = "left"
          <6>1. e["right"][c] = q[x] - 1
            BY <1>5, <2>2, <4>2, <5>1 DEF Dir, Other
          <6>2. f["right"][c] = v[x] - 1
            BY <1>4, <1>8, <2>2, <2>5, <4>3, <5>1, <6>1
          <6> QED
            BY <2>2, <5>1, <6>2 DEF Dir, Other
        <5>2. CASE sd = "right"
          <6>1. e["left"][c] = q[x] + 1
            BY <1>5, <2>2, <4>2, <5>2 DEF Dir, Other
          <6>2. f["left"][c] = v[x] + 1
            BY <1>4, <1>8, <2>2, <2>5, <4>3, <5>2, <6>1 DEF Sides
          <6> QED
            BY <2>2, <5>2, <6>2 DEF Dir, Other
        <5> QED
          BY <2>3, <5>1, <5>2
      <4> QED
        BY <1>6, <3>1, <3>3, <4>1, <4>2, <4>4, <4>5 DEF Arm
    <3> QED
      BY <3>2, <3>3
  <2> QED
    BY <2>4, <2>5
<1>16. \A sd \in Sides : Arm(u, H \cup {n}, v, f, n, sd)
  <2>1. \A sd \in Sides : t.child[sd][n] = NULL
    BY DEF NewLeaf, Apart
  <2> QED
    BY <1>7, <1>9, <2>1 DEF Arm
<1>17. Root(u) = Root(t)
  BY <1>6 DEF Root
<1>18. ASSUME NEW x \in H PROVE Hangs(u, H \cup {n}, f, L + 1, x)
  <2>1. Hangs(t, H, e, L, x)
    BY DEF Placed
  <2>2. CASE x = Root(t)
    <3>1. t.parent[x] = mAnchor /\ e["left"][x] = 1 /\ e["right"][x] = L
      BY <2>1, <2>2 DEF Hangs
    <3>2. f["left"][x] = 1 /\ f["right"][x] = L + 1
      <4>1. /\ f["left"][x] = (IF e["left"][x] > q[p] THEN e["left"][x] + 1 ELSE e["left"][x])
            /\ f["right"][x] = (IF e["right"][x] >= q[p] THEN e["right"][x] + 1 ELSE e["right"][x])
        BY <1>10
      <4> QED
        BY <1>8, <3>1, <4>1
    <3> QED
      BY <1>6, <1>17, <2>2, <3>1, <3>2 DEF Hangs
  <2>3. CASE x # Root(t)
    <3>1. t.parent[x] \in H
      BY <2>1, <2>3 DEF Hangs
    <3>2. PICK sd \in Sides : x = t.child[sd][t.parent[x]]
      BY <2>1, <2>3 DEF Hangs
    <3>3. ~(t.parent[x] = p /\ sd = s)
      BY <1>4, <1>5, <3>2
    <3>4. u.child[sd][t.parent[x]] = x
      BY <1>6, <3>1, <3>2, <3>3
    <3> QED
      BY <1>6, <1>17, <2>3, <3>1, <3>4 DEF Hangs
  <2> QED
    BY <2>2, <2>3
<1>19. Hangs(u, H \cup {n}, f, L + 1, n)
  <2>1. n # Root(u)
    BY <1>4, <1>5, <1>17
  <2>2. u.child[s][p] = n
    BY <1>4, <1>6
  <2> QED
    BY <1>4, <1>6, <2>1, <2>2 DEF Hangs
<1> QED
  <2>1. H \cup {n} \subseteq Nodes /\ L + 1 \in Nat /\ H \cup {n} # {} /\ Root(u) \in H \cup {n}
    BY <1>4, <1>5, <1>17
  <2>2. Placed(u, H \cup {n}, v, f, L + 1)
    BY <1>6, <1>11, <1>12, <1>13, <1>14, <1>15, <1>16, <1>18, <1>19, <2>1 DEF Placed
  <2> QED
    BY <1>1, <1>2, <2>2

LEMMA LeafIsListed ==
  ASSUME NEW t, NEW H, NEW r, NEW q, NEW e, NEW L, Placed(t, H, q, e, L), Listed(r, q, H, L),
         NEW n, NEW p, NEW s, NewLeaf(t, H, n, p, s)
  PROVE  Listed(Inserted(r, L, Where(q, p, s), n), Moved(H, q, n, p, s), H \cup {n}, L + 1)
<1>1. PICK v : v = Moved(H, q, n, p, s)
  OBVIOUS
<1>2. PICK k : k = Where(q, p, s)
  OBVIOUS
<1>3. PICK w : w = Inserted(r, L, k, n)
  OBVIOUS
<1>4. n \notin H /\ p \in H /\ s \in Sides /\ L \in Nat
  BY DEF NewLeaf, Placed
<1>5. q[p] \in 1..L /\ k \in 1..(L + 1) /\ k = (IF s = "left" THEN q[p] ELSE q[p] + 1)
  BY <1>2, <1>4, PlacesAreNumbers DEF Where
<1>6. v[n] = k /\ v = [z \in H \cup {n} |-> v[z]]
  BY <1>1, <1>2 DEF Moved
<1>7. ASSUME NEW z \in H PROVE q[z] \in 1..L /\ v[z] = (IF q[z] >= k THEN q[z] + 1 ELSE q[z])
  <2>1. MovedAt(q, e, v, MovedEnds(H, q, e, n, p, s), p, s, L, z)
    BY <1>1, MovedNumbers
  <2>2. q[z] \in 1..L /\ (q[z] = q[p] => z = p)
        /\ v[z] = (IF q[z] > q[p] \/ (z = p /\ s = "left") THEN q[z] + 1 ELSE q[z])
    BY <2>1 DEF MovedAt
  <2> QED
    BY <1>5, <2>2
<1>8. \A i \in 1..(L + 1) : w[i] = IF i < k THEN r[i] ELSE IF i = k THEN n ELSE r[i - 1]
  BY <1>3 DEF Inserted
<1>9. r \in [1..L -> H] /\ q \in [H -> 1..L] /\ (\A i \in 1..L : q[r[i]] = i) /\ \A x \in H : r[q[x]] = x
  BY DEF Listed
<1>10. ASSUME NEW i \in 1..(L + 1) PROVE w[i] \in H \cup {n} /\ v[w[i]] = i
  <2>1. CASE i < k
    <3>1. i \in 1..L /\ w[i] = r[i]
      BY <1>4, <1>5, <1>8, <2>1
    <3>2. r[i] \in H /\ q[r[i]] = i
      BY <1>9, <3>1
    <3> QED
      BY <1>5, <1>7, <2>1, <3>1, <3>2
  <2>2. CASE i = k
    <3>1. w[i] = n
      BY <1>5, <1>8, <2>2
    <3> QED
      BY <1>6, <2>2, <3>1
  <2>3. CASE i > k
    <3>1. i - 1 \in 1..L /\ w[i] = r[i - 1]
      BY <1>4, <1>5, <1>8, <2>3
    <3>2. r[i - 1] \in H /\ q[r[i - 1]] = i - 1
      BY <1>9, <3>1
    <3> QED
      BY <1>5, <1>7, <2>3, <3>1, <3>2
  <2> QED
    BY <1>5, <2>1, <2>2, <2>3
<1>11. ASSUME NEW x \in H \cup {n} PROVE v[x] \in 1..(L + 1) /\ w[v[x]] = x
  <2>1. CASE x = n
    BY <1>5, <1>6, <1>8, <2>1
  <2>2. CASE x \in H
    <3>1. q[x] \in 1..L /\ v[x] = (IF q[x] >= k THEN q[x] + 1 ELSE q[x]) /\ r[q[x]] = x
      BY <1>7, <1>9, <2>2
    <3>2. CASE q[x] >= k
      <4>1. v[x] = q[x] + 1 /\ v[x] \in 1..(L + 1) /\ ~(v[x] < k) /\ v[x] # k /\ v[x] - 1 = q[x]
        BY <1>4, <1>5, <3>1, <3>2
      <4> QED
        BY <1>8, <3>1, <4>1
    <3>3. CASE ~(q[x] >= k)
      <4>1. v[x] = q[x] /\ v[x] \in 1..(L + 1) /\ v[x] < k
        BY <1>4, <1>5, <3>1, <3>3
      <4> QED
        BY <1>8, <3>1, <4>1
    <3> QED
      BY <3>2, <3>3
  <2> QED
    BY <2>1, <2>2
<1>12. w \in [1..(L + 1) -> H \cup {n}]
  BY <1>3, <1>10 DEF Inserted
<1>13. v \in [H \cup {n} -> 1..(L + 1)]
  BY <1>6, <1>11
<1>14. Listed(w, v, H \cup {n}, L + 1)
  BY <1>10, <1>11, <1>12, <1>13 DEF Listed
<1> QED
  BY <1>1, <1>2, <1>3, <1>14

LEMMA LeafEnds ==
  ASSUME NEW t, NEW u, NEW H, NEW r, NEW q, NEW e, NEW L, Placed(t, H, q, e, L), Listed(r, q, H, L),
         Ends(t, H, q, L), Clean(t, H),
         NEW n, NEW p, NEW s, NewLeaf(t, H, n, p, s), Attached(t, u, n, p, s)
  PROVE  Ends(u, H \cup {n}, Moved(H, q, n, p, s), L + 1) /\ Clean(u, H \cup {n})
<1>1. PICK v : v = Moved(H, q, n, p, s)
  OBVIOUS
<1>4. n \in Nodes /\ n \notin H /\ p \in H /\ s \in Sides /\ L \in Nat /\ H \subseteq Nodes
  BY DEF NewLeaf, Placed
<1>5. mAnchor \in Spots /\ mAnchor \notin H /\ n # mAnchor /\ Nodes \subseteq Spots /\ mAnchor \notin Nodes
  BY <1>4, SpotsAreNumbers DEF Spots
<1>6. q[p] \in 1..L /\ v[n] = (IF s = "left" THEN q[p] ELSE q[p] + 1)
  BY <1>1, <1>4, PlacesAreNumbers DEF Where, Moved
<1>7. ASSUME NEW z \in H
      PROVE  q[z] \in 1..L /\ (q[z] = q[p] => z = p)
             /\ v[z] = (IF q[z] > q[p] \/ (z = p /\ s = "left") THEN q[z] + 1 ELSE q[z])
  <2>1. MovedAt(q, e, v, MovedEnds(H, q, e, n, p, s), p, s, L, z)
    BY <1>1, MovedNumbers
  <2> QED
    BY <2>1 DEF MovedAt
<1>8. /\ u.red = t.red \cup {n}
      /\ \A sd \in Sides, z \in Spots :
           u.child[sd][z] =
             IF z = p /\ sd = s THEN n
             ELSE IF z = mAnchor /\ (sd = s /\ p = t.child[s][mAnchor]) THEN n
             ELSE t.child[sd][z]
      /\ \A z \in Spots : u.parent[z] = IF z = n THEN p ELSE t.parent[z]
  <2>1. p # mAnchor
    BY <1>4, <1>5
  <2> QED
    BY <2>1 DEF Attached
<1>9. Clean(u, H \cup {n})
  <2>1. ASSUME NEW z \in Nodes, z \notin H \cup {n} PROVE Apart(u, z)
    <3>1. Apart(t, z) /\ z \in Spots /\ z # p /\ z # n /\ z # mAnchor
      BY <1>4, <1>5, <2>1 DEF Clean
    <3> QED
      BY <1>8, <3>1 DEF Apart
  <2>2. mAnchor \in u.red
    BY <1>8 DEF Clean
  <2> QED
    BY <2>1, <2>2 DEF Clean
<1>10. /\ t.child["left"][mAnchor] \in H /\ q[t.child["left"][mAnchor]] = 1
       /\ t.child["right"][mAnchor] \in H /\ q[t.child["right"][mAnchor]] = L
  BY <1>4 DEF Ends
<1>11. \A sd \in Sides : u.child[sd][mAnchor] = IF sd = s /\ p = t.child[s][mAnchor] THEN n ELSE t.child[sd][mAnchor]
  <2>1. p # mAnchor
    BY <1>4, <1>5
  <2> QED
    BY <1>5, <1>8, <2>1
<1>12. u.child["left"][mAnchor] \in H \cup {n} /\ v[u.child["left"][mAnchor]] = 1
  <2>1. PICK c : c = t.child["left"][mAnchor]
    OBVIOUS
  <2>2. c \in H /\ q[c] = 1
    BY <1>10, <2>1
  <2>3. CASE s = "left" /\ p = c
    BY <1>6, <1>11, <2>1, <2>2, <2>3 DEF Sides
  <2>4. CASE ~(s = "left" /\ p = c)
    <3>1. u.child["left"][mAnchor] = c
      BY <1>11, <2>1, <2>4 DEF Sides
    <3>2. v[c] = 1
      BY <1>6, <1>7, <2>2, <2>4
    <3> QED
      BY <2>2, <3>1, <3>2
  <2> QED
    BY <2>3, <2>4
<1>13. u.child["right"][mAnchor] \in H \cup {n} /\ v[u.child["right"][mAnchor]] = L + 1
  <2>1. PICK c : c = t.child["right"][mAnchor]
    OBVIOUS
  <2>2. c \in H /\ q[c] = L
    BY <1>10, <2>1
  <2>3. CASE s = "right" /\ p = c
    BY <1>6, <1>11, <2>1, <2>2, <2>3 DEF Sides
  <2>4. CASE ~(s = "right" /\ p = c)
    <3>1. u.child["right"][mAnchor] = c
      BY <1>11, <2>1, <2>4 DEF Sides
    <3>2. v[c] = L + 1
      <4>1. q[c] \in 1..L /\ (q[c] = q[p] => c = p)
            /\ v[c] = (IF q[c] > q[p] \/ (c = p /\ s = "left") THEN q[c] + 1 ELSE q[c])
        BY <1>7, <2>2
      <4>2. s = "left" \/ s = "right"
        BY <1>4 DEF Sides
      <4> QED
        BY <1>6, <2>2, <2>4, <4>1, <4>2
    <3> QED
      BY <2>2, <3>1, <3>2
  <2> QED
    BY <2>3, <2>4
<1>14. Ends(u, H \cup {n}, v, L + 1)
  BY <1>12, <1>13 DEF Ends
<1> QED
  BY <1>1, <1>9, <1>14

LEMMA LeafGrows ==
  ASSUME NEW t, NEW u, NEW H, NEW r, NEW q, NEW e, NEW b, NEW L, Arranged(t, H, r, q, e, b, L),
         NEW n, NEW p, NEW s, NewLeaf(t, H, n, p, s), Attached(t, u, n, p, s)
  PROVE  \E f : Growing(u, u, H \cup {n}, Moved(H, q, n, p, s), MovedEnds(H, q, e, n, p, s), f, L + 1, n)
<1>1. /\ Placed(t, H, q, e, L) /\ Listed(r, q, H, L) /\ Heights(t, H, b, mAnchor, "left")
      /\ NoRedRed(t, H, NULL) /\ Root(t) \notin t.red
  BY DEF Arranged
<1>2. Placed(u, H \cup {n}, Moved(H, q, n, p, s), MovedEnds(H, q, e, n, p, s), L + 1)
  BY <1>1, LeafIsPlaced
<1>4. n \in Nodes /\ n \notin H /\ p \in H /\ s \in Sides /\ t.child[s][p] = NULL /\ (\A sd \in Sides : t.child[sd][n] = NULL)
  BY DEF NewLeaf, Apart
<1>5. H \subseteq Nodes /\ H \subseteq Spots /\ NULL \notin H /\ mAnchor \notin H /\ n # NULL /\ n # mAnchor
      /\ mAnchor \in Spots /\ n \in Spots /\ Root(t) \in H
  BY <1>1, <1>4, SpotsAreNumbers DEF Placed, Spots
<1>6. /\ u.red = t.red \cup {n}
      /\ \A sd \in Sides, z \in H \cup {n} : u.child[sd][z] = IF z = p /\ sd = s THEN n ELSE t.child[sd][z]
      /\ u.parent[mAnchor] = t.parent[mAnchor]
  <2>1. p # mAnchor /\ p # n
    BY <1>4, <1>5
  <2> QED
    BY <1>4, <1>5, <2>1 DEF Attached
<1>7. Kept(u, u, H \cup {n})
  BY DEF Kept
<1>8. Root(u) = Root(t) /\ Root(t) # n
  BY <1>4, <1>5, <1>6 DEF Root
<1>9. b \in [H \cup {NULL} -> Nat] /\ b[NULL] = 0
  BY <1>1 DEF Heights
<1>10. PICK f : f = [z \in (H \cup {n}) \cup {NULL} |-> IF z = n THEN 0 ELSE b[z]]
  OBVIOUS
<1>11. f \in [(H \cup {n}) \cup {NULL} -> Nat] /\ f[NULL] = 0 /\ f[n] = 0 /\ \A z \in H \cup {NULL} : f[z] = b[z]
  BY <1>4, <1>5, <1>9, <1>10
<1>12. \A y \in H, sd \in Sides : t.child[sd][y] \in H \cup {NULL}
  BY <1>1, ChildIsHeld
<1>13. ASSUME NEW y \in H \cup {n}, NEW sd \in Sides
       PROVE  f[y] = f[u.child[sd][y]] + Weight(u, y) + Lack(mAnchor, "left", y, sd)
  <2>1. Lack(mAnchor, "left", y, sd) = 0
    BY <1>5 DEF Lack
  <2>2. CASE y = n
    <3>1. u.child[sd][y] = NULL /\ Weight(u, y) = 0
      BY <1>4, <1>6, <2>2 DEF Weight
    <3> QED
      BY <1>11, <2>1, <2>2, <3>1
  <2>3. CASE y \in H
    <3>1. Weight(u, y) = Weight(t, y)
      BY <1>4, <1>6, <2>3 DEF Weight
    <3>2. f[u.child[sd][y]] = b[t.child[sd][y]]
      BY <1>4, <1>6, <1>9, <1>11, <1>12, <2>3
    <3>3. b[y] = b[t.child[sd][y]] + Weight(t, y) + Lack(mAnchor, "left", y, sd)
      BY <1>1, <2>3 DEF Heights
    <3> QED
      BY <1>11, <2>3, <3>1, <3>2, <3>3
  <2> QED
    BY <2>2, <2>3
<1>14. ASSUME NEW y \in H \cup {n}, NEW sd \in Sides, y \in u.red, u.child[sd][y] \in u.red
       PROVE  u.child[sd][y] = n
  <2>1. SUFFICES ASSUME u.child[sd][y] # n PROVE FALSE
    OBVIOUS
  <2>2. u.child[sd][y] = t.child[sd][y] /\ t.child[sd][y] \in t.red
    BY <1>6, <1>14, <2>1
  <2>3. y # n
    <3>1. NULL \notin t.red
      BY <1>1, SpotsAreNumbers DEF Placed, Trees
    <3> QED
      BY <1>4, <2>2, <3>1
  <2>4. y \in H /\ y \in t.red
    BY <1>6, <1>14, <2>3
  <2>5. t.child[sd][y] # NULL /\ y # NULL
    BY <1>1, <1>5, <2>2, <2>4, SpotsAreNumbers DEF Placed, Trees
  <2> QED
    BY <1>1, <2>2, <2>4, <2>5 DEF NoRedRed, Fine
<1>15. Heights(u, H \cup {n}, f, mAnchor, "left")
  BY <1>11, <1>13 DEF Heights
<1>16. n \in u.red /\ Root(u) \notin u.red
  BY <1>1, <1>6, <1>8
<1>17. Growing(u, u, H \cup {n}, Moved(H, q, n, p, s), MovedEnds(H, q, e, n, p, s), f, L + 1, n)
  BY <1>2, <1>7, <1>14, <1>15, <1>16 DEF Growing
<1> QED
  BY <1>17

\* The first node of all.
LEMMA FirstLeaf ==
  ASSUME NEW t, NEW u, NEW r, NEW q, NEW e, NEW b, Arranged(t, {}, r, q, e, b, 0), NEW n \in Nodes,
         Attached(t, u, n, mAnchor, "left")
  PROVE  \E v, f, c : /\ Growing(u, u, {n}, v, f, c, 1, n) /\ Listed([i \in 1..1 |-> n], v, {n}, 1)
                      /\ Ends(u, {n}, v, 1) /\ Clean(u, {n})
<1>1. Placed(t, {}, q, e, 0) /\ Clean(t, {}) /\ Ends(t, {}, q, 0)
  BY DEF Arranged
<1>2. n # NULL /\ n # mAnchor /\ mAnchor \in Spots /\ n \in Spots /\ Nodes \subseteq Spots /\ NULL # mAnchor /\ mAnchor \notin Nodes
  BY SpotsAreNumbers DEF Spots
<1>3. Apart(t, n)
  BY <1>1 DEF Clean
<1>4. /\ u \in Trees /\ u.red = t.red \cup {n}
      /\ \A sd \in Sides : u.child[sd][n] = NULL /\ u.child[sd][mAnchor] = n
      /\ u.parent[n] = mAnchor /\ u.parent[mAnchor] = n
      /\ \A z \in Nodes \ {n} : u.parent[z] = t.parent[z] /\ \A sd \in Sides : u.child[sd][z] = t.child[sd][z]
  BY <1>2, <1>3 DEF Attached, Apart
<1>5. PICK v : v = [z \in {n} |-> 1]
  OBVIOUS
<1>6. PICK f : f = [sd \in Sides |-> [z \in {n} |-> 1]]
  OBVIOUS
<1>7. PICK c : c = [z \in {n} \cup {NULL} |-> 0]
  OBVIOUS
<1>8. v \in [{n} -> 1..1] /\ v[n] = 1 /\ f \in [Sides -> [{n} -> 1..1]] /\ (\A sd \in Sides : f[sd][n] = 1)
      /\ c \in [{n} \cup {NULL} -> Nat] /\ c[n] = 0 /\ c[NULL] = 0
  BY <1>5, <1>6, <1>7
<1>9. Root(u) = n
  BY <1>4 DEF Root
<1>10. Placed(u, {n}, v, f, 1)
  <2>1. Around(v, f, n)
    BY <1>8 DEF Around, Sides
  <2>2. \A sd \in Sides : Arm(u, {n}, v, f, n, sd)
    BY <1>4, <1>8 DEF Arm
  <2>3. Hangs(u, {n}, f, 1, n)
    BY <1>4, <1>8, <1>9 DEF Hangs, Sides
  <2> QED
    BY <1>4, <1>8, <1>9, <2>1, <2>2, <2>3 DEF Placed
<1>11. Heights(u, {n}, c, mAnchor, "left")
  <2>1. \A sd \in Sides : c[n] = c[u.child[sd][n]] + Weight(u, n) + Lack(mAnchor, "left", n, sd)
    BY <1>2, <1>4, <1>8 DEF Weight, Lack
  <2> QED
    BY <1>8, <2>1 DEF Heights
<1>12. Kept(u, u, {n})
  BY DEF Kept
<1>13. \A y \in {n}, sd \in Sides : y \in u.red /\ u.child[sd][y] \in u.red => u.child[sd][y] = n
  <2>1. NULL \notin u.red
    BY <1>4, SpotsAreNumbers DEF Trees
  <2> QED
    BY <1>4, <2>1
<1>14. Growing(u, u, {n}, v, f, c, 1, n)
  BY <1>4, <1>9, <1>10, <1>11, <1>12, <1>13 DEF Growing
<1>15. Listed([i \in 1..1 |-> n], v, {n}, 1)
  BY <1>8 DEF Listed
<1>16. Ends(u, {n}, v, 1)
  BY <1>4, <1>8 DEF Ends, Sides
<1>17. Clean(u, {n})
  <2>1. ASSUME NEW z \in Nodes \ {n} PROVE Apart(u, z)
    <3>1. Apart(t, z)
      BY <1>1, <2>1 DEF Clean
    <3> QED
      BY <1>4, <2>1, <3>1 DEF Apart
  <2>2. mAnchor \in u.red
    BY <1>1, <1>4 DEF Clean
  <2> QED
    BY <2>1, <2>2 DEF Clean
<1> QED
  BY <1>14, <1>15, <1>16, <1>17

\* What a rebalancing of u, which is arranged but for its colours, gives.
LEMMA BalancedIsArranged ==
  ASSUME NEW u, NEW v, NEW H, H # {}, NEW r, NEW q, NEW L, Balanced(u, v, H, q, L), Listed(r, q, H, L),
         Ends(u, H, q, L), Clean(u, H), H \subseteq Nodes
  PROVE  Sound(v, H, r, L) /\ v.mnSize = u.mnSize
<1>1. PICK e, b : /\ Placed(v, H, q, e, L) /\ Heights(v, H, b, mAnchor, "left") /\ Kept(u, v, H)
                  /\ NoRedRed(v, H, NULL) /\ Root(v) \notin v.red
  BY DEF Balanced
<1>2. mAnchor \in Spots \ H /\ Nodes \ H \subseteq Spots \ H /\ mAnchor \notin Nodes
  BY SpotsAreNumbers DEF Spots
<1>3. Ends(v, H, q, L)
  <2>1. v.child["left"][mAnchor] = u.child["left"][mAnchor] /\ v.child["right"][mAnchor] = u.child["right"][mAnchor]
    BY <1>1, <1>2 DEF Kept, Sides
  <2> QED
    BY <2>1 DEF Ends
<1>4. Clean(v, H)
  <2>1. mAnchor \in v.red
    BY <1>1, <1>2 DEF Kept, Clean
  <2>2. ASSUME NEW z \in Nodes \ H PROVE Apart(v, z)
    <3>1. z \in Spots \ H /\ z # mAnchor /\ Apart(u, z)
      BY <1>2 DEF Clean
    <3> QED
      BY <1>1, <3>1 DEF Kept, Apart
  <2> QED
    BY <2>1, <2>2 DEF Clean
<1> QED
  BY <1>1, <1>3, <1>4 DEF Sound, Arranged, Kept

\* The k-th place of a tree is free below p on side s.
Gap(t, r, L, k, p, s) ==
  \/ L = 0 /\ k = 1 /\ p = mAnchor /\ s = "left"
  \/ k \in 1..L /\ p = r[k] /\ s = "left" /\ t.child[s][p] = NULL
  \/ k \in 2..(L + 1) /\ p = r[k - 1] /\ s = "right" /\ t.child[s][p] = NULL

LEMMA RBTreeInsertIs ==
  ASSUME NEW t, NEW H, NEW r, NEW L, Sound(t, H, r, L), NEW n \in Nodes \ H,
         NEW k, NEW p, NEW s, Gap(t, r, L, k, p, s)
  PROVE  /\ Sound(RBTreeInsert(t, n, p, s), H \cup {n}, Inserted(r, L, k, n), L + 1)
         /\ RBTreeInsert(t, n, p, s).mnSize = t.mnSize
<1>1. PICK q, e, b : Arranged(t, H, r, q, e, b, L)
  BY DEF Sound
<1>2. /\ Placed(t, H, q, e, L) /\ Listed(r, q, H, L) /\ Ends(t, H, q, L) /\ Clean(t, H)
      /\ t \in Trees /\ L \in Nat /\ H \subseteq Nodes
  BY <1>1 DEF Arranged, Placed
<1>3. PICK u : u = Attach(t, n, p, s)
  OBVIOUS
<1>4. \E v, f, c : /\ Growing(u, u, H \cup {n}, v, f, c, L + 1, n)
                   /\ Listed(Inserted(r, L, k, n), v, H \cup {n}, L + 1)
                   /\ Ends(u, H \cup {n}, v, L + 1) /\ Clean(u, H \cup {n}) /\ u.mnSize = t.mnSize
  <2>1. CASE L = 0 /\ k = 1 /\ p = mAnchor /\ s = "left"
    <3>1. H = {}
      BY <1>2, <2>1 DEF Listed
    <3>2. mAnchor \in Spots /\ n # mAnchor /\ s \in Sides
      BY <2>1, SpotsAreNumbers DEF Spots, Sides
    <3>3. Attached(t, u, n, mAnchor, "left")
      BY <1>2, <1>3, <2>1, <3>2, AttachIs
    <3>4. Arranged(t, {}, r, q, e, b, 0)
      BY <1>1, <2>1, <3>1
    <3>5. PICK v, f, c : /\ Growing(u, u, {n}, v, f, c, 1, n) /\ Listed([i \in 1..1 |-> n], v, {n}, 1)
                         /\ Ends(u, {n}, v, 1) /\ Clean(u, {n})
      BY <3>3, <3>4, FirstLeaf
    <3>6. Inserted(r, L, k, n) = [i \in 1..1 |-> n]
      BY <2>1 DEF Inserted
    <3>7. H \cup {n} = {n} /\ L + 1 = 1 /\ u.mnSize = t.mnSize
      BY <2>1, <3>1, <3>3 DEF Attached
    <3> QED
      BY <3>5, <3>6, <3>7
  <2>2. CASE \/ k \in 1..L /\ p = r[k] /\ s = "left" /\ t.child[s][p] = NULL
             \/ k \in 2..(L + 1) /\ p = r[k - 1] /\ s = "right" /\ t.child[s][p] = NULL
    <3>1. p \in H /\ s \in Sides /\ t.child[s][p] = NULL /\ k = Where(q, p, s)
      <4>1. CASE k \in 1..L /\ p = r[k] /\ s = "left" /\ t.child[s][p] = NULL
        BY <1>2, <4>1 DEF Listed, Where, Sides
      <4>2. CASE k \in 2..(L + 1) /\ p = r[k - 1] /\ s = "right" /\ t.child[s][p] = NULL
        <5>1. k - 1 \in 1..L
          BY <1>2, <4>2
        <5>2. p \in H /\ q[p] = k - 1
          BY <1>2, <4>2, <5>1 DEF Listed
        <5>3. k = q[p] + 1
          BY <4>2, <5>2
        <5> QED
          BY <4>2, <5>2, <5>3 DEF Where, Sides
      <4> QED
        BY <2>2, <4>1, <4>2
    <3>2. NewLeaf(t, H, n, p, s)
      BY <1>2, <3>1 DEF NewLeaf, Clean
    <3>3. p \in Spots /\ p # n
      BY <1>2, <3>1 DEF Spots
    <3>4. Attached(t, u, n, p, s)
      BY <1>2, <1>3, <3>1, <3>3, AttachIs
    <3>5. PICK c : Growing(u, u, H \cup {n}, Moved(H, q, n, p, s), MovedEnds(H, q, e, n, p, s), c, L + 1, n)
      BY <1>1, <3>2, <3>4, LeafGrows
    <3>6. Listed(Inserted(r, L, k, n), Moved(H, q, n, p, s), H \cup {n}, L + 1)
      BY <1>2, <3>1, <3>2, LeafIsListed
    <3>7. Ends(u, H \cup {n}, Moved(H, q, n, p, s), L + 1) /\ Clean(u, H \cup {n})
      BY <1>2, <3>2, <3>4, LeafEnds
    <3>8. u.mnSize = t.mnSize
      BY <3>4 DEF Attached
    <3> QED
      BY <3>5, <3>6, <3>7, <3>8
  <2> QED
    BY <2>1, <2>2 DEF Gap
<1>5. PICK v, f, c : /\ Growing(u, u, H \cup {n}, v, f, c, L + 1, n)
                     /\ Listed(Inserted(r, L, k, n), v, H \cup {n}, L + 1)
                     /\ Ends(u, H \cup {n}, v, L + 1) /\ Clean(u, H \cup {n}) /\ u.mnSize = t.mnSize
  BY <1>4
<1>6. H \cup {n} \subseteq Nodes /\ L + 1 \in Nat /\ H \cup {n} # {}
  BY <1>2
<1>7. L + 1 <= N
  BY <1>5, <1>6, NoMoreThanNodes
<1>8. PICK w : w = Repeated(Recolor, [tree |-> u, node |-> n]).tree
  OBVIOUS
<1>9. Grown(u, w, H \cup {n}, v, L + 1)
  BY <1>5, <1>7, <1>8, RecolorLoop
<1>10. Balanced(u, Black(w, Root(w)), H \cup {n}, v, L + 1)
  BY <1>6, <1>9, BlackRootIsBalanced
<1>11. RBTreeInsert(t, n, p, s) = Black(w, Root(w))
  BY <1>3, <1>8, Zenon DEF RBTreeInsert
<1>12. PICK z : z = Black(w, Root(w))
  OBVIOUS
<1>13. Balanced(u, z, H \cup {n}, v, L + 1)
  BY <1>10, <1>12
<1>14. Sound(z, H \cup {n}, Inserted(r, L, k, n), L + 1) /\ z.mnSize = u.mnSize
  BY <1>5, <1>6, <1>13, BalancedIsArranged
<1> QED
  BY <1>5, <1>11, <1>12, <1>14

-----------------------------------------------------------------------------
(* Walking through a tree.                                                   *)

LEMMA ChildIsSmaller ==
  ASSUME NEW t, NEW H, NEW q, NEW e, NEW L, Placed(t, H, q, e, L), NEW x \in H, NEW sd \in Sides,
         t.child[sd][x] # NULL
  PROVE  /\ t.child[sd][x] \in H /\ Size(e, t.child[sd][x]) < Size(e, x)
         /\ Size(e, t.child[sd][x]) \in Nat /\ e[sd][t.child[sd][x]] = e[sd][x]
         /\ e[Other(sd)][t.child[sd][x]] = q[x] + Dir(sd)
<1>1. PICK c : c = t.child[sd][x]
  OBVIOUS
<1>2. c \in H /\ Below(q, e, x, c, sd)
  BY <1>1, ChildIsBelow
<1>3. /\ q[x] \in Int /\ e["left"][x] \in Int /\ e["right"][x] \in Int
      /\ e["left"][x] <= q[x] /\ q[x] <= e["right"][x]
  BY PlacesAreNumbers
<1>4. /\ e["left"][c] \in Int /\ e["right"][c] \in Int /\ e["left"][c] <= e["right"][c]
  <2>1. /\ q[c] \in 1..L /\ e["left"][c] \in 1..L /\ e["right"][c] \in 1..L
        /\ e["left"][c] <= q[c] /\ q[c] <= e["right"][c]
    BY <1>2, PlacesAreNumbers
  <2> QED
    BY <2>1
<1>5. Size(e, c) < Size(e, x) /\ Size(e, c) \in Nat
  BY <1>2, <1>3, <1>4 DEF Below, Size
<1>6. e[sd][c] = e[sd][x] /\ e[Other(sd)][c] = q[x] + Dir(sd)
  <2>1. Arm(t, H, q, e, x, sd)
    BY DEF Placed
  <2> QED
    BY <1>1, <2>1 DEF Arm
<1> QED
  BY <1>1, <1>2, <1>5, <1>6

\* What is not of H may still lead to it.
LeadsIn(t, H, s) == \A m \in Nodes \ H : t.child[s][m] \in H \cup {NULL}

LastOf(t, s, f) == f = [m \in Nodes |-> IF t.child[s][m] = NULL THEN m ELSE f[t.child[s][m]]]

LEMMA OutermostIs ==
  ASSUME NEW t, NEW H, NEW r, NEW q, NEW e, NEW L, Placed(t, H, q, e, L), Listed(r, q, H, L),
         NEW s \in Sides, LeadsIn(t, H, s), NEW n \in H
  PROVE  Outermost(t, s, n) = r[e[s][n]] /\ t.child[s][r[e[s][n]]] = NULL
<1>1. PICK f : f = CHOOSE w : LastOf(t, s, w)
  OBVIOUS
<1>2. Outermost(t, s, n) = f[n]
  BY <1>1, Zenon DEF Outermost, LastOf
<1>3. H \subseteq Nodes /\ NULL \notin Nodes
  BY SpotsAreNumbers DEF Placed, Spots
<1>4. \A x \in H : r[q[x]] = x
  BY DEF Listed
<1>5. \A x \in H : /\ t.child[s][x] = NULL => e[s][x] = q[x]
                   /\ t.child[s][x] # NULL => t.child[s][x] \in H /\ e[s][t.child[s][x]] = e[s][x]
                                              /\ Size(e, t.child[s][x]) < Size(e, x)
  <2>1. ASSUME NEW x \in H, t.child[s][x] = NULL PROVE e[s][x] = q[x]
    <3>1. Arm(t, H, q, e, x, s)
      BY DEF Placed
    <3> QED
      BY <2>1, <3>1 DEF Arm
  <2> QED
    BY <2>1, ChildIsSmaller
<1>6. LastOf(t, s, f)
  <2>1. PICK g : g = [m \in Nodes |-> IF m \in H THEN r[e[s][m]]
                                      ELSE IF t.child[s][m] = NULL THEN m ELSE r[e[s][t.child[s][m]]]]
    OBVIOUS
  <2>2. ASSUME NEW m \in Nodes PROVE g[m] = IF t.child[s][m] = NULL THEN m ELSE g[t.child[s][m]]
    <3>1. CASE m \in H
      BY <1>3, <1>4, <1>5, <2>1, <3>1, Zenon
    <3>2. CASE m \notin H
      <4>1. t.child[s][m] \in H \cup {NULL}
        BY <3>2 DEF LeadsIn
      <4> QED
        BY <1>3, <2>1, <3>2, <4>1, Zenon
    <3> QED
      BY <3>1, <3>2
  <2>3. g = [m \in Nodes |-> IF t.child[s][m] = NULL THEN m ELSE g[t.child[s][m]]]
    BY <2>1, <2>2, Zenon
  <2>4. LastOf(t, s, g)
    BY <2>3 DEF LastOf
  <2> QED
    BY <1>1, <2>4, Zenon
<1>7. \A m \in Nodes : f[m] = IF t.child[s][m] = NULL THEN m ELSE f[t.child[s][m]]
  BY <1>6, Zenon DEF LastOf
<1>8. \A x \in H : Size(e, x) \in Nat
  <2>1. ASSUME NEW x \in H PROVE Size(e, x) \in Nat
    <3>1. /\ q[x] \in 1..L /\ e["left"][x] \in 1..L /\ e["right"][x] \in 1..L
          /\ e["left"][x] <= q[x] /\ q[x] <= e["right"][x]
      BY PlacesAreNumbers
    <3> QED
      BY <3>1 DEF Size
  <2> QED
    BY <2>1
<1> DEFINE I == {k \in Nat : \A x \in H : Size(e, x) < k => f[x] = r[e[s][x]] /\ t.child[s][f[x]] = NULL}
<1>9. 0 \in I
  BY <1>8
<1>10. ASSUME NEW k \in Nat, k \in I PROVE k + 1 \in I
  <2>1. ASSUME NEW x \in H, Size(e, x) < k + 1 PROVE f[x] = r[e[s][x]] /\ t.child[s][f[x]] = NULL
    <3>1. x \in Nodes /\ Size(e, x) \in Nat
      BY <1>3, <1>8
    <3>2. CASE t.child[s][x] = NULL
      BY <1>4, <1>5, <1>7, <3>1, <3>2
    <3>3. CASE t.child[s][x] # NULL
      <4>1. PICK c : c = t.child[s][x]
        OBVIOUS
      <4>2. c \in H /\ e[s][c] = e[s][x] /\ Size(e, c) < Size(e, x)
        BY <1>5, <3>3, <4>1
      <4>3. Size(e, c) < k
        BY <1>8, <2>1, <3>1, <4>2
      <4>4. f[c] = r[e[s][c]] /\ t.child[s][f[c]] = NULL
        BY <1>10, <4>2, <4>3
      <4> QED
        BY <1>7, <3>1, <3>3, <4>1, <4>2, <4>4
    <3> QED
      BY <3>2, <3>3
  <2> QED
    BY <2>1
<1>11. \A k \in Nat : k \in I
  <2> HIDE DEF I
  <2> QED
    BY <1>9, <1>10, SetInduction
<1>12. Size(e, n) + 1 \in I /\ Size(e, n) < Size(e, n) + 1
  BY <1>8, <1>11
<1> QED
  BY <1>2, <1>12

\* The outermost position on side s.
Far(L, s) == IF s = "left" THEN 1 ELSE L

\* The top of the way up from m along the children on side s.
Peak(t, r, e, L, s, m) ==
  IF m = mAnchor THEN mAnchor
  ELSE IF e[s][m] # Far(L, s) THEN t.child[Other(s)][r[e[s][m] + Dir(s)]]
  ELSE IF Root(t) = t.child[s][mAnchor] THEN mAnchor ELSE Root(t)

TopOf(t, s, D, f) == f = [m \in D |-> IF m = t.child[s][t.parent[m]] THEN f[t.parent[m]] ELSE m]

\* One step up.
LEMMA PeakAbove ==
  ASSUME NEW t, NEW H, NEW r, NEW q, NEW e, NEW L, Placed(t, H, q, e, L), Listed(r, q, H, L),
         NEW s \in Sides, NEW m \in H \cup {mAnchor}, H # {}
  PROVE  Peak(t, r, e, L, s, m) = IF m = t.child[s][t.parent[m]] THEN Peak(t, r, e, L, s, t.parent[m]) ELSE m
<1>1. H \subseteq Nodes /\ mAnchor \notin H /\ Root(t) \in H /\ NULL # mAnchor /\ L \in Nat
  <2>1. NULL # mAnchor
    BY DEF mAnchor, NULL
  <2> QED
    BY <2>1, SpotsAreNumbers DEF Placed
<1>2. CASE m = mAnchor
  <2>1. t.parent[m] = Root(t)
    BY <1>2 DEF Root
  <2>2. t.child[s][Root(t)] \in H \cup {NULL}
    BY <1>1, ChildIsHeld
  <2>3. m # t.child[s][t.parent[m]]
    BY <1>1, <1>2, <2>1, <2>2
  <2> QED
    BY <1>2, <2>3 DEF Peak
<1>3. CASE m \in H /\ m = Root(t)
  <2>1. t.parent[m] = mAnchor /\ e[s][m] = Far(L, s)
    <3>1. Hangs(t, H, e, L, m)
      BY <1>3 DEF Placed
    <3> QED
      BY <1>3, <3>1 DEF Hangs, Far, Sides
  <2> QED
    BY <1>1, <1>3, <2>1 DEF Peak
<1>4. CASE m \in H /\ m # Root(t)
  <2>1. PICK p : p = t.parent[m]
    OBVIOUS
  <2>2. p \in H /\ SideOf(t, m) \in Sides /\ m = t.child[SideOf(t, m)][p]
    BY <1>4, <2>1, ParentIsAbove
  <2>3. m # NULL /\ p # mAnchor /\ m # mAnchor
    BY <1>1, <1>4, <2>2, PlacesAreNumbers, Zenon
  <2>4. CASE m = t.child[s][p]
    <3>1. e[s][m] = e[s][p]
      BY <2>2, <2>3, <2>4, ChildIsSmaller, SMTT(60)
    <3> QED
      BY <2>1, <2>3, <2>4, <3>1, Zenon DEF Peak
  <2>5. CASE m # t.child[s][p]
    <3>1. SideOf(t, m) = Other(s) /\ Other(Other(s)) = s
      BY <2>2, <2>5 DEF Sides, Other
    <3>2. PICK o : o = Other(s)
      OBVIOUS
    <3>3. o \in Sides /\ m = t.child[o][p] /\ t.child[o][p] # NULL
      BY <2>2, <2>3, <3>1, <3>2
    <3>4. e[Other(o)][m] = q[p] + Dir(o)
      BY <2>2, <3>3, ChildIsSmaller
    <3>5. q[p] \in 1..L /\ r[q[p]] = p
      BY <2>2 DEF Listed, Placed
    <3>6. Dir(o) = -Dir(s) /\ Dir(s) \in {1, -1} /\ (s = "left" => Dir(s) = -1) /\ (s = "right" => Dir(s) = 1)
      BY <3>2 DEF Dir, Other, Sides
    <3>7. e[s][m] = q[p] - Dir(s)
      BY <3>1, <3>2, <3>4, <3>5, <3>6
    <3>8. e[s][m] + Dir(s) = q[p] /\ e[s][m] # Far(L, s)
      BY <1>1, <3>5, <3>6, <3>7 DEF Far, Sides
    <3> QED
      BY <2>1, <2>3, <2>5, <3>2, <3>3, <3>5, <3>8, Zenon DEF Peak
  <2> QED
    BY <2>4, <2>5
<1> QED
  BY <1>2, <1>3, <1>4

LEMMA HeldIs ==
  ASSUME NEW t, NEW H, NEW q, NEW e, NEW L, Placed(t, H, q, e, L), Clean(t, H)
  PROVE  Held(t) = H
<1>1. ASSUME NEW x \in H PROVE x \in Nodes /\ t.parent[x] # NULL
  <2>1. t.parent[x] \in Spots /\ x \in Nodes /\ NULL \notin Spots
    BY ParentIsAbove, PlacesAreNumbers, SpotsAreNumbers
  <2> QED
    BY <2>1
<1>2. \A x \in Nodes \ H : t.parent[x] = NULL
  BY DEF Clean, Apart
<1> QED
  BY <1>1, <1>2 DEF Held

LEMMA ClimbFromIs ==
  ASSUME NEW t, NEW H, NEW r, NEW q, NEW e, NEW L, Placed(t, H, q, e, L), Listed(r, q, H, L), Clean(t, H),
         NEW s \in Sides, NEW n \in H
  PROVE  ClimbFrom(t, s, n) = Peak(t, r, e, L, s, n) /\ ClimbFrom(t, s, n) \in H \cup {mAnchor}
<1>0. PICK D : D = H \cup {mAnchor}
  OBVIOUS
<1>1. PICK f : f = CHOOSE w : TopOf(t, s, D, w)
  OBVIOUS
<1>2. ClimbFrom(t, s, n) = f[n]
  <2>1. Held(t) \cup {mAnchor} = D
    BY <1>0, HeldIs
  <2>2. ClimbFrom(t, s, n) = (CHOOSE g : TopOf(t, s, Held(t) \cup {mAnchor}, g))[n]
    BY Zenon DEF ClimbFrom, TopOf
  <2> QED
    BY <1>1, <2>1, <2>2, Zenon
<1>3. ASSUME NEW m \in D
      PROVE  Peak(t, r, e, L, s, m) = IF m = t.child[s][t.parent[m]] THEN Peak(t, r, e, L, s, t.parent[m]) ELSE m
  <2>1. H # {} /\ m \in H \cup {mAnchor}
    BY <1>0
  <2> QED
    BY <2>1, PeakAbove
<1>4. ASSUME NEW m \in D PROVE t.parent[m] \in D
  <2>1. CASE m \in H
    BY <1>0, <2>1, ParentIsAbove
  <2>2. CASE m = mAnchor
    BY <1>0, <2>2 DEF Placed, Root
  <2> QED
    BY <1>0, <2>1, <2>2
<1>5. TopOf(t, s, D, f)
  <2>1. PICK g : g = [m \in D |-> Peak(t, r, e, L, s, m)]
    OBVIOUS
  <2>2. ASSUME NEW m \in D PROVE g[m] = IF m = t.child[s][t.parent[m]] THEN g[t.parent[m]] ELSE m
    BY <1>3, <1>4, <2>1
  <2>3. TopOf(t, s, D, g)
    <3>1. g = [m \in D |-> IF m = t.child[s][t.parent[m]] THEN g[t.parent[m]] ELSE m]
      BY <2>1, <2>2
    <3> QED
      BY <3>1 DEF TopOf
  <2> QED
    BY <1>1, <2>3, Zenon
<1>6. \A m \in D : f[m] = IF m = t.child[s][t.parent[m]] THEN f[t.parent[m]] ELSE m
  BY <1>5, Zenon DEF TopOf
<1>7. \A x \in H : Size(e, x) \in Nat /\ Size(e, x) < L
  <2>1. ASSUME NEW x \in H PROVE Size(e, x) \in Nat /\ Size(e, x) < L
    <3>1. /\ q[x] \in 1..L /\ e["left"][x] \in 1..L /\ e["right"][x] \in 1..L
          /\ e["left"][x] <= q[x] /\ q[x] <= e["right"][x] /\ L \in Nat
      BY PlacesAreNumbers
    <3> QED
      BY <3>1 DEF Size
  <2> QED
    BY <2>1
<1>8. L \in Nat /\ H # {} /\ mAnchor \notin H
  BY SpotsAreNumbers DEF Placed
<1>9. f[mAnchor] = Peak(t, r, e, L, s, mAnchor) /\ f[mAnchor] \in D
  <2>1. mAnchor \in D /\ t.parent[mAnchor] = Root(t) /\ Root(t) \in H
    BY <1>0, <1>8 DEF Root, Placed
  <2>2. t.child[s][Root(t)] \in H \cup {NULL} /\ NULL # mAnchor
    BY <2>1, ChildIsHeld DEF NULL, mAnchor
  <2>3. mAnchor # t.child[s][t.parent[mAnchor]]
    BY <1>8, <2>1, <2>2
  <2> QED
    BY <1>6, <2>1, <2>3 DEF Peak
<1> DEFINE I == {k \in Nat : \A x \in H : Size(e, x) >= L - k => f[x] = Peak(t, r, e, L, s, x) /\ f[x] \in D}
<1>10. 0 \in I
  BY <1>7, <1>8
<1>11. ASSUME NEW k \in Nat, k \in I PROVE k + 1 \in I
  <2>1. ASSUME NEW x \in H, Size(e, x) >= L - (k + 1) PROVE f[x] = Peak(t, r, e, L, s, x) /\ f[x] \in D
    <3>1. x \in D
      BY <1>0
    <3>2. f[t.parent[x]] = Peak(t, r, e, L, s, t.parent[x]) /\ f[t.parent[x]] \in D
      <4>1. CASE x = Root(t)
        <5>1. t.parent[x] = mAnchor
          BY <4>1, ParentIsAbove
        <5> QED
          BY <1>9, <5>1
      <4>2. CASE x # Root(t)
        <5>1. t.parent[x] \in H
          BY <4>2, ParentIsAbove
        <5>2. Size(e, t.parent[x]) >= Size(e, x) + 1
          BY <4>2, ParentIsLarger
        <5>3. Size(e, t.parent[x]) >= L - k
          BY <1>7, <1>8, <2>1, <5>1, <5>2
        <5> QED
          BY <1>11, <5>1, <5>3
      <4> QED
        BY <4>1, <4>2
    <3> QED
      BY <1>3, <1>6, <3>1, <3>2
  <2> QED
    BY <2>1
<1>12. \A k \in Nat : k \in I
  <2> HIDE DEF I
  <2> QED
    BY <1>10, <1>11, SetInduction
<1>13. L \in I /\ Size(e, n) >= L - L
  BY <1>7, <1>8, <1>12
<1> QED
  BY <1>0, <1>2, <1>13

LEMMA GrandchildDiffers ==
  ASSUME NEW t, NEW H, NEW q, NEW e, NEW L, Placed(t, H, q, e, L), NEW m \in H, m # Root(t), NEW sd \in Sides
  PROVE  t.child[sd][m] # t.parent[m]
<1>1. SUFFICES ASSUME t.child[sd][m] = t.parent[m] PROVE FALSE
  OBVIOUS
<1>2. PICK p : p = t.parent[m]
  OBVIOUS
<1>3. p \in H /\ p # NULL
  <2>1. p \in H
    BY <1>2, ParentIsAbove
  <2> QED
    BY <2>1, PlacesAreNumbers
<1>4. Size(e, p) >= Size(e, m) + 1 /\ Size(e, m) \in Nat
  BY <1>2, ParentIsLarger
<1>5. Size(e, p) < Size(e, m) /\ Size(e, p) \in Nat
  BY <1>1, <1>2, <1>3, ChildIsSmaller
<1> QED
  BY <1>4, <1>5

\* What walking needs of a tree.
Walkable(t, H, r, q, e, L) ==
  /\ Placed(t, H, q, e, L) /\ Listed(r, q, H, L) /\ Ends(t, H, q, L) /\ Clean(t, H)
  /\ Root(t) \notin t.red

LEMMA WalkableLeadsIn ==
  ASSUME NEW t, NEW H, Clean(t, H), NEW s \in Sides
  PROVE  LeadsIn(t, H, s)
  BY DEF Clean, Apart, LeadsIn

\* A node of r and its number.
LEMMA ListedNumbers ==
  ASSUME NEW r, NEW q, NEW H, NEW L, Listed(r, q, H, L)
  PROVE  /\ \A x \in H : q[x] \in 1..L /\ r[q[x]] = x
         /\ \A i \in 1..L : r[i] \in H /\ q[r[i]] = i
  BY DEF Listed

LEMMA IncrementIs ==
  ASSUME NEW t, NEW H, NEW r, NEW q, NEW e, NEW L, Walkable(t, H, r, q, e, L), NEW n \in H
  PROVE  RBTreeIncrement(t, n) = IF q[n] < L THEN r[q[n] + 1] ELSE mAnchor
<1>1. /\ Placed(t, H, q, e, L) /\ Listed(r, q, H, L) /\ Ends(t, H, q, L) /\ Clean(t, H)
  BY DEF Walkable
<1>2. "right" \in Sides /\ "left" \in Sides /\ Other("right") = "left" /\ Other("left") = "right"
      /\ Dir("right") = 1 /\ Dir("left") = -1 /\ Far(L, "right") = L
  BY DEF Sides, Other, Dir, Far
<1>3. mAnchor \notin H /\ Root(t) \in H /\ NULL # mAnchor /\ H \subseteq Nodes /\ NULL \notin H
  <2>1. NULL # mAnchor
    BY DEF mAnchor, NULL
  <2> QED
    BY <1>1, <2>1, SpotsAreNumbers DEF Placed, Spots
<1>4. q[n] \in 1..L /\ e["right"][n] \in 1..L /\ q[n] <= e["right"][n] /\ L \in Nat
  BY <1>1, PlacesAreNumbers
<1>5. CASE t.child["right"][n] # NULL
  <2>1. PICK c : c = t.child["right"][n]
    OBVIOUS
  <2>2. c \in H /\ Below(q, e, n, c, "right")
    BY <1>1, <1>2, <1>5, <2>1, ChildIsBelow
  <2>3. e["left"][c] = q[n] + 1 /\ e["left"][c] \in 1..L
    BY <1>1, <2>2, PlacesAreNumbers DEF Below
  <2>4. Outermost(t, "left", c) = r[q[n] + 1]
    BY <1>1, <1>2, <2>2, <2>3, OutermostIs, WalkableLeadsIn
  <2> QED
    BY <1>4, <1>5, <2>1, <2>3, <2>4 DEF RBTreeIncrement
<1>6. CASE t.child["right"][n] = NULL
  <2>1. e["right"][n] = q[n]
    <3>1. Arm(t, H, q, e, n, "right")
      BY <1>1, <1>2 DEF Placed
    <3> QED
      BY <1>6, <3>1 DEF Arm
  <2>2. PICK m : m = Peak(t, r, e, L, "right", n)
    OBVIOUS
  <2>3. ClimbFrom(t, "right", n) = m
    BY <1>1, <1>2, <2>2, ClimbFromIs
  <2>4. RBTreeIncrement(t, n) = IF t.child["right"][m] # t.parent[m] THEN t.parent[m] ELSE m
    BY <1>6, <2>3, Zenon DEF RBTreeIncrement
  <2>5. n # mAnchor
    BY <1>3
  <2>6. CASE q[n] < L
    <3>1. PICK p : p = r[q[n] + 1]
      OBVIOUS
    <3>2. p \in H /\ q[p] = q[n] + 1
      <4>1. q[n] + 1 \in 1..L
        BY <1>4, <2>6
      <4> QED
        BY <1>1, <3>1, <4>1, ListedNumbers
    <3>3. m = t.child["left"][p]
      <4>1. q[n] # L
        BY <1>4, <2>6
      <4> QED
        BY <1>2, <2>1, <2>2, <2>5, <3>1, <4>1 DEF Peak
    <3>4. m # NULL
      <4>1. m \in H \cup {mAnchor}
        BY <1>1, <1>2, <2>3, ClimbFromIs
      <4> QED
        BY <1>3, <4>1
    <3>5. m \in H /\ t.parent[m] = p
      BY <1>1, <1>2, <3>2, <3>3, <3>4, ChildIsBelow
    <3>6. t.child["right"][m] # p
      <4>1. m # Root(t)
        BY <1>1, <1>3, <3>2, <3>5, ParentIsAbove
      <4> QED
        BY <1>1, <1>2, <3>5, <4>1, GrandchildDiffers
    <3> QED
      BY <2>4, <2>6, <3>1, <3>5, <3>6
  <2>7. CASE q[n] = L
    <3>1. m = IF Root(t) = t.child["right"][mAnchor] THEN mAnchor ELSE Root(t)
      BY <1>2, <2>1, <2>2, <2>5, <2>7 DEF Peak
    <3>2. t.parent[mAnchor] = Root(t)
      BY DEF Root
    <3>3. t.parent[Root(t)] = mAnchor /\ t.child["right"][Root(t)] # mAnchor
      <4>1. t.child["right"][Root(t)] \in H \cup {NULL}
        BY <1>1, <1>2, <1>3, ChildIsHeld
      <4> QED
        BY <1>1, <1>3, <4>1, ParentIsAbove
    <3> QED
      BY <1>4, <2>4, <2>7, <3>1, <3>2, <3>3
  <2> QED
    BY <1>4, <2>6, <2>7
<1> QED
  BY <1>5, <1>6

LEMMA DecrementIs ==
  ASSUME NEW t, NEW H, NEW r, NEW q, NEW e, NEW L, Walkable(t, H, r, q, e, L), NEW n \in H, q[n] > 1
  PROVE  RBTreeDecrement(t, n) = r[q[n] - 1]
<1>1. /\ Placed(t, H, q, e, L) /\ Listed(r, q, H, L) /\ Ends(t, H, q, L) /\ Clean(t, H) /\ Root(t) \notin t.red
  BY DEF Walkable
<1>2. "right" \in Sides /\ "left" \in Sides /\ Other("right") = "left" /\ Other("left") = "right"
      /\ Dir("right") = 1 /\ Dir("left") = -1 /\ Far(L, "left") = 1
  BY DEF Sides, Other, Dir, Far
<1>3. mAnchor \notin H /\ Root(t) \in H /\ NULL # mAnchor /\ H \subseteq Nodes /\ NULL \notin H
  <2>1. NULL # mAnchor
    BY DEF mAnchor, NULL
  <2> QED
    BY <1>1, <2>1, SpotsAreNumbers DEF Placed, Spots
<1>4. q[n] \in 1..L /\ e["left"][n] \in 1..L /\ e["left"][n] <= q[n] /\ L \in Nat
  BY <1>1, PlacesAreNumbers
<1>5. ~(t.parent[n] # NULL /\ t.parent[t.parent[n]] = n /\ IsRed(t, n))
  <2>1. CASE n = Root(t)
    BY <1>1, <2>1 DEF IsRed
  <2>2. CASE n # Root(t)
    <3>1. PICK p : p = t.parent[n]
      OBVIOUS
    <3>2. p \in H
      BY <1>1, <2>2, <3>1, ParentIsAbove
    <3>3. t.parent[p] # n
      <4>1. CASE p = Root(t)
        BY <1>1, <1>3, <3>2, <4>1, ParentIsAbove
      <4>2. CASE p # Root(t)
        <5>1. Size(e, p) >= Size(e, n) + 1 /\ Size(e, n) \in Nat
          BY <1>1, <2>2, <3>1, ParentIsLarger
        <5>2. Size(e, t.parent[p]) >= Size(e, p) + 1 /\ Size(e, p) \in Nat
          BY <1>1, <3>2, <4>2, ParentIsLarger
        <5> QED
          BY <5>1, <5>2
      <4> QED
        BY <4>1, <4>2
    <3> QED
      BY <3>1, <3>3
  <2> QED
    BY <2>1, <2>2
<1>6. CASE t.child["left"][n] # NULL
  <2>1. PICK c : c = t.child["left"][n]
    OBVIOUS
  <2>2. c \in H /\ Below(q, e, n, c, "left")
    BY <1>1, <1>2, <1>6, <2>1, ChildIsBelow
  <2>3. e["right"][c] = q[n] - 1
    BY <2>2 DEF Below
  <2>4. Outermost(t, "right", c) = r[q[n] - 1]
    BY <1>1, <1>2, <2>2, <2>3, OutermostIs, WalkableLeadsIn
  <2> QED
    BY <1>5, <1>6, <2>1, <2>4, Zenon DEF RBTreeDecrement
<1>7. CASE t.child["left"][n] = NULL
  <2>1. e["left"][n] = q[n]
    <3>1. Arm(t, H, q, e, n, "left")
      BY <1>1, <1>2 DEF Placed
    <3> QED
      BY <1>7, <3>1 DEF Arm
  <2>2. PICK m : m = Peak(t, r, e, L, "left", n)
    OBVIOUS
  <2>3. ClimbFrom(t, "left", n) = m /\ m \in H \cup {mAnchor}
    BY <1>1, <1>2, <2>2, ClimbFromIs
  <2>4. RBTreeDecrement(t, n) = t.parent[m]
    BY <1>5, <1>7, <2>3, Zenon DEF RBTreeDecrement
  <2>5. PICK p : p = r[q[n] - 1]
    OBVIOUS
  <2>6. p \in H
    <3>1. q[n] - 1 \in 1..L
      BY <1>4
    <3> QED
      BY <1>1, <2>5, <3>1, ListedNumbers
  <2>7. m = t.child["right"][p]
    <3>1. n # mAnchor /\ q[n] # 1 /\ q[n] + -1 = q[n] - 1
      BY <1>3, <1>4
    <3> QED
      BY <1>2, <2>1, <2>2, <2>5, <3>1 DEF Peak
  <2>8. m # NULL
    BY <1>3, <2>3
  <2>9. t.parent[m] = p
    BY <1>1, <1>2, <2>6, <2>7, <2>8, ChildIsBelow
  <2> QED
    BY <2>4, <2>5, <2>9
<1> QED
  BY <1>6, <1>7

LEMMA DecrementAnchor ==
  ASSUME NEW t, NEW H, NEW r, NEW q, NEW e, NEW L, Walkable(t, H, r, q, e, L), H # {}
  PROVE  RBTreeDecrement(t, mAnchor) = r[L]
<1>1. /\ Placed(t, H, q, e, L) /\ Listed(r, q, H, L) /\ Ends(t, H, q, L) /\ Clean(t, H)
  BY DEF Walkable
<1>2. Root(t) \in H /\ Root(t) # NULL /\ t.parent[Root(t)] = mAnchor
  <2>1. Root(t) \in H
    BY <1>1 DEF Placed
  <2> QED
    BY <1>1, <2>1, ParentIsAbove, PlacesAreNumbers
<1>3. t.parent[mAnchor] = Root(t) /\ mAnchor \in t.red
  BY <1>1 DEF Root, Clean
<1>4. RBTreeDecrement(t, mAnchor) = t.child["right"][mAnchor]
  BY <1>2, <1>3 DEF RBTreeDecrement, IsRed
<1>5. t.child["right"][mAnchor] \in H /\ q[t.child["right"][mAnchor]] = L
  BY <1>1 DEF Ends
<1> QED
  BY <1>1, <1>4, <1>5, ListedNumbers

\* What there is from the i-th item on.
Suffix(r, L, i) == [j \in 1..((L - i) + 1) |-> r[(i + j) - 1]]

WalkFrom(t, D, f) ==
  f = [n \in D |-> IF n = mAnchor THEN <<>> ELSE <<n>> \o f[RBTreeIncrement(t, n)]]

LEMMA Longer ==
  ASSUME NEW H, NEW x \in H, NEW u \in Seq(H)
  PROVE  /\ <<x>> \o u \in Seq(H) /\ Len(<<x>> \o u) = Len(u) + 1 /\ (<<x>> \o u)[1] = x
         /\ \A j \in 2..(Len(u) + 1) : (<<x>> \o u)[j] = u[j - 1]
<1>1. <<x>> \in Seq(H) /\ Len(<<x>>) = 1 /\ <<x>>[1] = x
  OBVIOUS
<1>2. PICK a : a = <<x>>
  OBVIOUS
<1>3. PICK w : w = a \o u
  OBVIOUS
<1>4. a \in Seq(H) /\ Len(a) = 1 /\ a[1] = x /\ Len(u) \in Nat
  BY <1>1, <1>2
<1>5. w \in Seq(H) /\ Len(w) = Len(a) + Len(u)
      /\ \A j \in 1..(Len(a) + Len(u)) : w[j] = IF j <= Len(a) THEN a[j] ELSE u[j - Len(a)]
  BY <1>3, <1>4, ConcatProperties
<1>6. PICK m : m = Len(u)
  OBVIOUS
<1>7. w \in Seq(H) /\ Len(w) = m + 1 /\ m \in Nat /\ \A j \in 1..(m + 1) : w[j] = IF j <= 1 THEN a[j] ELSE u[j - 1]
  <2>1. 1 + m = m + 1 /\ m \in Nat
    BY <1>4, <1>6
  <2> QED
    BY <1>4, <1>5, <1>6, <2>1
<1>8. w[1] = x
  <2>1. 1 \in 1..(m + 1) /\ 1 <= 1
    BY <1>7
  <2> QED
    BY <1>4, <1>7, <2>1
<1>9. \A j \in 2..(m + 1) : w[j] = u[j - 1]
  <2>1. \A j \in 2..(m + 1) : j \in 1..(m + 1) /\ ~(j <= 1)
    BY <1>7
  <2> QED
    BY <1>7, <2>1
<1> QED
  BY <1>2, <1>3, <1>6, <1>7, <1>8, <1>9

LEMMA SuffixIs ==
  ASSUME NEW r, NEW L \in Nat, NEW H, r \in [1..L -> H], NEW i \in 1..L
  PROVE  Suffix(r, L, i) = <<r[i]>> \o Suffix(r, L, i + 1)
<1>1. PICK u : u = Suffix(r, L, i + 1)
  OBVIOUS
<1>2. PICK v : v = Suffix(r, L, i)
  OBVIOUS
<1>3. (L - (i + 1)) + 1 = L - i /\ L - i \in Nat /\ (L - i) + 1 \in Nat
  OBVIOUS
<1>4. u = [j \in 1..(L - i) |-> r[((i + 1) + j) - 1]]
  BY <1>1, <1>3 DEF Suffix
<1>5. u \in [1..(L - i) -> H]
  <2>1. \A j \in 1..(L - i) : ((i + 1) + j) - 1 \in 1..L
    OBVIOUS
  <2> QED
    BY <1>4, <2>1
<1>6. u \in Seq(H) /\ Len(u) = L - i
  BY <1>3, <1>5
<1>7. v = [j \in 1..((L - i) + 1) |-> r[(i + j) - 1]]
  BY <1>2 DEF Suffix
<1>8. v \in [1..((L - i) + 1) -> H]
  <2>1. \A j \in 1..((L - i) + 1) : (i + j) - 1 \in 1..L
    OBVIOUS
  <2> QED
    BY <1>7, <2>1
<1>9. v \in Seq(H) /\ Len(v) = (L - i) + 1
  BY <1>3, <1>8
<1>10. r[i] \in H
  OBVIOUS
<1>11. PICK w : w = <<r[i]>> \o u
  OBVIOUS
<1>12. w \in Seq(H) /\ Len(w) = (L - i) + 1 /\ w[1] = r[i] /\ \A j \in 2..((L - i) + 1) : w[j] = u[j - 1]
  BY <1>3, <1>6, <1>10, <1>11, Longer
<1>13. \A j \in 1..((L - i) + 1) : v[j] = w[j]
  <2>1. ASSUME NEW j \in 1..((L - i) + 1) PROVE v[j] = w[j]
    <3>1. CASE j = 1
      <4>1. (i + 1) - 1 = i /\ 1 \in 1..((L - i) + 1)
        BY <1>3
      <4> QED
        BY <1>7, <1>12, <3>1, <4>1
    <3>2. CASE j # 1
      <4>1. j \in 2..((L - i) + 1) /\ j - 1 \in 1..(L - i) /\ ((i + 1) + (j - 1)) - 1 = (i + j) - 1
        BY <3>2
      <4> QED
        BY <1>4, <1>7, <1>12, <4>1
    <3> QED
      BY <3>1, <3>2
  <2> QED
    BY <2>1
<1>14. v = w
  BY <1>9, <1>12, <1>13
<1> QED
  BY <1>1, <1>2, <1>11, <1>14

LEMMA InOrderIs ==
  ASSUME NEW t, NEW H, NEW r, NEW q, NEW e, NEW L, Walkable(t, H, r, q, e, L)
  PROVE  InOrder(t) = Suffix(r, L, 1)
<1>1. /\ Placed(t, H, q, e, L) /\ Listed(r, q, H, L) /\ Ends(t, H, q, L) /\ Clean(t, H)
  BY DEF Walkable
<1>2. PICK D : D = H \cup {mAnchor}
  OBVIOUS
<1>3. PICK f : f = CHOOSE w : WalkFrom(t, D, w)
  OBVIOUS
<1>4. InOrder(t) = f[t.child["left"][mAnchor]]
  <2>1. Held(t) \cup {mAnchor} = D
    BY <1>1, <1>2, HeldIs
  <2>2. InOrder(t) = (CHOOSE g : WalkFrom(t, Held(t) \cup {mAnchor}, g))[t.child["left"][mAnchor]]
    BY Zenon DEF InOrder, WalkFrom
  <2> QED
    BY <1>3, <2>1, <2>2, Zenon
<1>5. mAnchor \notin H /\ L \in Nat
  BY <1>1, SpotsAreNumbers DEF Placed
<1>6. (\A x \in H : q[x] \in 1..L /\ r[q[x]] = x) /\ (\A i \in 1..L : r[i] \in H /\ q[r[i]] = i) /\ r \in [1..L -> H]
  BY <1>1, ListedNumbers DEF Listed
<1>7. PICK g : g = [n \in D |-> IF n = mAnchor THEN <<>> ELSE Suffix(r, L, q[n])]
  OBVIOUS
<1>8. Suffix(r, L, L + 1) = <<>>
  <2>1. (L - (L + 1)) + 1 = 0
    BY <1>5
  <2>2. Suffix(r, L, L + 1) = [j \in 1..0 |-> r[((L + 1) + j) - 1]]
    BY <2>1 DEF Suffix
  <2> QED
    BY <2>2
<1>9. ASSUME NEW n \in H
      PROVE  /\ RBTreeIncrement(t, n) = IF q[n] < L THEN r[q[n] + 1] ELSE mAnchor
             /\ RBTreeIncrement(t, n) \in D
             /\ Suffix(r, L, q[n]) = <<n>> \o g[RBTreeIncrement(t, n)]
  <2>1. RBTreeIncrement(t, n) = IF q[n] < L THEN r[q[n] + 1] ELSE mAnchor
    BY IncrementIs
  <2>2. Suffix(r, L, q[n]) = <<r[q[n]]>> \o Suffix(r, L, q[n] + 1)
    BY <1>5, <1>6, SuffixIs
  <2>3. q[n] \in 1..L /\ r[q[n]] = n
    BY <1>6
  <2>4. CASE q[n] < L
    <3>1. q[n] + 1 \in 1..L
      BY <1>5, <2>3, <2>4
    <3>2. r[q[n] + 1] \in H /\ q[r[q[n] + 1]] = q[n] + 1
      BY <1>6, <3>1
    <3>3. g[r[q[n] + 1]] = Suffix(r, L, q[n] + 1)
      BY <1>2, <1>5, <1>7, <3>2
    <3> QED
      BY <1>2, <2>1, <2>2, <2>3, <2>4, <3>2, <3>3
  <2>5. CASE ~(q[n] < L)
    <3>1. q[n] = L
      BY <1>5, <2>3, <2>5
    <3>2. g[mAnchor] = <<>> /\ mAnchor \in D
      BY <1>2, <1>7
    <3> QED
      BY <1>8, <2>1, <2>2, <2>3, <2>5, <3>1, <3>2
  <2> QED
    BY <2>4, <2>5
<1>10. WalkFrom(t, D, f)
  <2>1. ASSUME NEW n \in D PROVE g[n] = IF n = mAnchor THEN <<>> ELSE <<n>> \o g[RBTreeIncrement(t, n)]
    <3>1. CASE n = mAnchor
      BY <1>7, <3>1
    <3>2. CASE n # mAnchor
      <4>1. n \in H /\ g[n] = Suffix(r, L, q[n])
        BY <1>2, <1>7, <3>2
      <4> QED
        BY <1>9, <3>2, <4>1
    <3> QED
      BY <3>1, <3>2
  <2>2. g = [n \in D |-> IF n = mAnchor THEN <<>> ELSE <<n>> \o g[RBTreeIncrement(t, n)]]
    BY <1>7, <2>1
  <2>3. WalkFrom(t, D, g)
    BY <2>2 DEF WalkFrom
  <2> QED
    BY <1>3, <2>3, Zenon
<1>11. \A n \in D : f[n] = IF n = mAnchor THEN <<>> ELSE <<n>> \o f[RBTreeIncrement(t, n)]
  BY <1>10, Zenon DEF WalkFrom
<1>12. f[mAnchor] = <<>> /\ g[mAnchor] = <<>> /\ mAnchor \in D
  BY <1>2, <1>7, <1>11
<1> DEFINE I == {k \in Nat : \A x \in H : q[x] >= L - k => f[x] = Suffix(r, L, q[x])}
<1>13. ASSUME NEW k \in Nat, \A x \in H : q[x] > L - k => f[x] = Suffix(r, L, q[x]),
              NEW x \in H, q[x] >= L - k
       PROVE  f[x] = Suffix(r, L, q[x])
  <2>1. f[x] = <<x>> \o f[RBTreeIncrement(t, x)]
    BY <1>2, <1>5, <1>11
  <2>2. q[x] \in 1..L
    BY <1>6
  <2>3. f[RBTreeIncrement(t, x)] = g[RBTreeIncrement(t, x)]
    <3>1. CASE q[x] < L
      <4>1. q[x] + 1 \in 1..L
        BY <1>5, <2>2, <3>1
      <4>2. PICK y : y = r[q[x] + 1]
        OBVIOUS
      <4>3. y \in H /\ q[y] = q[x] + 1 /\ RBTreeIncrement(t, x) = y
        BY <1>6, <1>9, <3>1, <4>1, <4>2
      <4>4. q[y] > L - k
        BY <1>5, <1>13, <2>2, <4>3
      <4>5. f[y] = Suffix(r, L, q[y])
        BY <1>13, <4>3, <4>4
      <4>6. g[y] = Suffix(r, L, q[y])
        BY <1>2, <1>5, <1>7, <4>3
      <4> QED
        BY <4>3, <4>5, <4>6
    <3>2. CASE ~(q[x] < L)
      BY <1>9, <1>12, <3>2
    <3> QED
      BY <3>1, <3>2
  <2> QED
    BY <1>9, <2>1, <2>3
<1>14. 0 \in I
  <2>1. \A x \in H : ~(q[x] > L - 0)
    BY <1>5, <1>6
  <2> QED
    BY <1>13, <2>1
<1>15. ASSUME NEW k \in Nat, k \in I PROVE k + 1 \in I
  <2>1. \A x \in H : q[x] > L - (k + 1) => q[x] >= L - k
    BY <1>5, <1>6
  <2>2. \A x \in H : q[x] > L - (k + 1) => f[x] = Suffix(r, L, q[x])
    BY <1>15, <2>1
  <2> QED
    BY <1>13, <2>2
<1>16. \A k \in Nat : k \in I
  <2> HIDE DEF I
  <2> QED
    BY <1>14, <1>15, SetInduction
<1>17. CASE H = {}
  <2>1. L = 0
    BY <1>5, <1>6, <1>17
  <2>2. t.child["left"][mAnchor] = mAnchor
    BY <1>1, <1>17 DEF Ends, Sides
  <2>3. 0 + 1 = 1
    OBVIOUS
  <2> QED
    BY <1>4, <1>8, <1>12, <2>1, <2>2, <2>3
<1>18. CASE H # {}
  <2>1. PICK x : x = t.child["left"][mAnchor]
    OBVIOUS
  <2>2. x \in H /\ q[x] = 1
    BY <1>1, <1>18, <2>1 DEF Ends
  <2>3. L \in I /\ 1 >= L - L
    BY <1>5, <1>16
  <2>4. f[x] = Suffix(r, L, q[x])
    BY <2>2, <2>3
  <2> QED
    BY <1>4, <2>1, <2>2, <2>4
<1> QED
  BY <1>17, <1>18

LEMMA WholeSuffix ==
  ASSUME NEW r, NEW L \in Nat, NEW H, r \in [1..L -> H]
  PROVE  Suffix(r, L, 1) = r /\ r \in Seq(H) /\ Len(r) = L
<1>1. (L - 1) + 1 = L /\ \A j \in 1..L : (1 + j) - 1 = j
  OBVIOUS
<1>2. Suffix(r, L, 1) = [j \in 1..L |-> r[(1 + j) - 1]]
  BY <1>1 DEF Suffix
<1>3. Suffix(r, L, 1) = [j \in 1..L |-> r[j]]
  BY <1>1, <1>2
<1> QED
  BY <1>3

-----------------------------------------------------------------------------
(* Taking out a node that has at most one child.                             *)

\* x is all there is below n.
OnlyChild(t, H, n, x) ==
  /\ n \in H /\ x \in H \cup {NULL}
  /\ \E d \in Sides : x = t.child[d][n] /\ t.child[Other(d)][n] = NULL

\* u is t with x in the place of n; what the anchor has for children is left open.
CutOut(t, u, n, x) ==
  /\ u \in Trees /\ u.red = t.red /\ u.mnSize = t.mnSize
  /\ \A sd \in Sides, z \in Nodes :
       u.child[sd][z] = IF n # Root(t) /\ z = t.parent[n] /\ sd = SideOf(t, n) THEN x ELSE t.child[sd][z]
  /\ \A z \in Spots :
       u.parent[z] = IF z = x THEN t.parent[n] ELSE IF z = mAnchor /\ n = Root(t) THEN x ELSE t.parent[z]

LEMMA CutIs ==
  ASSUME NEW t, NEW H, NEW q, NEW e, NEW L, Placed(t, H, q, e, L), NEW n, NEW x, OnlyChild(t, H, n, x)
  PROVE  /\ CutOut(t, Replace(Adopt(t, x, t.parent[n]), n, x), n, x)
         /\ \A sd \in Sides : Replace(Adopt(t, x, t.parent[n]), n, x).child[sd][mAnchor] = t.child[sd][mAnchor]
<1>1. PICK p : p = t.parent[n]
  OBVIOUS
<1>2. PICK a : a = Adopt(t, x, p)
  OBVIOUS
<1>3. PICK u : u = Replace(a, n, x)
  OBVIOUS
<1>4. n \in H /\ x \in H \cup {NULL} /\ t \in Trees /\ H \subseteq Nodes /\ H \subseteq Spots /\ Nodes \subseteq Spots
      /\ mAnchor \notin Nodes /\ mAnchor \in Spots /\ NULL \notin Spots
  BY SpotsAreNumbers DEF OnlyChild, Placed, Spots
<1>5. x # n
  BY ChildIsHeld DEF OnlyChild
<1>6. p \in Spots /\ p \in Links /\ x \in Links /\ n \in Spots /\ x # mAnchor /\ n # mAnchor
      /\ (n = Root(t) => p = mAnchor) /\ (n # Root(t) => p \in H)
  BY <1>1, <1>4, ParentIsAbove DEF Links
<1>7. Adopted(t, a, x, p)
  BY <1>2, <1>4, <1>6, AdoptIs
<1>8. a \in Trees /\ a.child = t.child /\ a.red = t.red /\ a.mnSize = t.mnSize /\ a.parent[n] = p
      /\ Root(a) = Root(t)
      /\ \A z \in Spots : a.parent[z] = IF z = x THEN p ELSE t.parent[z]
  BY <1>1, <1>4, <1>5, <1>6, <1>7 DEF Adopted, Root
<1>9. SideOf(a, n) = SideOf(t, n)
  BY <1>1, <1>8 DEF SideOf
<1>10. Replaced(a, u, n, x, p)
  BY <1>3, <1>6, <1>8, ReplaceIs
<1>11. CutOut(t, u, n, x)
  <2>1. ASSUME NEW sd \in Sides, NEW z \in Nodes
        PROVE  u.child[sd][z] = IF n # Root(t) /\ z = p /\ sd = SideOf(t, n) THEN x ELSE t.child[sd][z]
    BY <1>4, <1>8, <1>9, <1>10 DEF Replaced
  <2>2. ASSUME NEW z \in Spots
        PROVE  u.parent[z] = IF z = x THEN p ELSE IF z = mAnchor /\ n = Root(t) THEN x ELSE t.parent[z]
    BY <1>6, <1>8, <1>10 DEF Replaced
  <2> QED
    BY <1>1, <1>8, <1>10, <2>1, <2>2 DEF CutOut, Replaced
<1>12. \A sd \in Sides : u.child[sd][mAnchor] = t.child[sd][mAnchor]
  BY <1>4, <1>6, <1>8, <1>10 DEF Replaced
<1> QED
  BY <1>1, <1>2, <1>3, <1>11, <1>12

\* What is behind the k-th moves up.
Closed(H, q, n) == [z \in H \ {n} |-> IF q[z] > q[n] THEN q[z] - 1 ELSE q[z]]

ClosedEnds(H, q, e, n) ==
  [sd \in Sides |-> [z \in H \ {n} |->
     IF e[sd][z] > q[n] \/ (sd = "right" /\ e[sd][z] = q[n]) THEN e[sd][z] - 1 ELSE e[sd][z]]]

Removed(r, L, k) == [i \in 1..(L - 1) |-> IF i < k THEN r[i] ELSE r[i + 1]]

\* z after that.
ClosedAt(q, e, v, f, n, L, z) ==
  /\ q[z] \in 1..L /\ q[z] # q[n]
  /\ e["left"][z] \in 1..L /\ e["right"][z] \in 1..L
  /\ e["left"][z] <= q[z] /\ q[z] <= e["right"][z]
  /\ v[z] = (IF q[z] > q[n] THEN q[z] - 1 ELSE q[z])
  /\ f["left"][z] = (IF e["left"][z] > q[n] THEN e["left"][z] - 1 ELSE e["left"][z])
  /\ f["right"][z] = (IF e["right"][z] >= q[n] THEN e["right"][z] - 1 ELSE e["right"][z])

LEMMA ClosedNumbers ==
  ASSUME NEW t, NEW H, NEW r, NEW q, NEW e, NEW L, Placed(t, H, q, e, L), Listed(r, q, H, L),
         NEW n \in H, NEW z \in H, z # n
  PROVE  ClosedAt(q, e, Closed(H, q, n), ClosedEnds(H, q, e, n), n, L, z)
<1>1. q[z] \in 1..L /\ e["left"][z] \in 1..L /\ e["right"][z] \in 1..L
      /\ e["left"][z] <= q[z] /\ q[z] <= e["right"][z] /\ q[n] \in 1..L
  BY PlacesAreNumbers
<1>2. q[z] # q[n]
  BY DEF Listed
<1>3. Closed(H, q, n)[z] = (IF q[z] > q[n] THEN q[z] - 1 ELSE q[z])
  BY DEF Closed
<1>4. ClosedEnds(H, q, e, n)["left"][z] = (IF e["left"][z] > q[n] THEN e["left"][z] - 1 ELSE e["left"][z])
  BY DEF ClosedEnds, Sides
<1>5. ClosedEnds(H, q, e, n)["right"][z] = (IF e["right"][z] >= q[n] THEN e["right"][z] - 1 ELSE e["right"][z])
  <2>1. ClosedEnds(H, q, e, n)["right"][z]
          = (IF e["right"][z] > q[n] \/ e["right"][z] = q[n] THEN e["right"][z] - 1 ELSE e["right"][z])
    BY DEF ClosedEnds, Sides
  <2> QED
    BY <1>1, <2>1
<1> QED
  BY <1>1, <1>2, <1>3, <1>4, <1>5 DEF ClosedAt

\* What is below n and what is below x.
LEMMA OnlyChildEnds ==
  ASSUME NEW t, NEW H, NEW q, NEW e, NEW L, Placed(t, H, q, e, L), NEW n, NEW x, OnlyChild(t, H, n, x)
  PROVE  IF x = NULL THEN e["left"][n] = q[n] /\ e["right"][n] = q[n]
         ELSE \/ e["left"][x] = e["left"][n] /\ e["right"][x] = q[n] - 1 /\ e["right"][n] = q[n]
              \/ e["left"][x] = q[n] + 1 /\ e["right"][x] = e["right"][n] /\ e["left"][n] = q[n]
<1>1. PICK d \in Sides : x = t.child[d][n] /\ t.child[Other(d)][n] = NULL
  BY DEF OnlyChild
<1>2. n \in H
  BY DEF OnlyChild
<1>3. Arm(t, H, q, e, n, d) /\ Arm(t, H, q, e, n, Other(d))
  BY <1>2, OtherSide DEF Placed
<1>4. e[Other(d)][n] = q[n]
  BY <1>1, <1>3 DEF Arm
<1>5. CASE x = NULL
  BY <1>1, <1>3, <1>4, <1>5 DEF Arm, Sides, Other
<1>6. CASE x # NULL
  <2>1. Below(q, e, n, x, d)
    BY <1>1, <1>2, <1>6, ChildIsBelow
  <2> QED
    BY <1>1, <1>4, <1>6, <2>1 DEF Below, Sides, Other
<1> QED
  BY <1>5, <1>6

\* What there is around the nodes that stay.
CutLinks(t, u, H, n, x) ==
  /\ \A z \in H \ {n}, sd \in Sides :
       t.child[sd][z] = n <=> n # Root(t) /\ z = t.parent[n] /\ sd = SideOf(t, n)
  /\ \A z \in H \ {n}, sd \in Sides : u.child[sd][z] = IF t.child[sd][z] = n THEN x ELSE t.child[sd][z]
  /\ \A z \in H \ {n} : u.parent[z] = IF z = x THEN t.parent[n] ELSE t.parent[z]
  /\ Root(u) = IF n = Root(t) THEN x ELSE Root(t)

\* Whose child n is.
LEMMA OneParent ==
  ASSUME NEW t, NEW H, NEW q, NEW e, NEW L, Placed(t, H, q, e, L), NEW n \in H, NEW z \in H, NEW sd \in Sides
  PROVE  t.child[sd][z] = n <=> n # Root(t) /\ z = t.parent[n] /\ sd = SideOf(t, n)
<1>1. ASSUME t.child[sd][z] = n
      PROVE  n # Root(t) /\ z = t.parent[n] /\ sd = SideOf(t, n)
  <2>1. n # NULL /\ z # mAnchor
    BY PlacesAreNumbers
  <2>2. t.parent[n] = z
    BY <1>1, <2>1, ChildIsBelow
  <2>3. n # Root(t)
    BY <2>1, <2>2, ParentIsAbove
  <2>4. SideOf(t, n) \in Sides /\ n = t.child[SideOf(t, n)][z]
    BY <2>2, <2>3, ParentIsAbove
  <2>5. sd = SideOf(t, n) \/ SideOf(t, n) = Other(sd)
    BY <2>4 DEF Sides, Other
  <2>6. t.child[sd][z] # t.child[Other(sd)][z]
    BY <1>1, <2>1, ChildrenDiffer
  <2> QED
    BY <1>1, <2>2, <2>3, <2>4, <2>5, <2>6
<1>2. n # Root(t) /\ z = t.parent[n] /\ sd = SideOf(t, n) => t.child[sd][z] = n
  BY ParentIsAbove
<1> QED
  BY <1>1, <1>2

LEMMA CutLinksAre ==
  ASSUME NEW t, NEW u, NEW H, NEW q, NEW e, NEW L, Placed(t, H, q, e, L), NEW n, NEW x, OnlyChild(t, H, n, x),
         CutOut(t, u, n, x)
  PROVE  CutLinks(t, u, H, n, x)
<1>1. n \in H /\ x \in H \cup {NULL} /\ H \subseteq Nodes /\ H \subseteq Spots
  BY DEF OnlyChild, Placed, Spots
<1>2. mAnchor \in Spots /\ x # mAnchor
  BY <1>1, SpotsAreNumbers DEF Spots, mAnchor, NULL
<1>3. ASSUME NEW z \in H, z # n, NEW sd \in Sides
      PROVE  /\ t.child[sd][z] = n <=> n # Root(t) /\ z = t.parent[n] /\ sd = SideOf(t, n)
             /\ u.child[sd][z] = IF t.child[sd][z] = n THEN x ELSE t.child[sd][z]
  <2>1. u.child[sd][z] = IF n # Root(t) /\ z = t.parent[n] /\ sd = SideOf(t, n) THEN x ELSE t.child[sd][z]
    BY <1>1 DEF CutOut
  <2>2. t.child[sd][z] = n <=> n # Root(t) /\ z = t.parent[n] /\ sd = SideOf(t, n)
    BY <1>1, OneParent
  <2> QED
    BY <2>1, <2>2
<1>4. ASSUME NEW z \in H, z # n
      PROVE  u.parent[z] = IF z = x THEN t.parent[n] ELSE t.parent[z]
  <2>1. z # mAnchor /\ z \in Spots
    BY PlacesAreNumbers
  <2> QED
    BY <2>1 DEF CutOut
<1>5. Root(u) = IF n = Root(t) THEN x ELSE Root(t)
  BY <1>2 DEF CutOut, Root
<1> QED
  BY <1>3, <1>4, <1>5 DEF CutLinks

\* Nothing is lost of what is above and below.
LEMMA CutArm ==
  ASSUME NEW t, NEW u, NEW H, NEW r, NEW q, NEW e, NEW L, Placed(t, H, q, e, L), Listed(r, q, H, L),
         NEW n, NEW x, OnlyChild(t, H, n, x), CutLinks(t, u, H, n, x),
         NEW z \in H \ {n}, NEW sd \in Sides
  PROVE  Arm(u, H \ {n}, Closed(H, q, n), ClosedEnds(H, q, e, n), z, sd)
<1>1. PICK v, f : v = Closed(H, q, n) /\ f = ClosedEnds(H, q, e, n)
  OBVIOUS
<1>2. n \in H /\ z \in H /\ z # n /\ x \in H \cup {NULL} /\ n # NULL /\ z # NULL /\ x # n
  BY PlacesAreNumbers, ChildIsHeld DEF OnlyChild
<1>3. ClosedAt(q, e, v, f, n, L, z)
  BY <1>1, <1>2, ClosedNumbers
<1>4. q[n] \in 1..L /\ e["left"][n] \in 1..L /\ e["right"][n] \in 1..L /\ L \in Nat
  BY <1>2, PlacesAreNumbers
<1>5. CASE t.child[sd][z] = n
  <2>1. Below(q, e, z, n, sd) /\ t.parent[n] = z
    BY <1>2, <1>5, ChildIsBelow
  <2>2. u.child[sd][z] = x
    BY <1>5 DEF CutLinks
  <2>3. CASE x = NULL
    <3>1. e["left"][n] = q[n] /\ e["right"][n] = q[n]
      BY <2>3, OnlyChildEnds
    <3>2. f[sd][z] = v[z]
      BY <1>3, <1>4, <2>1, <3>1 DEF Below, ClosedAt, Sides
    <3> QED
      BY <1>1, <2>2, <2>3, <3>2 DEF Arm
  <2>4. CASE x # NULL
    <3>1. x \in H /\ x \in H \ {n}
      BY <1>2, <2>4
    <3>2. \/ e["left"][x] = e["left"][n] /\ e["right"][x] = q[n] - 1 /\ e["right"][n] = q[n]
          \/ e["left"][x] = q[n] + 1 /\ e["right"][x] = e["right"][n] /\ e["left"][n] = q[n]
      BY <2>4, OnlyChildEnds
    <3>3. ClosedAt(q, e, v, f, n, L, x)
      BY <1>1, <1>2, <3>1, ClosedNumbers
    <3>4. f[sd][x] = f[sd][z] /\ f[Other(sd)][x] = v[z] + Dir(sd)
      <4>1. CASE sd = "left"
        BY <1>3, <1>4, <2>1, <3>2, <3>3, <4>1 DEF Below, ClosedAt, Other, Dir
      <4>2. CASE sd = "right"
        BY <1>3, <1>4, <2>1, <3>2, <3>3, <4>2 DEF Below, ClosedAt, Other, Dir
      <4> QED
        BY <4>1, <4>2 DEF Sides
    <3>5. u.parent[x] = z
      BY <2>1, <3>1 DEF CutLinks
    <3> QED
      BY <1>1, <2>2, <2>4, <3>1, <3>4, <3>5 DEF Arm
  <2> QED
    BY <2>3, <2>4
<1>6. CASE t.child[sd][z] # n
  <2>1. PICK c : c = t.child[sd][z]
    OBVIOUS
  <2>2. u.child[sd][z] = c
    BY <1>6, <2>1 DEF CutLinks
  <2>3. CASE c = NULL
    <3>1. Arm(t, H, q, e, z, sd)
      BY DEF Placed
    <3>2. e[sd][z] = q[z]
      BY <2>1, <2>3, <3>1 DEF Arm
    <3>3. f[sd][z] = v[z]
      BY <1>3, <1>4, <3>2 DEF ClosedAt, Sides
    <3> QED
      BY <1>1, <2>2, <2>3, <3>3 DEF Arm
  <2>4. CASE c # NULL
    <3>1. c \in H /\ c # n /\ t.parent[c] = z /\ Below(q, e, z, c, sd)
      BY <1>2, <1>6, <2>1, <2>4, ChildIsBelow
    <3>2. ClosedAt(q, e, v, f, n, L, c)
      BY <1>1, <1>2, <3>1, ClosedNumbers
    <3>3. f[sd][c] = f[sd][z] /\ f[Other(sd)][c] = v[z] + Dir(sd)
      <4>1. CASE sd = "left"
        BY <1>3, <1>4, <3>1, <3>2, <4>1 DEF Below, ClosedAt, Other, Dir
      <4>2. CASE sd = "right"
        BY <1>3, <1>4, <3>1, <3>2, <4>2 DEF Below, ClosedAt, Other, Dir
      <4> QED
        BY <4>1, <4>2 DEF Sides
    <3>4. c # x
      <4>1. x # NULL => t.parent[x] = n
        BY ChildIsHeld DEF OnlyChild
      <4> QED
        BY <1>2, <2>4, <3>1, <4>1
    <3>5. u.parent[c] = z
      BY <3>1, <3>4 DEF CutLinks
    <3> QED
      BY <1>1, <2>2, <2>4, <3>1, <3>3, <3>5 DEF Arm
  <2> QED
    BY <2>3, <2>4
<1> QED
  BY <1>5, <1>6

LEMMA CutHangs ==
  ASSUME NEW t, NEW u, NEW H, NEW r, NEW q, NEW e, NEW L, Placed(t, H, q, e, L), Listed(r, q, H, L),
         NEW n, NEW x, OnlyChild(t, H, n, x), CutLinks(t, u, H, n, x), NEW z \in H \ {n}
  PROVE  Hangs(u, H \ {n}, ClosedEnds(H, q, e, n), L - 1, z)
<1>1. PICK v, f : v = Closed(H, q, n) /\ f = ClosedEnds(H, q, e, n)
  OBVIOUS
<1>2. n \in H /\ z \in H /\ z # n /\ x \in H \cup {NULL} /\ n # NULL /\ z # NULL /\ x # n
      /\ n # mAnchor /\ z # mAnchor
  BY PlacesAreNumbers, ChildIsHeld DEF OnlyChild
<1>3. ClosedAt(q, e, v, f, n, L, z)
  BY <1>1, <1>2, ClosedNumbers
<1>4. q[n] \in 1..L /\ L \in Nat
  BY <1>2, PlacesAreNumbers
<1>5. \A y \in H : Hangs(t, H, e, L, y)
  BY DEF Placed
<1>6. \A sd \in Sides : t.child[sd][n] # NULL => t.child[sd][n] = x
  BY DEF OnlyChild, Sides, Other
<1>7. x # NULL => t.parent[x] = n
  BY ChildIsHeld DEF OnlyChild
<1>8. CASE z = Root(u) /\ n = Root(t)
  <2>1. z = x
    BY <1>8 DEF CutLinks
  <2>2. t.parent[n] = mAnchor /\ e["left"][n] = 1 /\ e["right"][n] = L
    BY <1>2, <1>5, <1>8 DEF Hangs
  <2>3. \/ e["left"][x] = e["left"][n] /\ e["right"][x] = q[n] - 1 /\ e["right"][n] = q[n]
        \/ e["left"][x] = q[n] + 1 /\ e["right"][x] = e["right"][n] /\ e["left"][n] = q[n]
    BY <1>2, <2>1, OnlyChildEnds
  <2>4. f["left"][z] = 1 /\ f["right"][z] = L - 1
    BY <1>3, <1>4, <2>1, <2>2, <2>3 DEF ClosedAt
  <2>5. u.parent[z] = mAnchor
    BY <2>1, <2>2 DEF CutLinks
  <2> QED
    BY <1>1, <1>8, <2>4, <2>5 DEF Hangs
<1>9. CASE z = Root(u) /\ n # Root(t)
  <2>1. z = Root(t)
    BY <1>9 DEF CutLinks
  <2>2. t.parent[z] = mAnchor /\ e["left"][z] = 1 /\ e["right"][z] = L
    BY <1>2, <1>5, <2>1 DEF Hangs
  <2>3. z # x
    BY <1>2, <1>7, <2>2
  <2>4. f["left"][z] = 1 /\ f["right"][z] = L - 1
    BY <1>3, <1>4, <2>2 DEF ClosedAt
  <2>5. u.parent[z] = mAnchor
    BY <2>2, <2>3 DEF CutLinks
  <2> QED
    BY <1>1, <1>9, <2>4, <2>5 DEF Hangs
<1>10. CASE z # Root(u) /\ z = x
  <2>1. n # Root(t)
    BY <1>10 DEF CutLinks
  <2>2. t.parent[n] \in H /\ SideOf(t, n) \in Sides /\ n = t.child[SideOf(t, n)][t.parent[n]]
    BY <1>2, <2>1, ParentIsAbove
  <2>3. t.parent[n] # n
    BY <1>2, <2>2, ChildIsHeld
  <2>4. u.parent[z] = t.parent[n] /\ z = u.child[SideOf(t, n)][t.parent[n]]
    BY <1>10, <2>2, <2>3 DEF CutLinks
  <2> QED
    BY <1>1, <1>10, <2>2, <2>3, <2>4 DEF Hangs
<1>11. CASE z # Root(u) /\ z # x
  <2>1. z # Root(t)
    BY <1>2, <1>11 DEF CutLinks
  <2>2. t.parent[z] \in H /\ \E sd \in Sides : z = t.child[sd][t.parent[z]]
    BY <1>2, <1>5, <2>1 DEF Hangs
  <2>3. t.parent[z] # n
    BY <1>2, <1>6, <1>11, <2>2
  <2>4. u.parent[z] = t.parent[z]
    BY <1>11 DEF CutLinks
  <2>5. \E sd \in Sides : z = u.child[sd][t.parent[z]]
    BY <1>2, <2>2, <2>3 DEF CutLinks
  <2> QED
    BY <1>1, <1>11, <2>2, <2>3, <2>4, <2>5 DEF Hangs
<1> QED
  BY <1>8, <1>9, <1>10, <1>11

LEMMA CutIsPlaced ==
  ASSUME NEW t, NEW u, NEW H, NEW r, NEW q, NEW e, NEW L, Placed(t, H, q, e, L), Listed(r, q, H, L),
         NEW n, NEW x, OnlyChild(t, H, n, x), CutOut(t, u, n, x)
  PROVE  Placed(u, H \ {n}, Closed(H, q, n), ClosedEnds(H, q, e, n), L - 1)
<1>1. PICK v, f, G : v = Closed(H, q, n) /\ f = ClosedEnds(H, q, e, n) /\ G = H \ {n}
  OBVIOUS
<1>2. n \in H /\ x \in H \cup {NULL} /\ x # n /\ n # NULL
  BY PlacesAreNumbers, ChildIsHeld DEF OnlyChild
<1>3. q[n] \in 1..L /\ L \in Nat /\ L - 1 \in Nat
  <2>1. q[n] \in 1..L /\ L \in Nat
    BY <1>2, PlacesAreNumbers
  <2> QED
    BY <2>1
<1>4. CutLinks(t, u, H, n, x)
  BY CutLinksAre
<1>5. \A z \in G : ClosedAt(q, e, v, f, n, L, z)
  BY <1>1, <1>2, ClosedNumbers
<1>6. \A z \in G : /\ v[z] \in 1..(L - 1) /\ f["left"][z] \in 1..(L - 1) /\ f["right"][z] \in 1..(L - 1)
                   /\ f["left"][z] <= v[z] /\ v[z] <= f["right"][z]
  <2> SUFFICES ASSUME NEW z \in G
               PROVE  /\ v[z] \in 1..(L - 1) /\ f["left"][z] \in 1..(L - 1) /\ f["right"][z] \in 1..(L - 1)
                      /\ f["left"][z] <= v[z] /\ v[z] <= f["right"][z]
    OBVIOUS
  <2>1. ClosedAt(q, e, v, f, n, L, z)
    BY <1>5
  <2> QED
    BY ONLY <1>3, <2>1 DEF ClosedAt
<1>7. v \in [G -> 1..(L - 1)] /\ f \in [Sides -> [G -> 1..(L - 1)]]
  <2>1. v \in [G -> 1..(L - 1)]
    <3>1. v = [z \in G |-> v[z]]
      BY <1>1 DEF Closed
    <3> QED
      BY <1>6, <3>1
  <2>2. ASSUME NEW sd \in Sides PROVE f[sd] \in [G -> 1..(L - 1)]
    <3>1. f[sd] = [z \in G |-> f[sd][z]]
      BY <1>1 DEF ClosedEnds
    <3>2. \A z \in G : f[sd][z] \in 1..(L - 1)
      BY <1>6 DEF Sides
    <3> QED
      BY <3>1, <3>2
  <2>3. f = [sd \in Sides |-> f[sd]]
    BY <1>1 DEF ClosedEnds
  <2> QED
    BY <2>1, <2>2, <2>3
<1>8. \A z \in G : Around(v, f, z)
  BY <1>6 DEF Around
<1>9. \A z \in G, sd \in Sides : Arm(u, G, v, f, z, sd)
  BY <1>1, <1>4, CutArm
<1>10. \A z \in G : Hangs(u, G, f, L - 1, z)
  BY <1>1, <1>4, CutHangs
<1>11. IF G = {} THEN Root(u) = NULL ELSE Root(u) \in G
  <2>1. Root(t) \in H
    BY <1>2 DEF Placed
  <2>2. CASE n # Root(t)
    <3>1. Root(u) = Root(t)
      BY <1>4, <2>2 DEF CutLinks
    <3> QED
      BY <1>1, <2>1, <2>2, <3>1
  <2>3. CASE n = Root(t) /\ x # NULL
    <3>1. Root(u) = x
      BY <1>4, <2>3 DEF CutLinks
    <3> QED
      BY <1>1, <1>2, <2>3, <3>1
  <2>4. CASE n = Root(t) /\ x = NULL
    <3>1. Root(u) = x
      BY <1>4, <2>4 DEF CutLinks
    <3>2. e["left"][n] = q[n] /\ e["right"][n] = q[n]
      BY <2>4, OnlyChildEnds
    <3>3. Hangs(t, H, e, L, n)
      BY <1>2 DEF Placed
    <3>4. L = 1
      BY <2>4, <3>2, <3>3 DEF Hangs
    <3>5. ASSUME NEW z \in G PROVE FALSE
      <4>1. v[z] \in 1..(L - 1)
        BY <1>6
      <4> QED
        BY <3>4, <4>1
    <3> QED
      BY <2>4, <3>1, <3>5
  <2> QED
    BY <2>2, <2>3, <2>4
<1>12. u \in Trees /\ G \subseteq Nodes
  BY <1>1 DEF CutOut, Placed
<1> QED
  BY <1>1, <1>3, <1>7, <1>8, <1>9, <1>10, <1>11, <1>12 DEF Placed

LEMMA CutIsListed ==
  ASSUME NEW H, NEW r, NEW q, NEW L \in Nat, Listed(r, q, H, L), NEW n \in H
  PROVE  Listed(Removed(r, L, q[n]), Closed(H, q, n), H \ {n}, L - 1)
<1>1. PICK v, s, k : v = Closed(H, q, n) /\ s = Removed(r, L, q[n]) /\ k = q[n]
  OBVIOUS
<1>2. k \in 1..L /\ (\A z \in H : q[z] \in 1..L /\ r[q[z]] = z) /\ \A i \in 1..L : r[i] \in H /\ q[r[i]] = i
  BY <1>1, ListedNumbers
<1>3. ASSUME NEW z \in H, z # n
      PROVE  /\ v[z] = (IF q[z] > k THEN q[z] - 1 ELSE q[z]) /\ q[z] # k
             /\ v[z] \in 1..(L - 1)
  <2>1. v[z] = (IF q[z] > k THEN q[z] - 1 ELSE q[z])
    BY <1>1, <1>3 DEF Closed
  <2>2. q[z] # k
    BY <1>1, <1>2, <1>3
  <2> QED
    BY <1>2, <2>1, <2>2
<1>4. ASSUME NEW i \in 1..(L - 1)
      PROVE  /\ s[i] = (IF i < k THEN r[i] ELSE r[i + 1])
             /\ s[i] \in H /\ q[s[i]] = (IF i < k THEN i ELSE i + 1) /\ s[i] # n
  <2>1. s[i] = (IF i < k THEN r[i] ELSE r[i + 1])
    BY <1>1, <1>4 DEF Removed
  <2>2. i \in 1..L /\ i + 1 \in 1..L /\ (i < k \/ i + 1 > k)
    BY <1>2, <1>4
  <2>3. i \in 1..L /\ i + 1 \in 1..L
    BY <1>4
  <2>4. s[i] \in H /\ q[s[i]] = (IF i < k THEN i ELSE i + 1)
    BY <1>2, <2>1, <2>3
  <2>5. (IF i < k THEN i ELSE i + 1) # k
    BY <1>2, <1>4
  <2> QED
    BY <1>1, <2>1, <2>4, <2>5
<1>5. s \in [1..(L - 1) -> H \ {n}]
  <2>1. s = [i \in 1..(L - 1) |-> s[i]]
    BY <1>1 DEF Removed
  <2> QED
    BY <1>4, <2>1
<1>6. v \in [H \ {n} -> 1..(L - 1)]
  <2>1. v = [z \in H \ {n} |-> v[z]]
    BY <1>1 DEF Closed
  <2> QED
    BY <1>3, <2>1
<1>7. ASSUME NEW i \in 1..(L - 1) PROVE v[s[i]] = i
  <2>1. v[s[i]] = (IF q[s[i]] > k THEN q[s[i]] - 1 ELSE q[s[i]])
    BY <1>3, <1>4
  <2>2. q[s[i]] = (IF i < k THEN i ELSE i + 1)
    BY <1>4
  <2> QED
    BY <1>2, <2>1, <2>2
<1>8. ASSUME NEW z \in H \ {n} PROVE s[v[z]] = z
  <2>1. v[z] \in 1..(L - 1) /\ v[z] = (IF q[z] > k THEN q[z] - 1 ELSE q[z]) /\ q[z] # k
    BY <1>3
  <2>2. s[v[z]] = (IF v[z] < k THEN r[v[z]] ELSE r[v[z] + 1])
    BY <1>4, <2>1
  <2>3. (IF v[z] < k THEN v[z] ELSE v[z] + 1) = q[z]
    BY <1>2, <2>1
  <2> QED
    BY <1>2, <2>2, <2>3
<1> QED
  BY <1>1, <1>5, <1>6, <1>7, <1>8 DEF Listed

\* A black node may be lacking below xp on side sx, above x, which may be red.
Deficient(t, H, q, e, b, L, xp, sx, x) ==
  /\ Placed(t, H, q, e, L) /\ Heights(t, H, b, xp, sx) /\ LackingAt(t, H, xp, sx, x)
  /\ x \in H \cup {NULL} /\ NoRedRed(t, H, x) /\ (Root(t) \in t.red => x = Root(t))

\* Nothing is wrong.
Level(t, H, q, e, b, L) ==
  /\ Placed(t, H, q, e, L) /\ Heights(t, H, b, mAnchor, "left")
  /\ NoRedRed(t, H, NULL) /\ Root(t) \notin t.red

LEMMA BlackNodeCutOut ==
  ASSUME NEW t, NEW u, NEW H, NEW r, NEW q, NEW e, NEW b, NEW L, Level(t, H, q, e, b, L), Listed(r, q, H, L),
         NEW n, NEW x, OnlyChild(t, H, n, x), CutOut(t, u, n, x), n \notin t.red
  PROVE  \E c : Deficient(u, H \ {n}, Closed(H, q, n), ClosedEnds(H, q, e, n), c, L - 1,
                          t.parent[n], SideOf(t, n), x)
<1> DEFINE c == [z \in (H \ {n}) \cup {NULL} |-> b[z]]
<1>1. Placed(t, H, q, e, L) /\ Heights(t, H, b, mAnchor, "left") /\ NoRedRed(t, H, NULL) /\ Root(t) \notin t.red
  BY DEF Level
<1>2. CutLinks(t, u, H, n, x) /\ u.red = t.red
  BY <1>1, CutLinksAre DEF CutOut
<1>3. n \in H /\ x \in H \cup {NULL} /\ x # n /\ H \subseteq Nodes /\ n # NULL /\ NULL \notin H /\ mAnchor \notin H
  <2>1. n \in H /\ x \in H \cup {NULL} /\ H \subseteq Nodes
    BY <1>1 DEF OnlyChild, Placed
  <2> QED
    BY <1>1, <2>1, PlacesAreNumbers, ChildIsHeld DEF OnlyChild
<1>4. Placed(u, H \ {n}, Closed(H, q, n), ClosedEnds(H, q, e, n), L - 1)
  BY <1>1, CutIsPlaced
<1>5. b[n] = b[x] + 1 /\ b[x] \in Nat
  <2>1. PICK d \in Sides : x = t.child[d][n]
    BY DEF OnlyChild
  <2> QED
    BY <1>1, <1>3, <2>1, NothingLacks DEF Weight
<1>6. Heights(u, H \ {n}, c, t.parent[n], SideOf(t, n))
  <2>1. b \in [H \cup {NULL} -> Nat] /\ b[NULL] = 0
    BY <1>1 DEF Heights
  <2>2. c \in [(H \ {n}) \cup {NULL} -> Nat] /\ c[NULL] = 0
    BY <1>3, <2>1
  <2>3. ASSUME NEW y \in H \ {n}, NEW sd \in Sides
        PROVE  c[y] = c[u.child[sd][y]] + Weight(u, y) + Lack(t.parent[n], SideOf(t, n), y, sd)
    <3>1. t.child[sd][y] \in H \cup {NULL}
      BY <1>1, ChildIsHeld
    <3>2. b[y] = b[t.child[sd][y]] + Weight(t, y) /\ Weight(t, y) \in Nat
      BY <1>1, <1>3, <3>1, NothingLacks DEF Weight
    <3>3. Weight(u, y) = Weight(t, y)
      BY <1>2 DEF Weight
    <3>4. c[y] = b[y]
      BY <2>3
    <3>5. CASE t.child[sd][y] = n
      <4>1. Lack(t.parent[n], SideOf(t, n), y, sd) = 1
        BY <1>2, <3>5 DEF CutLinks, Lack
      <4>2. u.child[sd][y] = x /\ c[x] = b[x]
        BY <1>2, <1>3, <3>5 DEF CutLinks
      <4> HIDE DEF c
      <4> QED
        BY <1>5, <3>2, <3>3, <3>4, <3>5, <4>1, <4>2
    <3>6. CASE t.child[sd][y] # n
      <4>1. Lack(t.parent[n], SideOf(t, n), y, sd) = 0
        <5>1. CASE n # Root(t)
          BY <1>2, <3>6, <5>1 DEF CutLinks, Lack
        <5>2. CASE n = Root(t)
          <6>1. t.parent[n] = mAnchor
            BY <1>1, <1>3, <5>2, ParentIsAbove
          <6> QED
            BY <1>3, <6>1 DEF Lack
        <5> QED
          BY <5>1, <5>2
      <4>2. u.child[sd][y] = t.child[sd][y] /\ c[t.child[sd][y]] = b[t.child[sd][y]]
        BY <1>2, <3>1, <3>6 DEF CutLinks
      <4>3. b[t.child[sd][y]] \in Nat
        BY <2>1, <3>1
      <4> HIDE DEF c
      <4> QED
        BY <3>2, <3>3, <3>4, <4>1, <4>2, <4>3
    <3> QED
      BY <3>5, <3>6
  <2> HIDE DEF c
  <2> QED
    BY <2>2, <2>3 DEF Heights
<1>7. LackingAt(u, H \ {n}, t.parent[n], SideOf(t, n), x)
  <2>1. CASE n = Root(t)
    <3>1. t.parent[n] = mAnchor
      BY <1>1, <1>3, <2>1, ParentIsAbove
    <3> QED
      BY <1>2, <2>1, <3>1 DEF CutLinks, LackingAt
  <2>2. CASE n # Root(t)
    <3>1. t.parent[n] \in H /\ SideOf(t, n) \in Sides /\ n = t.child[SideOf(t, n)][t.parent[n]]
      BY <1>1, <1>3, <2>2, ParentIsAbove
    <3>2. t.parent[n] # n
      BY <1>1, <3>1, ChildIsHeld
    <3> QED
      BY <1>2, <3>1, <3>2 DEF CutLinks, LackingAt
  <2> QED
    BY <2>1, <2>2
<1>8. NoRedRed(u, H \ {n}, x)
  <2>1. ASSUME NEW y \in H \ {n}, NEW sd \in Sides
        PROVE  Fine(u, y, u.child[sd][y], x)
    <3>1. Fine(t, y, t.child[sd][y], NULL)
      BY <1>1 DEF NoRedRed
    <3>2. u.child[sd][y] = IF t.child[sd][y] = n THEN x ELSE t.child[sd][y]
      BY <1>2 DEF CutLinks
    <3>3. NULL \notin t.red /\ y # NULL
      BY <1>1, <1>3, SpotsAreNumbers DEF Placed, Trees
    <3> QED
      BY <1>2, <3>1, <3>2, <3>3 DEF Fine
  <2> QED
    BY <2>1 DEF NoRedRed
<1>9. Root(u) \in u.red => x = Root(u)
  BY <1>1, <1>2 DEF CutLinks
<1>10. x \in (H \ {n}) \cup {NULL}
  BY <1>3
<1> HIDE DEF c
<1> QED
  BY <1>4, <1>6, <1>7, <1>8, <1>9, <1>10 DEF Deficient

LEMMA RedNodeCutOut ==
  ASSUME NEW t, NEW u, NEW H, NEW r, NEW q, NEW e, NEW b, NEW L, Level(t, H, q, e, b, L), Listed(r, q, H, L),
         NEW n, NEW x, OnlyChild(t, H, n, x), CutOut(t, u, n, x), n \in t.red
  PROVE  \E c : Level(u, H \ {n}, Closed(H, q, n), ClosedEnds(H, q, e, n), c, L - 1)
<1> DEFINE c == [z \in (H \ {n}) \cup {NULL} |-> b[z]]
<1>1. Placed(t, H, q, e, L) /\ Heights(t, H, b, mAnchor, "left") /\ NoRedRed(t, H, NULL) /\ Root(t) \notin t.red
  BY DEF Level
<1>2. CutLinks(t, u, H, n, x) /\ u.red = t.red
  BY <1>1, CutLinksAre DEF CutOut
<1>3. n \in H /\ x \in H \cup {NULL} /\ x # n /\ H \subseteq Nodes /\ n # NULL /\ NULL \notin H /\ mAnchor \notin H
  <2>1. n \in H /\ x \in H \cup {NULL} /\ H \subseteq Nodes
    BY <1>1 DEF OnlyChild, Placed
  <2> QED
    BY <1>1, <2>1, PlacesAreNumbers, ChildIsHeld DEF OnlyChild
<1>4. Placed(u, H \ {n}, Closed(H, q, n), ClosedEnds(H, q, e, n), L - 1)
  BY <1>1, CutIsPlaced
<1>5. b[n] = b[x] /\ b[x] \in Nat
  <2>1. PICK d \in Sides : x = t.child[d][n]
    BY DEF OnlyChild
  <2>2. Weight(t, n) = 0
    BY DEF Weight
  <2> QED
    BY <1>1, <1>3, <2>1, <2>2, NothingLacks
<1>6. Heights(u, H \ {n}, c, mAnchor, "left")
  <2>1. b \in [H \cup {NULL} -> Nat] /\ b[NULL] = 0
    BY <1>1 DEF Heights
  <2>2. c \in [(H \ {n}) \cup {NULL} -> Nat] /\ c[NULL] = 0
    BY <1>3, <2>1
  <2>3. ASSUME NEW y \in H \ {n}, NEW sd \in Sides
        PROVE  c[y] = c[u.child[sd][y]] + Weight(u, y) + Lack(mAnchor, "left", y, sd)
    <3>1. t.child[sd][y] \in H \cup {NULL}
      BY <1>1, ChildIsHeld
    <3>2. b[y] = b[t.child[sd][y]] + Weight(t, y) /\ Weight(t, y) \in Nat /\ Lack(mAnchor, "left", y, sd) = 0
      BY <1>1, <1>3, <3>1, NothingLacks DEF Weight
    <3>3. Weight(u, y) = Weight(t, y)
      BY <1>2 DEF Weight
    <3>4. c[u.child[sd][y]] = b[t.child[sd][y]] /\ b[t.child[sd][y]] \in Nat
      <4>1. u.child[sd][y] = IF t.child[sd][y] = n THEN x ELSE t.child[sd][y]
        BY <1>2 DEF CutLinks
      <4>2. u.child[sd][y] \in (H \ {n}) \cup {NULL}
        BY <1>3, <3>1, <4>1
      <4> QED
        BY <1>5, <2>1, <3>1, <4>1, <4>2
    <3>5. c[y] = b[y]
      BY <2>3
    <3> HIDE DEF c
    <3> QED
      BY <3>2, <3>3, <3>4, <3>5
  <2> HIDE DEF c
  <2> QED
    BY <2>2, <2>3 DEF Heights
<1>7. n # Root(t) /\ Root(u) \notin u.red
  BY <1>1, <1>2 DEF CutLinks
<1>8. NoRedRed(u, H \ {n}, NULL)
  <2>1. ASSUME NEW y \in H \ {n}, NEW sd \in Sides
        PROVE  Fine(u, y, u.child[sd][y], NULL)
    <3>1. Fine(t, y, t.child[sd][y], NULL)
      BY <1>1 DEF NoRedRed
    <3>2. u.child[sd][y] = IF t.child[sd][y] = n THEN x ELSE t.child[sd][y]
      BY <1>2 DEF CutLinks
    <3> QED
      BY <1>2, <1>3, <3>1, <3>2 DEF Fine
  <2> QED
    BY <2>1 DEF NoRedRed
<1> HIDE DEF c
<1> QED
  BY <1>4, <1>6, <1>7, <1>8 DEF Level

\* What is not of H, but n perhaps, is apart.
CleanBut(t, H, n) == mAnchor \in t.red /\ \A z \in Nodes \ H : z # n => Apart(t, z)

\* The first item or the last one is taken out.
LEMMA OutermostCut ==
  ASSUME NEW t, NEW u, NEW H, NEW r, NEW q, NEW e, NEW L, Placed(t, H, q, e, L), Listed(r, q, H, L),
         Clean(t, H), NEW n, NEW x, OnlyChild(t, H, n, x), CutOut(t, u, n, x),
         NEW s \in Sides, q[n] = Far(L, s)
  PROVE  IF t.child[Other(s)][n] # NULL
         THEN Outermost(u, s, x) \in H \ {n} /\ Closed(H, q, n)[Outermost(u, s, x)] = Far(L - 1, s)
         ELSE IF H \ {n} = {} THEN t.parent[n] = mAnchor
         ELSE t.parent[n] \in H \ {n} /\ Closed(H, q, n)[t.parent[n]] = Far(L - 1, s)
<1>1. PICK v, f, G, l : v = Closed(H, q, n) /\ f = ClosedEnds(H, q, e, n) /\ G = H \ {n} /\ l = Removed(r, L, q[n])
  OBVIOUS
<1>2. n \in H /\ x \in H \cup {NULL} /\ x # n /\ n # NULL /\ n # mAnchor
  BY PlacesAreNumbers, ChildIsHeld DEF OnlyChild
<1>3. q[n] \in 1..L /\ L \in Nat /\ e["left"][n] \in 1..L /\ e["right"][n] \in 1..L
  BY <1>2, PlacesAreNumbers
<1>4. \A sd \in Sides : t.child[sd][n] # NULL => t.child[sd][n] = x
  BY DEF OnlyChild, Sides, Other
<1>5. CASE t.child[Other(s)][n] # NULL
  <2>1. x = t.child[Other(s)][n] /\ x \in H /\ x # NULL /\ x \in G
    BY <1>1, <1>2, <1>4, <1>5, OtherSide
  <2>2. Below(q, e, n, x, Other(s))
    BY <1>2, <1>5, <2>1, OtherSide, ChildIsBelow
  <2>3. ClosedAt(q, e, v, f, n, L, x)
    BY <1>1, <1>2, <2>1, ClosedNumbers
  <2>4. f[s][x] = Far(L - 1, s)
    BY <1>3, <2>2, <2>3 DEF Below, ClosedAt, Far, Sides, Other
  <2>5. Placed(u, G, v, f, L - 1) /\ L - 1 \in Nat
    <3>1. Placed(u, G, v, f, L - 1)
      BY <1>1, CutIsPlaced
    <3> QED
      BY <3>1 DEF Placed
  <2>6. Listed(l, v, G, L - 1)
    BY <1>1, <1>2, <1>3, CutIsListed
  <2>7. LeadsIn(u, G, s)
    <3>1. ASSUME NEW m \in Nodes \ G PROVE u.child[s][m] \in G \cup {NULL}
      <4>1. u.child[s][m] = IF n # Root(t) /\ m = t.parent[n] /\ s = SideOf(t, n) THEN x ELSE t.child[s][m]
        BY DEF CutOut
      <4>2. x \in G \cup {NULL}
        BY <2>1
      <4>3. m = n => t.child[s][m] \in G \cup {NULL}
        BY <1>4, <2>1
      <4>4. m # n => t.child[s][m] = NULL
        BY <1>1 DEF Clean, Apart
      <4> QED
        BY <4>1, <4>2, <4>3, <4>4
    <3> QED
      BY <3>1 DEF LeadsIn
  <2>8. Outermost(u, s, x) = l[f[s][x]]
    BY <2>1, <2>5, <2>6, <2>7, OutermostIs
  <2>9. f[s][x] \in 1..(L - 1)
    BY <2>1, <2>5, PlacesAreNumbers DEF Sides
  <2> QED
    BY <1>1, <1>5, <2>4, <2>6, <2>8, <2>9, ListedNumbers
<1>6. CASE t.child[Other(s)][n] = NULL
  <2>1. t.child[s][n] = NULL
    <3>1. t.child[s][n] # NULL => FALSE
      <4> SUFFICES ASSUME t.child[s][n] # NULL PROVE FALSE
        OBVIOUS
      <4>1. Below(q, e, n, t.child[s][n], s) /\ Around(q, e, n) /\ t.child[s][n] \in H
        BY <1>2, ChildIsBelow
      <4>2. e["left"][t.child[s][n]] \in 1..L /\ e["right"][t.child[s][n]] \in 1..L
        BY <4>1, PlacesAreNumbers
      <4> QED
        BY <1>3, <4>1, <4>2 DEF Below, Far, Sides
    <3> QED
      BY <3>1
  <2>2. x = NULL
    BY <1>6, <2>1 DEF OnlyChild, Sides, Other
  <2>3. e["left"][n] = q[n] /\ e["right"][n] = q[n]
    BY <2>2, OnlyChildEnds
  <2>4. CASE n = Root(t)
    <3>1. Hangs(t, H, e, L, n)
      BY <1>2 DEF Placed
    <3>2. t.parent[n] = mAnchor /\ L = 1
      BY <2>3, <2>4, <3>1 DEF Hangs
    <3>3. G = {}
      <4>1. ASSUME NEW z \in H PROVE z = n
        <5>1. q[z] \in 1..L /\ r[q[z]] = z /\ r[q[n]] = n
          BY <1>2, ListedNumbers
        <5>2. q[z] = q[n]
          BY <1>3, <3>2, <5>1
        <5> QED
          BY <5>1, <5>2
      <4> QED
        BY <1>1, <4>1
    <3> QED
      BY <1>1, <1>6, <3>2, <3>3
  <2>5. CASE n # Root(t)
    <3>1. PICK p : p = t.parent[n]
      OBVIOUS
    <3>2. p \in H /\ SideOf(t, n) \in Sides /\ Below(q, e, p, n, SideOf(t, n)) /\ n = t.child[SideOf(t, n)][p]
      BY <1>2, <2>5, <3>1, ParentIsAbove
    <3>3. p # n
      BY <3>2, ChildIsHeld
    <3>4. ClosedAt(q, e, v, f, n, L, p)
      BY <1>1, <1>2, <3>2, <3>3, ClosedNumbers
    <3>5. v[p] = Far(L - 1, s)
      BY <1>3, <2>3, <3>2, <3>4 DEF Below, ClosedAt, Far, Sides
    <3> QED
      BY <1>1, <1>6, <3>1, <3>2, <3>3, <3>5
  <2> QED
    BY <2>4, <2>5
<1> QED
  BY <1>5, <1>6

LEMMA EndIsFar ==
  ASSUME NEW t, NEW H, NEW q, NEW L, Ends(t, H, q, L), H # {}, NEW s \in Sides
  PROVE  t.child[s][mAnchor] \in H /\ q[t.child[s][mAnchor]] = Far(L, s)
  BY DEF Ends, Sides, Far

LEMMA UnlinkIs ==
  ASSUME NEW t, NEW H, NEW r, NEW q, NEW e, NEW L, Placed(t, H, q, e, L), Listed(r, q, H, L),
         Ends(t, H, q, L), Clean(t, H), NEW n, NEW x, OnlyChild(t, H, n, x)
  PROVE  /\ CutOut(t, Unlink(t, n, x), n, x) /\ CleanBut(Unlink(t, n, x), H \ {n}, n)
         /\ Ends(Unlink(t, n, x), H \ {n}, Closed(H, q, n), L - 1)
<1>1. PICK p : p = t.parent[n]
  OBVIOUS
<1>2. PICK cut : cut = Replace(Adopt(t, x, p), n, x)
  OBVIOUS
<1>3. CutOut(t, cut, n, x)
  BY <1>1, <1>2, CutIs
<1> DEFINE Outer(s) == IF n # t.child[s][mAnchor] THEN t.child[s][mAnchor]
                       ELSE IF t.child[Other(s)][n] # NULL THEN Outermost(cut, s, x)
                       ELSE p
<1>4. n \in H /\ x \in H \cup {NULL} /\ x # n /\ n \in Nodes /\ n \in Spots /\ mAnchor \in Spots /\ H \subseteq Spots
      /\ mAnchor \notin Nodes /\ n # mAnchor /\ mAnchor \in Links /\ mAnchor \in Spots \ Nodes
      /\ H \subseteq Links /\ H \subseteq Nodes
  <2>1. n \in H /\ x \in H \cup {NULL} /\ H \subseteq Nodes
    BY DEF OnlyChild, Placed
  <2> QED
    BY <2>1, PlacesAreNumbers, ChildIsHeld, SpotsAreNumbers DEF OnlyChild, Spots, Links
<1>5. q[n] \in 1..L /\ L \in Nat
  BY <1>4, PlacesAreNumbers
<1>6. PICK G, v : G = H \ {n} /\ v = Closed(H, q, n)
  OBVIOUS
<1>7. ASSUME NEW s \in Sides
      PROVE  /\ G # {} => Outer(s) \in G /\ v[Outer(s)] = Far(L - 1, s)
             /\ G = {} => Outer(s) = mAnchor
  <2>1. t.child[s][mAnchor] \in H /\ q[t.child[s][mAnchor]] = Far(L, s)
    BY <1>4, EndIsFar
  <2>2. CASE n # t.child[s][mAnchor]
    <3>1. PICK a : a = t.child[s][mAnchor]
      OBVIOUS
    <3>2. a \in G /\ q[a] = Far(L, s) /\ a \in H /\ a # n
      BY <1>6, <2>1, <2>2, <3>1
    <3>3. ClosedAt(q, e, v, ClosedEnds(H, q, e, n), n, L, a)
      BY <1>4, <1>6, <3>2, ClosedNumbers
    <3>4. v[a] = Far(L - 1, s)
      BY <1>5, <3>2, <3>3 DEF ClosedAt, Far, Sides
    <3> QED
      BY <2>2, <3>1, <3>2, <3>4
  <2>3. CASE n = t.child[s][mAnchor]
    <3>1. q[n] = Far(L, s)
      BY <2>1, <2>3
    <3>2. IF t.child[Other(s)][n] # NULL
          THEN Outermost(cut, s, x) \in G /\ v[Outermost(cut, s, x)] = Far(L - 1, s)
          ELSE IF G = {} THEN p = mAnchor
          ELSE p \in G /\ v[p] = Far(L - 1, s)
      BY <1>1, <1>3, <1>6, <3>1, OutermostCut
    <3> QED
      BY <2>3, <3>2
  <2> QED
    BY <2>2, <2>3
<1>8. \A s \in Sides : Outer(s) \in Links
  <2>1. \A s \in Sides : Outer(s) \in G \cup {mAnchor}
    BY <1>7
  <2> HIDE DEF Outer
  <2> QED
    BY <1>4, <1>6, <2>1
<1>9. PICK a, c : a = Outer("left") /\ c = Outer("right")
  OBVIOUS
<1>10. PICK m : m = Link(cut, mAnchor, "left", a)
  OBVIOUS
<1>11. PICK w : w = Link(m, mAnchor, "right", c)
  OBVIOUS
<1>12. w = Unlink(t, n, x)
  BY <1>1, <1>2, <1>9, <1>10, <1>11, Zenon DEF Unlink
<1>13. a \in Links /\ c \in Links /\ cut \in Trees
  BY <1>3, <1>8, <1>9 DEF Sides, CutOut
<1>14. Linked(cut, m, mAnchor, "left", a)
  BY <1>4, <1>10, <1>13, LinkIs DEF Sides
<1>15. Linked(m, w, mAnchor, "right", c)
  <2>1. m \in Trees
    BY <1>14 DEF Linked
  <2> QED
    BY <1>4, <1>11, <1>13, <2>1, LinkIs DEF Sides
<1>16. /\ w \in Trees /\ w.red = cut.red /\ w.mnSize = cut.mnSize /\ w.parent = cut.parent
       /\ \A sd \in Sides, z \in Nodes : w.child[sd][z] = cut.child[sd][z]
       /\ w.child["left"][mAnchor] = a /\ w.child["right"][mAnchor] = c
  <2>1. \A sd \in Sides, z \in Nodes : z \in Spots /\ z # mAnchor
    BY SpotsAreNumbers DEF Spots
  <2> QED
    BY <1>4, <1>14, <1>15, <2>1 DEF Linked, Sides
<1>17. CutOut(t, w, n, x)
  BY <1>3, <1>16 DEF CutOut
<1>18. Ends(w, G, v, L - 1)
  <2>1. "left" \in Sides /\ "right" \in Sides /\ Far(L - 1, "left") = 1 /\ Far(L - 1, "right") = L - 1
    BY DEF Sides, Far
  <2>2. G # {} => a \in G /\ c \in G /\ v[a] = 1 /\ v[c] = L - 1
    BY <1>7, <1>9, <2>1
  <2>3. G = {} => a = mAnchor /\ c = mAnchor
    BY <1>7, <1>9, <2>1
  <2> HIDE DEF Outer
  <2> QED
    BY <1>16, <2>2, <2>3 DEF Ends, Sides
<1>19. CleanBut(w, G, n)
  <2>1. mAnchor \in w.red
    BY <1>17 DEF Clean, CutOut
  <2>2. ASSUME NEW z \in Nodes \ G, z # n PROVE Apart(w, z)
    <3>1. z \notin H /\ Apart(t, z) /\ z \in Spots /\ z # mAnchor
      BY <1>4, <1>6, <2>2, SpotsAreNumbers DEF Clean, Spots
    <3>2. w.parent[z] = t.parent[z]
      <4>1. z # x
        BY <1>4, <3>1, SpotsAreNumbers
      <4> QED
        BY <1>17, <3>1, <4>1 DEF CutOut
    <3>3. \A sd \in Sides : w.child[sd][z] = t.child[sd][z]
      <4>1. n # Root(t) => t.parent[n] \in H
        BY <1>4, ParentIsAbove
      <4> QED
        BY <1>17, <3>1, <4>1 DEF CutOut
    <3>4. w.red = t.red
      BY <1>17 DEF CutOut
    <3> QED
      BY <3>1, <3>2, <3>3, <3>4 DEF Apart
  <2> QED
    BY <2>1, <2>2 DEF CleanBut
<1> HIDE DEF Outer
<1> QED
  BY <1>6, <1>12, <1>17, <1>18, <1>19
=============================================================================
