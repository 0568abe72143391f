----------------------------- MODULE TreeProofs -----------------------------
(* The red-black tree is one after every sequence of calls and holds the     *)
(* items that it should, in order, for every number of nodes.                *)
(*                                                                           *)
(* An erasure first exchanges the node with its successor when it has two    *)
(* children (Renamed), takes it out of its place (which closes the gap in    *)
(* the numbers of the nodes behind it), and repairs the height that lacks a  *)
(* black node.  The keys of the items follow their places (Ordered): a       *)
(* search goes down an interval of places, and what it ends at is the first  *)
(* place whose item is not less.  TreeInv, that some set of nodes is held    *)
(* soundly and in the order of the keys, is inductive; the walks, searches   *)
(* and colours that TreeSound speaks of follow from it.                      *)
EXTENDS TreeShapeProofs

-----------------------------------------------------------------------------
(* A node that takes the place of another.                                   *)

\* y where n was.
Put(n, y, z) == IF z = n THEN y ELSE z

\* U is G with y for n, and u is t with y for n.
Renamed(t, u, G, n, y, U) ==
  /\ n \in G /\ y \in Nodes \ G /\ U = (G \ {n}) \cup {y} /\ u \in Trees
  /\ \A z \in U, sd \in Sides : u.child[sd][z] = Put(n, y, t.child[sd][Put(y, n, z)])
  /\ \A z \in U : /\ u.parent[z] = Put(n, y, t.parent[Put(y, n, z)])
                  /\ z \in u.red <=> Put(y, n, z) \in t.red
  /\ Root(u) = Put(n, y, Root(t))

\* Numbers and ends of the nodes that are there now.
PutAt(U, v, n, y) == [z \in U |-> v[Put(y, n, z)]]
PutHeights(U, b, n, y) == [z \in U \cup {NULL} |-> b[Put(y, n, z)]]
PutEnds(U, f, n, y) == [sd \in Sides |-> [z \in U |-> f[sd][Put(y, n, z)]]]

\* y, which is not of G, comes for n.
Exchanged(G, n, y, U) == G \subseteq Nodes /\ n \in G /\ y \in Nodes \ G /\ U = (G \ {n}) \cup {y}

LEMMA PutBack ==
  ASSUME NEW G, NEW n, NEW y, NEW U, Exchanged(G, n, y, U)
  PROVE  /\ \A z \in G : Put(n, y, z) \in U /\ Put(y, n, Put(n, y, z)) = z
         /\ \A z \in U : Put(y, n, z) \in G /\ Put(n, y, Put(y, n, z)) = z
         /\ Put(n, y, NULL) = NULL /\ Put(y, n, NULL) = NULL /\ Put(n, y, mAnchor) = mAnchor
         /\ \A z \in G : Put(n, y, z) # NULL /\ Put(n, y, z) # mAnchor
         /\ n # NULL /\ y # NULL /\ n # mAnchor /\ y # mAnchor /\ NULL \notin U /\ NULL \notin G
         /\ mAnchor \notin U /\ mAnchor \notin G
<1>1. NULL \notin Nodes /\ mAnchor \notin Nodes /\ NULL # mAnchor
  BY SpotsAreNumbers DEF Spots
<1> QED
  BY <1>1 DEF Put, Exchanged

LEMMA RenamedPlaced ==
  ASSUME NEW t, NEW u, NEW G, NEW n, NEW y, NEW U, Renamed(t, u, G, n, y, U),
         NEW v, NEW f, NEW M, Placed(t, G, v, f, M)
  PROVE  Placed(u, U, PutAt(U, v, n, y), PutEnds(U, f, n, y), M)
<1>1. PICK w, g : w = PutAt(U, v, n, y) /\ g = PutEnds(U, f, n, y)
  OBVIOUS
<1>2. /\ G \subseteq Nodes /\ n \in G /\ y \in Nodes \ G /\ U = (G \ {n}) \cup {y} /\ u \in Trees /\ U \subseteq Nodes
      /\ M \in Nat /\ v \in [G -> 1..M] /\ f \in [Sides -> [G -> 1..M]]
  BY DEF Renamed, Placed
<1>3. /\ \A z \in G : Put(n, y, z) \in U /\ Put(y, n, Put(n, y, z)) = z
      /\ \A z \in U : Put(y, n, z) \in G /\ Put(n, y, Put(y, n, z)) = z
      /\ Put(n, y, NULL) = NULL /\ Put(n, y, mAnchor) = mAnchor
      /\ \A z \in G : Put(n, y, z) # NULL /\ Put(n, y, z) # mAnchor
      /\ NULL \notin U /\ NULL \notin G /\ mAnchor \notin G
  <2>1. Exchanged(G, n, y, U)
    BY <1>2 DEF Exchanged
  <2> QED
    BY <2>1, PutBack
<1>4. \A z \in U : w[z] = v[Put(y, n, z)] /\ \A sd \in Sides : g[sd][z] = f[sd][Put(y, n, z)]
  BY <1>1 DEF PutAt, PutEnds
<1>5. \A z \in G : w[Put(n, y, z)] = v[z] /\ \A sd \in Sides : g[sd][Put(n, y, z)] = f[sd][z]
  BY <1>3, <1>4
<1>6. w \in [U -> 1..M] /\ g \in [Sides -> [U -> 1..M]]
  <2>1. \A z \in U : v[Put(y, n, z)] \in 1..M /\ \A sd \in Sides : f[sd][Put(y, n, z)] \in 1..M
    BY <1>2, <1>3
  <2> QED
    BY <1>1, <2>1 DEF PutAt, PutEnds
<1>7. \A z \in U : Around(w, g, z)
  <2>1. \A z \in G : Around(v, f, z)
    BY DEF Placed
  <2> QED
    BY <1>3, <1>4, <2>1 DEF Around, Sides
<1>8. ASSUME NEW z \in U, NEW sd \in Sides PROVE Arm(u, U, w, g, z, sd)
  <2>1. PICK o : o = Put(y, n, z)
    OBVIOUS
  <2>2. o \in G /\ Put(n, y, o) = z
    BY <1>3, <2>1
  <2>3. PICK c : c = t.child[sd][o]
    OBVIOUS
  <2>4. Arm(t, G, v, f, o, sd)
    BY <2>2 DEF Placed
  <2>5. u.child[sd][z] = Put(n, y, c)
    BY <2>1, <2>3 DEF Renamed
  <2>6. CASE c = NULL
    <3>1. f[sd][o] = v[o]
      BY <2>3, <2>4, <2>6 DEF Arm
    <3>2. u.child[sd][z] = NULL
      BY <1>3, <2>5, <2>6
    <3>3. g[sd][z] = w[z]
      BY <1>4, <2>1, <3>1
    <3> QED
      BY <3>2, <3>3 DEF Arm
  <2>7. CASE c # NULL
    <3>1. c \in G /\ t.parent[c] = o /\ f[sd][c] = f[sd][o] /\ f[Other(sd)][c] = v[o] + Dir(sd)
      BY <2>3, <2>4, <2>7 DEF Arm
    <3>2. PICK d : d = Put(n, y, c)
      OBVIOUS
    <3>3. d \in U /\ d # NULL /\ Put(y, n, d) = c /\ u.child[sd][z] = d
      BY <1>3, <2>5, <3>1, <3>2
    <3>4. u.parent[d] = z
      BY <2>2, <3>1, <3>3 DEF Renamed
    <3>5. g[sd][d] = f[sd][c] /\ g[Other(sd)][d] = f[Other(sd)][c] /\ g[sd][z] = f[sd][o] /\ w[z] = v[o]
      BY <1>4, <2>1, <3>3, OtherSide
    <3> QED
      BY <3>1, <3>3, <3>4, <3>5 DEF Arm
  <2> QED
    BY <2>6, <2>7
<1>9. ASSUME NEW z \in U PROVE Hangs(u, U, g, M, z)
  <2>1. PICK o : o = Put(y, n, z)
    OBVIOUS
  <2>2. o \in G /\ Put(n, y, o) = z
    BY <1>3, <2>1
  <2>3. Hangs(t, G, f, M, o)
    BY <2>2 DEF Placed
  <2>4. u.parent[z] = Put(n, y, t.parent[o])
    BY <2>1 DEF Renamed
  <2>5. Root(u) = Put(n, y, Root(t)) /\ Root(t) \in G
    BY <2>2 DEF Renamed, Placed
  <2>6. z = Root(u) <=> o = Root(t)
    BY <1>3, <2>1, <2>2, <2>5
  <2>7. g["left"][z] = f["left"][o] /\ g["right"][z] = f["right"][o]
    BY <1>4, <2>1 DEF Sides
  <2>8. CASE o = Root(t)
    <3>1. t.parent[o] = mAnchor /\ f["left"][o] = 1 /\ f["right"][o] = M
      BY <2>3, <2>8 DEF Hangs
    <3> QED
      BY <1>3, <2>4, <2>6, <2>7, <2>8, <3>1 DEF Hangs
  <2>9. CASE o # Root(t)
    <3>1. PICK p, sd : p = t.parent[o] /\ p \in G /\ sd \in Sides /\ o = t.child[sd][p]
      BY <2>3, <2>9 DEF Hangs
    <3>2. u.parent[z] \in U /\ Put(y, n, u.parent[z]) = p
      BY <1>3, <2>4, <3>1
    <3>3. u.child[sd][u.parent[z]] = z
      BY <2>2, <3>1, <3>2 DEF Renamed
    <3> QED
      BY <2>6, <2>9, <3>1, <3>2, <3>3 DEF Hangs
  <2> QED
    BY <2>8, <2>9
<1>10. U # {} /\ Root(u) \in U
  <2>1. Root(t) \in G
    BY <1>2 DEF Placed
  <2>2. Root(u) = Put(n, y, Root(t))
    BY DEF Renamed
  <2> QED
    BY <1>2, <1>3, <2>1, <2>2
<1> QED
  BY <1>1, <1>2, <1>6, <1>7, <1>8, <1>9, <1>10 DEF Placed

LEMMA RenamedListed ==
  ASSUME NEW t, NEW u, NEW G, G \subseteq Nodes, NEW n, NEW y, NEW U, Renamed(t, u, G, n, y, U),
         NEW l, NEW v, NEW M, Listed(l, v, G, M)
  PROVE  Listed([i \in 1..M |-> Put(n, y, l[i])], PutAt(U, v, n, y), U, M)
<1>1. PICK w, s : w = PutAt(U, v, n, y) /\ s = [i \in 1..M |-> Put(n, y, l[i])]
  OBVIOUS
<1>2. n \in G /\ y \in Nodes \ G /\ U = (G \ {n}) \cup {y}
  BY DEF Renamed
<1>3. /\ \A z \in G : Put(n, y, z) \in U /\ Put(y, n, Put(n, y, z)) = z
      /\ \A z \in U : Put(y, n, z) \in G /\ Put(n, y, Put(y, n, z)) = z
  <2>1. Exchanged(G, n, y, U)
    BY <1>2 DEF Exchanged
  <2> QED
    BY <2>1, PutBack
<1>4. /\ \A z \in G : v[z] \in 1..M /\ l[v[z]] = z
      /\ \A i \in 1..M : l[i] \in G /\ v[l[i]] = i
  BY ListedNumbers
<1>5. \A z \in U : w[z] = v[Put(y, n, z)]
  BY <1>1 DEF PutAt
<1>6. \A i \in 1..M : s[i] = Put(n, y, l[i])
  BY <1>1
<1>7. s \in [1..M -> U] /\ w \in [U -> 1..M]
  <2>1. s = [i \in 1..M |-> s[i]] /\ w = [z \in U |-> w[z]]
    BY <1>1 DEF PutAt
  <2> QED
    BY <1>3, <1>4, <1>5, <1>6, <2>1
<1>8. \A i \in 1..M : w[s[i]] = i
  BY <1>3, <1>4, <1>5, <1>6
<1>9. \A z \in U : s[w[z]] = z
  BY <1>3, <1>4, <1>5, <1>6
<1> QED
  BY <1>1, <1>7, <1>8, <1>9 DEF Listed

LEMMA RenamedHeights ==
  ASSUME NEW t, NEW u, NEW G, NEW n, NEW y, NEW U, Renamed(t, u, G, n, y, U),
         NEW v, NEW f, NEW M, Placed(t, G, v, f, M),
         NEW b, NEW xp \in G \cup {mAnchor}, NEW sx, Heights(t, G, b, xp, sx)
  PROVE  Heights(u, U, PutHeights(U, b, n, y), Put(n, y, xp), sx)
<1>1. PICK c : c = PutHeights(U, b, n, y)
  OBVIOUS
<1>2. G \subseteq Nodes /\ n \in G /\ y \in Nodes \ G /\ U = (G \ {n}) \cup {y}
  BY DEF Renamed, Placed
<1>3. /\ \A z \in G : Put(n, y, z) \in U /\ Put(y, n, Put(n, y, z)) = z
      /\ \A z \in U : Put(y, n, z) \in G /\ Put(n, y, Put(y, n, z)) = z
      /\ Put(n, y, NULL) = NULL /\ Put(y, n, NULL) = NULL /\ Put(n, y, mAnchor) = mAnchor
      /\ NULL \notin U /\ NULL \notin G /\ mAnchor \notin U /\ mAnchor \notin G
  <2>1. Exchanged(G, n, y, U)
    BY <1>2 DEF Exchanged
  <2> QED
    BY <2>1, PutBack
<1>4. b \in [G \cup {NULL} -> Nat] /\ b[NULL] = 0
  BY DEF Heights
<1>5. \A z \in U \cup {NULL} : c[z] = b[Put(y, n, z)] /\ Put(y, n, z) \in G \cup {NULL}
  BY <1>1, <1>3 DEF PutHeights
<1>6. c \in [U \cup {NULL} -> Nat] /\ c[NULL] = 0
  <2>1. c = [z \in U \cup {NULL} |-> c[z]]
    BY <1>1 DEF PutHeights
  <2> QED
    BY <1>3, <1>4, <1>5, <2>1
<1>7. ASSUME NEW z \in U, NEW sd \in Sides
      PROVE  c[z] = c[u.child[sd][z]] + Weight(u, z) + Lack(Put(n, y, xp), sx, z, sd)
  <2>1. PICK o : o = Put(y, n, z)
    OBVIOUS
  <2>2. o \in G /\ Put(n, y, o) = z
    BY <1>3, <2>1
  <2>3. b[o] = b[t.child[sd][o]] + Weight(t, o) + Lack(xp, sx, o, sd)
    BY <2>2 DEF Heights
  <2>4. c[u.child[sd][z]] = b[t.child[sd][o]]
    <3>1. t.child[sd][o] \in G \cup {NULL}
      BY <2>2, ChildIsHeld
    <3>2. u.child[sd][z] = Put(n, y, t.child[sd][o])
      BY <2>1 DEF Renamed
    <3>3. u.child[sd][z] \in U \cup {NULL} /\ Put(y, n, u.child[sd][z]) = t.child[sd][o]
      BY <1>3, <3>1, <3>2
    <3> QED
      BY <1>5, <3>3
  <2>5. Weight(u, z) = Weight(t, o)
    BY <2>1 DEF Renamed, Weight
  <2>6. Lack(Put(n, y, xp), sx, z, sd) = Lack(xp, sx, o, sd)
    <3>1. z = Put(n, y, xp) <=> o = xp
      BY <1>3, <2>1, <2>2
    <3> QED
      BY <3>1 DEF Lack
  <2>7. c[z] = b[o]
    BY <1>5, <2>1
  <2> QED
    BY <2>3, <2>4, <2>5, <2>6, <2>7
<1> QED
  BY <1>1, <1>6, <1>7 DEF Heights

LEMMA RenamedColours ==
  ASSUME NEW t, NEW u, NEW G, NEW n, NEW y, NEW U, Renamed(t, u, G, n, y, U),
         NEW v, NEW f, NEW M, Placed(t, G, v, f, M), NEW x \in G \cup {NULL}
  PROVE  /\ NoRedRed(t, G, x) => NoRedRed(u, U, Put(n, y, x))
         /\ Root(u) \in u.red <=> Root(t) \in t.red
<1>1. G \subseteq Nodes /\ n \in G /\ y \in Nodes \ G /\ U = (G \ {n}) \cup {y} /\ u \in Trees /\ t \in Trees
  BY DEF Renamed, Placed
<1>2. /\ \A z \in G : Put(n, y, z) \in U /\ Put(y, n, Put(n, y, z)) = z
      /\ \A z \in U : Put(y, n, z) \in G /\ Put(n, y, Put(y, n, z)) = z
      /\ Put(n, y, NULL) = NULL /\ Put(y, n, NULL) = NULL
      /\ NULL \notin U /\ NULL \notin G
  <2>1. Exchanged(G, n, y, U)
    BY <1>1 DEF Exchanged
  <2> QED
    BY <2>1, PutBack
<1>3. NULL \notin u.red
  BY <1>1, SpotsAreNumbers DEF Trees
<1>4. \A z \in U : z \in u.red <=> Put(y, n, z) \in t.red
  BY DEF Renamed
<1>5. ASSUME NoRedRed(t, G, x), NEW z \in U, NEW sd \in Sides
      PROVE  Fine(u, z, u.child[sd][z], Put(n, y, x))
  <2>1. PICK o, c : o = Put(y, n, z) /\ c = t.child[sd][o]
    OBVIOUS
  <2>2. o \in G /\ Put(n, y, o) = z /\ u.child[sd][z] = Put(n, y, c) /\ c \in G \cup {NULL}
    BY <1>2, <2>1, ChildIsHeld DEF Renamed
  <2>3. Fine(t, o, c, x)
    BY <1>5, <2>1, <2>2 DEF NoRedRed
  <2>4. CASE c = NULL
    BY <1>2, <1>3, <2>2, <2>4 DEF Fine
  <2>5. CASE c \in G
    <3>1. Put(n, y, c) \in u.red <=> c \in t.red
      BY <1>2, <1>4, <2>5
    <3>2. z \in u.red <=> o \in t.red
      BY <1>4, <2>1
    <3> QED
      BY <2>2, <2>3, <3>1, <3>2 DEF Fine
  <2> QED
    BY <2>2, <2>4, <2>5
<1>6. Root(u) \in u.red <=> Root(t) \in t.red
  <2>1. Root(t) \in G /\ Root(u) = Put(n, y, Root(t))
    BY <1>1 DEF Placed, Renamed
  <2> QED
    BY <1>2, <1>4, <2>1
<1> QED
  BY <1>5, <1>6 DEF NoRedRed

LEMMA RenamedLack ==
  ASSUME NEW t, NEW u, NEW G, NEW n, NEW y, NEW U, Renamed(t, u, G, n, y, U), G \subseteq Nodes,
         NEW xp, NEW sx, NEW x, LackingAt(t, G, xp, sx, x)
  PROVE  LackingAt(u, U, Put(n, y, xp), sx, Put(n, y, x))
<1>1. n \in G /\ y \in Nodes \ G /\ U = (G \ {n}) \cup {y}
  BY DEF Renamed
<1>2. /\ \A z \in G : Put(n, y, z) \in U /\ Put(y, n, Put(n, y, z)) = z
      /\ Put(n, y, mAnchor) = mAnchor
  <2>1. Exchanged(G, n, y, U)
    BY <1>1 DEF Exchanged
  <2> QED
    BY <2>1, PutBack
<1>3. CASE xp = mAnchor /\ x = Root(t)
  BY <1>2, <1>3 DEF LackingAt, Renamed
<1>4. CASE xp \in G /\ sx \in Sides /\ x = t.child[sx][xp]
  BY <1>2, <1>4 DEF LackingAt, Renamed
<1> QED
  BY <1>3, <1>4 DEF LackingAt

\* n has two children, and y is next.
IsSuccessor(t, H, q, n, y) ==
  /\ n \in H /\ y \in H /\ y # n /\ q[y] = q[n] + 1
  /\ t.child["left"][y] = NULL /\ t.child["left"][n] # NULL /\ t.child["right"][n] # NULL
  /\ \/ y = t.child["right"][n] /\ t.parent[y] = n
     \/ /\ y # t.child["right"][n] /\ t.parent[y] \in H /\ t.parent[y] # n /\ t.parent[y] # y
        /\ y = t.child["left"][t.parent[y]]

LEMMA SuccessorIs ==
  ASSUME NEW t, NEW H, NEW r, NEW q, NEW e, NEW L, Placed(t, H, q, e, L), Listed(r, q, H, L), Clean(t, H),
         NEW n \in H, t.child["left"][n] # NULL, t.child["right"][n] # NULL
  PROVE  IsSuccessor(t, H, q, n, Outermost(t, "left", t.child["right"][n]))
<1>1. PICK right : right = t.child["right"][n]
  OBVIOUS
<1>2. PICK y : y = Outermost(t, "left", right)
  OBVIOUS
<1>3. right \in H /\ e["left"][right] = q[n] + 1 /\ t.parent[right] = n
  BY <1>1, ChildIsBelow DEF Sides, Below
<1>4. "left" \in Sides /\ LeadsIn(t, H, "left")
  BY WalkableLeadsIn DEF Sides
<1>5. y = r[q[n] + 1] /\ t.child["left"][y] = NULL
  BY <1>2, <1>3, <1>4, OutermostIs
<1>6. q[n] \in 1..L /\ q[n] + 1 \in 1..L
  BY <1>3, PlacesAreNumbers
<1>7. y \in H /\ q[y] = q[n] + 1 /\ y # n
  <2>1. y \in H /\ q[y] = q[n] + 1
    BY <1>5, <1>6, ListedNumbers
  <2> QED
    BY <1>6, <2>1
<1>8. e["left"][y] = q[y]
  <2>1. Arm(t, H, q, e, y, "left")
    BY <1>7 DEF Placed, Sides
  <2> QED
    BY <1>5, <2>1 DEF Arm
<1>9. y # Root(t)
  <2>1. y = Root(t) => e["left"][y] = 1
    BY <1>7 DEF Placed, Hangs
  <2> QED
    BY <1>6, <1>7, <1>8, <2>1
<1>10. PICK p, sd : p = t.parent[y] /\ sd = SideOf(t, y)
  OBVIOUS
<1>11. p \in H /\ sd \in Sides /\ y = t.child[sd][p] /\ Below(q, e, p, y, sd)
  BY <1>7, <1>9, <1>10, ParentIsAbove
<1>12. p # y
  BY <1>11, ChildIsHeld
<1>13. q[p] \in 1..L /\ e["right"][y] \in 1..L /\ q[y] <= e["right"][y]
  BY <1>7, <1>11, PlacesAreNumbers
<1>14. CASE sd = "right"
  <2>1. q[p] = q[n]
    BY <1>6, <1>7, <1>8, <1>11, <1>13, <1>14 DEF Below
  <2>2. p = n
    BY <1>11, <2>1, ListedNumbers, SMTT(60)
  <2> QED
    BY <1>1, <1>2, <1>5, <1>7, <1>10, <1>11, <1>14, <2>2 DEF IsSuccessor
<1>15. CASE sd = "left"
  <2>1. p # n
    BY <1>6, <1>7, <1>11, <1>13, <1>15 DEF Below
  <2>2. y # right
    BY <1>3, <1>10, <2>1
  <2> QED
    BY <1>1, <1>2, <1>5, <1>7, <1>10, <1>11, <1>12, <1>15, <2>1, <2>2, Zenon DEF IsSuccessor
<1> QED
  BY <1>11, <1>14, <1>15 DEF Sides

\* The nodes around n and y, which are different.
Surroundings(t, H, n, y, x, left, right, p, py) ==
  /\ t \in Trees /\ n \in H /\ y \in H /\ y # n /\ H \subseteq Nodes
  /\ left = t.child["left"][n] /\ right = t.child["right"][n] /\ left \in H /\ right \in H
  /\ x = t.child["right"][y] /\ x \in H \cup {NULL} /\ p = t.parent[n] /\ py = t.parent[y]
  /\ p \in Spots /\ py \in H
  /\ left # right /\ left # n /\ right # n /\ left # y
  /\ x # n /\ x # y /\ x # left /\ x # right /\ p # n /\ p # y /\ py # y
  /\ t.parent[left] = n /\ t.parent[right] = n /\ (x # NULL => t.parent[x] = y)
  /\ (n = Root(t) => p = mAnchor) /\ (n # Root(t) => p \in H /\ n = t.child[SideOf(t, n)][p])
  /\ y # Root(t) /\ t.child["left"][y] = NULL
  /\ (IF y = right THEN py = n ELSE py # n /\ y = t.child["left"][py])

LEMMA SurroundingsAre ==
  ASSUME NEW t, NEW H, NEW r, NEW q, NEW e, NEW L, Placed(t, H, q, e, L), Listed(r, q, H, L),
         NEW n, NEW y, IsSuccessor(t, H, q, n, y)
  PROVE  Surroundings(t, H, n, y, t.child["right"][y], t.child["left"][n], t.child["right"][n],
                      t.parent[n], t.parent[y])
<1>1. PICK x, left, right, p, py : /\ x = t.child["right"][y] /\ left = t.child["left"][n]
                                   /\ right = t.child["right"][n] /\ p = t.parent[n] /\ py = t.parent[y]
  OBVIOUS
<1>2. n \in H /\ y \in H /\ y # n /\ left # NULL /\ right # NULL /\ q[y] = q[n] + 1 /\ t.child["left"][y] = NULL
  BY <1>1 DEF IsSuccessor
<1>3. left \in H /\ right \in H /\ t.parent[left] = n /\ t.parent[right] = n /\ left # n /\ right # n
  BY <1>1, <1>2, ChildIsBelow DEF Sides
<1>4. left # right
  BY <1>1, <1>2, ChildrenDiffer DEF Sides, Other
<1>5. x \in H \cup {NULL} /\ x # y /\ (x # NULL => t.parent[x] = y)
  BY <1>1, <1>2, ChildIsHeld DEF Sides
<1>6. left # y
  BY <1>1, <1>3, <1>4 DEF IsSuccessor
<1>7. py \in H /\ py # y
  BY <1>1, <1>2 DEF IsSuccessor
<1>8. NULL \notin H /\ n # NULL /\ y # mAnchor
  BY <1>2, PlacesAreNumbers
<1>9. q[n] \in 1..L
  BY <1>2, PlacesAreNumbers
<1>10. x # n
  <2>1. x # NULL => q[y] + 1 <= q[x]
    <3>1. x # NULL => Below(q, e, y, x, "right") /\ Around(q, e, x)
      BY <1>1, <1>2, ChildIsBelow DEF Sides
    <3> QED
      BY <3>1 DEF Below, Around
  <2> QED
    BY <1>2, <1>8, <1>9, <2>1
<1>11. x # left /\ x # right
  BY <1>2, <1>3, <1>5, <1>8
<1>12. p \in Spots /\ (n = Root(t) => p = mAnchor) /\ (n # Root(t) => p \in H /\ SideOf(t, n) \in Sides /\ n = t.child[SideOf(t, n)][p])
  BY <1>1, <1>2, ParentIsAbove
<1>13. p # n
  <2>1. n # mAnchor
    BY <1>2, PlacesAreNumbers
  <2> QED
    BY <1>12, <2>1, ChildIsHeld
<1>14. p # y
  <2>1. n # Root(t) => n = t.child["left"][p] \/ n = t.child["right"][p]
    BY <1>12 DEF Sides
  <2> QED
    BY <1>1, <1>2, <1>8, <1>10, <1>12, <2>1
<1>15. y # Root(t)
  <2>1. y = Root(t) => py = mAnchor
    BY <1>1, <1>2, ParentIsAbove
  <2>2. py # mAnchor
    BY <1>7, PlacesAreNumbers
  <2> QED
    BY <2>1, <2>2
<1>16. t \in Trees /\ H \subseteq Nodes
  BY DEF Placed
<1>17. IF y = right THEN py = n ELSE py # n /\ y = t.child["left"][py]
  BY <1>1 DEF IsSuccessor
<1> QED
  BY <1>1, <1>2, <1>3, <1>4, <1>5, <1>6, <1>7, <1>10, <1>11, <1>12, <1>13, <1>14, <1>15, <1>16, <1>17 DEF Surroundings

\* u is t with y in the place of n and x in that of y.
Supplanted(t, u, n, y, x, left, right, p, py) ==
  /\ u \in Trees /\ u.mnSize = t.mnSize
  /\ u.red = IF n \in t.red THEN t.red \cup {y} ELSE t.red \ {y}
  /\ \A sd \in Sides, z \in Spots :
       u.child[sd][z] =
         IF n # Root(t) /\ z = p /\ sd = SideOf(t, n) THEN y
         ELSE IF z = y /\ sd = "left" THEN left
         ELSE IF z = y /\ y # right THEN right
         ELSE IF z = py /\ y # right /\ sd = "left" THEN x
         ELSE t.child[sd][z]
  /\ \A z \in Spots :
       u.parent[z] =
         IF z = y THEN p
         ELSE IF z = mAnchor /\ n = Root(t) THEN y
         ELSE IF z = left \/ z = right THEN y
         ELSE IF z = x /\ y # right THEN py
         ELSE t.parent[z]

LEMMA SupplantIs ==
  ASSUME NEW t, NEW H, NEW n, NEW y, NEW x, NEW left, NEW right, NEW p, NEW py,
         Surroundings(t, H, n, y, x, left, right, p, py)
  PROVE  Supplanted(t, Supplant(t, n, y, x), n, y, x, left, right, p, py)
<1> USE DEF Surroundings
<1>1. /\ n \in Spots /\ y \in Spots /\ left \in Spots /\ right \in Spots /\ p \in Spots /\ py \in Spots
      /\ n \in Links /\ y \in Links /\ left \in Links /\ right \in Links /\ p \in Links /\ py \in Links
      /\ x \in Links /\ mAnchor \in Spots /\ mAnchor \notin H /\ NULL \notin H
  BY SpotsAreNumbers DEF Spots, Links
<1>2. "left" \in Sides /\ "right" \in Sides
  BY DEF Sides
<1>3. PICK a : a = Adopt(t, left, y)
  OBVIOUS
<1>4. PICK t1 : t1 = Link(a, y, "left", left)
  OBVIOUS
<1>5. Adopted(t, a, left, y)
  BY <1>1, <1>3, AdoptIs
<1>6. Linked(a, t1, y, "left", left)
  <2>1. a \in Trees
    BY <1>5 DEF Adopted
  <2> QED
    BY <1>1, <1>2, <1>4, <2>1, LinkIs
<1>7. /\ t1 \in Trees /\ t1.red = t.red /\ t1.mnSize = t.mnSize
      /\ \A sd \in Sides, z \in Spots : t1.child[sd][z] = IF z = y /\ sd = "left" THEN left ELSE t.child[sd][z]
      /\ \A z \in Spots : t1.parent[z] = IF z = left THEN y ELSE t.parent[z]
  BY <1>5, <1>6 DEF Adopted, Linked
<1>8. PICK t2 : t2 = IF y = right THEN t1
                     ELSE Adopt(Link(Link(Adopt(t1, x, py), py, "left", x), y, "right", right), right, y)
  OBVIOUS
<1>9. /\ t2 \in Trees /\ t2.red = t.red /\ t2.mnSize = t.mnSize
      /\ \A sd \in Sides, z \in Spots :
           t2.child[sd][z] = IF z = y /\ sd = "left" THEN left
                             ELSE IF z = y /\ y # right THEN right
                             ELSE IF z = py /\ y # right /\ sd = "left" THEN x
                             ELSE t.child[sd][z]
      /\ \A z \in Spots :
           t2.parent[z] = IF z = left \/ (z = right /\ y # right) THEN y
                          ELSE IF z = x /\ y # right THEN py
                          ELSE t.parent[z]
  <2>1. CASE y = right
    BY <1>7, <1>8, <2>1
  <2>2. CASE y # right
    <3>1. PICK c : c = Adopt(t1, x, py)
      OBVIOUS
    <3>2. PICK d : d = Link(c, py, "left", x)
      OBVIOUS
    <3>3. PICK g : g = Link(d, y, "right", right)
      OBVIOUS
    <3>4. t2 = Adopt(g, right, y)
      BY <1>8, <2>2, <3>1, <3>2, <3>3
    <3>5. Adopted(t1, c, x, py)
      BY <1>1, <1>7, <3>1, AdoptIs
    <3>6. Linked(c, d, py, "left", x)
      <4>1. c \in Trees
        BY <3>5 DEF Adopted
      <4> QED
        BY <1>1, <1>2, <3>2, <4>1, LinkIs
    <3>7. Linked(d, g, y, "right", right)
      <4>1. d \in Trees
        BY <3>6 DEF Linked
      <4> QED
        BY <1>1, <1>2, <3>3, <4>1, LinkIs
    <3>8. Adopted(g, t2, right, y)
      <4>1. g \in Trees
        BY <3>7 DEF Linked
      <4> QED
        BY <1>1, <3>4, <4>1, AdoptIs
    <3>9. ASSUME NEW sd \in Sides, NEW z \in Spots
          PROVE  t2.child[sd][z] = IF z = y /\ sd = "left" THEN left
                                   ELSE IF z = y THEN right
                                   ELSE IF z = py /\ sd = "left" THEN x
                                   ELSE t.child[sd][z]
      <4>1. sd = "left" \/ sd = "right"
        BY DEF Sides
      <4>2. y # py /\ "left" # "right"
        OBVIOUS
      <4>3. t2.child[sd][z] = IF z = y /\ sd = "right" THEN right ELSE d.child[sd][z]
        BY <3>7, <3>8 DEF Linked, Adopted
      <4>4. d.child[sd][z] = IF z = py /\ sd = "left" THEN x ELSE t1.child[sd][z]
        BY <3>5, <3>6 DEF Linked, Adopted
      <4> QED
        BY <1>7, <4>1, <4>2, <4>3, <4>4
    <3>10. ASSUME NEW z \in Spots
           PROVE  t2.parent[z] = IF z = left \/ z = right THEN y ELSE IF z = x THEN py ELSE t.parent[z]
      <4>1. t2.parent[z] = IF z = right THEN y ELSE c.parent[z]
        BY <3>6, <3>7, <3>8 DEF Linked, Adopted
      <4>2. c.parent[z] = IF z = x THEN py ELSE t1.parent[z]
        BY <3>5 DEF Adopted
      <4> QED
        BY <1>7, <4>1, <4>2
    <3>11. t2 \in Trees /\ t2.red = t.red /\ t2.mnSize = t.mnSize
      BY <1>7, <3>5, <3>6, <3>7, <3>8 DEF Linked, Adopted
    <3> QED
      BY <2>2, <3>9, <3>10, <3>11
  <2> QED
    BY <2>1, <2>2
<1>10. t2.parent[n] = p /\ Root(t2) = Root(t)
  <2>1. left # mAnchor /\ right # mAnchor /\ x # mAnchor
    BY <1>1 DEF mAnchor, NULL
  <2> QED
    BY <1>1, <1>9, <2>1 DEF Root
<1>11. n # Root(t) => SideOf(t2, n) = SideOf(t, n)
  <2> SUFFICES ASSUME n # Root(t) PROVE SideOf(t2, n) = SideOf(t, n)
    OBVIOUS
  <2>1. p \in H /\ n = t.child[SideOf(t, n)][p]
    OBVIOUS
  <2>2. n = t2.child["left"][p] <=> n = t.child["left"][p]
    <3>1. CASE p = py /\ y # right
      <4>1. t2.child["left"][p] = x
        BY <1>2, <1>9, <3>1
      <4>2. n # t.child["left"][p]
        BY <3>1
      <4> QED
        BY <4>1, <4>2
    <3>2. CASE ~(p = py /\ y # right)
      BY <1>1, <1>2, <1>9, <3>2
    <3> QED
      BY <3>1, <3>2
  <2> QED
    BY <1>10, <2>2 DEF SideOf
<1>13. PICK v : v = Replace(t2, n, y)
  OBVIOUS
<1>14. Replaced(t2, v, n, y, p)
  BY <1>1, <1>9, <1>10, <1>13, ReplaceIs
<1>15. PICK w : w = Adopt(v, y, p)
  OBVIOUS
<1>16. Adopted(v, w, y, p)
  <2>1. v \in Trees
    BY <1>14 DEF Replaced
  <2> QED
    BY <1>1, <1>15, <2>1, AdoptIs
<1>17. PICK u : u = IF n \in t.red THEN Red(w, y) ELSE Black(w, y)
  OBVIOUS
<1>18. u = Supplant(t, n, y, x)
  <2>1. IsRed(t, n) = (n \in t.red)
    BY DEF IsRed
  <2> QED
    BY <1>3, <1>4, <1>8, <1>13, <1>15, <1>17, <2>1 DEF Supplant
<1>19. /\ SameLinks(w, u) /\ u.mnSize = w.mnSize
       /\ u.red = IF n \in t.red THEN w.red \cup {y} ELSE w.red \ {y}
  <2>1. w \in Trees
    BY <1>16 DEF Adopted
  <2> QED
    BY <1>1, <1>17, <2>1, Colours
<1>20. ASSUME NEW sd \in Sides, NEW z \in Spots
       PROVE  u.child[sd][z] = IF n # Root(t) /\ z = p /\ sd = SideOf(t, n) THEN y ELSE t2.child[sd][z]
  BY <1>10, <1>11, <1>14, <1>16, <1>19 DEF Replaced, Adopted, SameLinks
<1>21. ASSUME NEW z \in Spots
       PROVE  u.parent[z] = IF z = y THEN p ELSE IF z = mAnchor /\ n = Root(t) THEN y ELSE t2.parent[z]
  BY <1>10, <1>14, <1>16, <1>19 DEF Replaced, Adopted, SameLinks
<1>22. u \in Trees /\ u.mnSize = t.mnSize /\ w.red = t.red
  BY <1>9, <1>14, <1>16, <1>19 DEF Replaced, Adopted, SameLinks
<1>23. \A sd \in Sides, z \in Spots :
         u.child[sd][z] =
           IF n # Root(t) /\ z = p /\ sd = SideOf(t, n) THEN y
           ELSE IF z = y /\ sd = "left" THEN left
           ELSE IF z = y /\ y # right THEN right
           ELSE IF z = py /\ y # right /\ sd = "left" THEN x
           ELSE t.child[sd][z]
  BY <1>9, <1>20
<1>24. \A z \in Spots :
         u.parent[z] =
           IF z = y THEN p
           ELSE IF z = mAnchor /\ n = Root(t) THEN y
           ELSE IF z = left \/ z = right THEN y
           ELSE IF z = x /\ y # right THEN py
           ELSE t.parent[z]
  BY <1>9, <1>21
<1>25. u.red = IF n \in t.red THEN t.red \cup {y} ELSE t.red \ {y}
  BY <1>19, <1>22
<1> HIDE DEF Surroundings
<1> QED
  BY <1>18, <1>22, <1>23, <1>24, <1>25 DEF Supplanted

LEMMA SupplantRenames ==
  ASSUME NEW t, NEW c, NEW u, NEW H, NEW q, NEW e, NEW L, Placed(t, H, q, e, L),
         NEW n, NEW y, NEW x, NEW left, NEW right, NEW p, NEW py,
         Surroundings(t, H, n, y, x, left, right, p, py), Supplanted(t, u, n, y, x, left, right, p, py),
         CutLinks(t, c, H, y, x), c.red = t.red
  PROVE  Renamed(c, u, H \ {y}, n, y, H \ {n})
<1>1. n \in H /\ y \in H /\ y # n /\ H \subseteq Nodes /\ H \subseteq Spots /\ mAnchor \in Spots
      /\ NULL \notin H /\ mAnchor \notin H /\ NULL # mAnchor
  <2>1. n \in H /\ y \in H /\ y # n /\ H \subseteq Nodes
    BY DEF Surroundings
  <2> QED
    BY <2>1, SpotsAreNumbers DEF Spots
<1>2. left = t.child["left"][n] /\ right = t.child["right"][n] /\ x = t.child["right"][y] /\ left # n /\ right # n
      /\ left # y /\ x # n /\ x # y /\ p # n /\ p # y /\ p = t.parent[n] /\ py = t.parent[y] /\ py \in H /\ py # y
      /\ x # left /\ x # right /\ left # right
  BY DEF Surroundings
<1>3. ASSUME NEW z \in H, z # n, NEW sd \in Sides
      PROVE  u.child[sd][z] = Put(n, y, c.child[sd][Put(y, n, z)])
  <2>1. sd = "left" \/ sd = "right"
    BY DEF Sides
  <2>2. u.child[sd][z] =
          IF n # Root(t) /\ z = p /\ sd = SideOf(t, n) THEN y
          ELSE IF z = y /\ sd = "left" THEN left
          ELSE IF z = y /\ y # right THEN right
          ELSE IF z = py /\ y # right /\ sd = "left" THEN x
          ELSE t.child[sd][z]
    BY <1>1 DEF Supplanted
  <2>3. CASE z = y
    <3>1. c.child[sd][n] = IF t.child[sd][n] = y THEN x ELSE t.child[sd][n]
      BY <1>1 DEF CutLinks
    <3>2. Put(y, n, z) = n
      BY <2>3 DEF Put
    <3>3. Put(n, y, c.child[sd][n]) = c.child[sd][n]
      BY <1>2, <2>1, <3>1 DEF Put
    <3> QED
      BY <1>2, <2>1, <2>2, <2>3, <3>1, <3>2, <3>3
  <2>4. CASE z # y
    <3>1. c.child[sd][z] = IF t.child[sd][z] = y THEN x ELSE t.child[sd][z]
      BY <1>1, <2>4 DEF CutLinks
    <3>2. Put(y, n, z) = z
      BY <2>4 DEF Put
    <3>3. t.child[sd][z] = n <=> n # Root(t) /\ z = p /\ sd = SideOf(t, n)
      BY <1>1, <1>2, OneParent
    <3>4. t.child[sd][z] = y <=> z = py /\ y # right /\ sd = "left"
      <4>1. t.child[sd][z] = y => t.parent[y] = z
        BY <1>1, ChildIsBelow
      <4>2. y # right => y = t.child["left"][py]
        BY DEF Surroundings
      <4>3. y = right => py = n
        BY DEF Surroundings
      <4>4. y # right => t.child["right"][py] # y
        <5>1. y # right => t.child["left"][py] # t.child["right"][py]
          BY <1>1, <1>2, <4>2, ChildrenDiffer DEF Sides, Other
        <5> QED
          BY <4>2, <5>1
      <4> QED
        BY <1>2, <1>3, <2>1, <4>1, <4>2, <4>3, <4>4
    <3>5. Put(n, y, c.child[sd][z]) = IF t.child[sd][z] = n THEN y ELSE IF t.child[sd][z] = y THEN x ELSE t.child[sd][z]
      BY <1>1, <1>2, <3>1 DEF Put
    <3> QED
      BY <1>1, <2>2, <2>4, <3>2, <3>3, <3>4, <3>5
  <2> QED
    BY <2>3, <2>4
<1>4. ASSUME NEW z \in H, z # n
      PROVE  u.parent[z] = Put(n, y, c.parent[Put(y, n, z)])
  <2>1. u.parent[z] = IF z = y THEN p ELSE IF z = left \/ z = right THEN y
                      ELSE IF z = x /\ y # right THEN py ELSE t.parent[z]
    BY <1>1 DEF Supplanted
  <2>2. CASE z = y
    <3>1. c.parent[n] = p
      BY <1>1, <1>2 DEF CutLinks
    <3>2. Put(y, n, z) = n /\ Put(n, y, p) = p
      BY <1>2, <2>2 DEF Put
    <3> QED
      BY <2>1, <2>2, <3>1, <3>2
  <2>3. CASE z # y
    <3>1. c.parent[z] = IF z = x THEN py ELSE t.parent[z]
      BY <1>1, <1>2, <2>3 DEF CutLinks
    <3>2. Put(y, n, z) = z
      BY <2>3 DEF Put
    <3>3. t.parent[z] = n <=> z = left \/ z = right
      <4>1. t.parent[z] = n => z = left \/ z = right
        <5>1. z = Root(t) => t.parent[z] # n
          BY <1>1, ParentIsAbove
        <5>2. z # Root(t) => SideOf(t, z) \in Sides /\ z = t.child[SideOf(t, z)][t.parent[z]]
          BY ParentIsAbove
        <5> QED
          BY <1>2, <5>1, <5>2 DEF Sides
      <4> QED
        BY <4>1 DEF Surroundings
    <3>4. z = x => t.parent[z] = y
      BY <1>1 DEF Surroundings
    <3>5. IF y = right THEN py = n ELSE py # n
      BY DEF Surroundings
    <3> QED
      BY <1>1, <1>2, <2>1, <2>3, <3>1, <3>2, <3>3, <3>4, <3>5 DEF Put
  <2> QED
    BY <2>2, <2>3
<1>5. Root(u) = Put(n, y, Root(c))
  <2>1. Root(c) = Root(t)
    BY DEF CutLinks, Surroundings
  <2>2. mAnchor # left /\ mAnchor # right /\ mAnchor # x /\ mAnchor # y
    BY <1>1 DEF Surroundings
  <2>3. Root(u) = IF n = Root(t) THEN y ELSE Root(t)
    BY <1>1, <2>2 DEF Supplanted, Root
  <2> QED
    BY <2>1, <2>3 DEF Put
<1>6. ASSUME NEW z \in H, z # n PROVE z \in u.red <=> Put(y, n, z) \in c.red
  <2>1. u.red = IF n \in t.red THEN t.red \cup {y} ELSE t.red \ {y}
    BY DEF Supplanted
  <2> QED
    BY <1>6, <2>1 DEF Put
<1>7. u \in Trees /\ H \ {n} = ((H \ {y}) \ {n}) \cup {y} /\ n \in H \ {y} /\ y \in Nodes \ (H \ {y})
  BY <1>1 DEF Supplanted
<1> QED
  BY <1>3, <1>4, <1>5, <1>6, <1>7 DEF Renamed

\* The items after the removal.
LEMMA RemovedBySuccessor ==
  ASSUME NEW H, NEW r, NEW q, NEW L \in Nat, Listed(r, q, H, L), NEW n \in H, NEW y \in H, q[y] = q[n] + 1
  PROVE  [i \in 1..(L - 1) |-> Put(n, y, Removed(r, L, q[y])[i])] = Removed(r, L, q[n])
<1>1. PICK k : k = q[n]
  OBVIOUS
<1>2. k \in 1..L /\ k + 1 \in 1..L /\ r[k] = n /\ r[k + 1] = y
  BY <1>1, ListedNumbers
<1>3. ASSUME NEW i \in 1..(L - 1)
      PROVE  Put(n, y, Removed(r, L, q[y])[i]) = Removed(r, L, q[n])[i]
  <2>1. Removed(r, L, q[y])[i] = IF i < k + 1 THEN r[i] ELSE r[i + 1]
    BY <1>1 DEF Removed
  <2>2. Removed(r, L, q[n])[i] = IF i < k THEN r[i] ELSE r[i + 1]
    BY <1>1 DEF Removed
  <2>3. CASE i < k
    <3>1. i < k + 1 /\ i \in 1..L /\ i # k
      BY <1>2, <2>3
    <3>2. r[i] # n
      BY <1>1, <3>1, ListedNumbers
    <3> QED
      BY <2>1, <2>2, <2>3, <3>1, <3>2 DEF Put
  <2>4. CASE i = k
    <3>1. i < k + 1 /\ ~(i < k)
      BY <1>2, <2>4
    <3> QED
      BY <1>2, <2>1, <2>2, <2>4, <3>1 DEF Put
  <2>5. CASE i > k
    <3>1. ~(i < k + 1) /\ ~(i < k) /\ i + 1 \in 1..L /\ i + 1 # k
      BY <1>2, <2>5
    <3>2. r[i + 1] # n
      BY <1>1, <3>1, ListedNumbers
    <3> QED
      BY <2>1, <2>2, <3>1, <3>2 DEF Put
  <2> QED
    BY <1>2, <2>3, <2>4, <2>5
<1>4. Removed(r, L, q[n]) = [i \in 1..(L - 1) |-> Removed(r, L, q[n])[i]]
  BY DEF Removed
<1> QED
  BY <1>3, <1>4

-----------------------------------------------------------------------------
(* RBTreeErase's loop.                                                       *)

\* n is out of t, which gave u: if y, which was black, had to go, a black node
\* is lacking above x.
TakenOut(t, u, G, l, v, f, M, n, y, x, xp) ==
  /\ Listed(l, v, G, M) /\ Ends(u, G, v, M) /\ CleanBut(u, G, n) /\ u.mnSize = t.mnSize
  /\ IF y \in t.red THEN \E c : Level(u, G, v, f, c, M)
     ELSE \E c, sx : Deficient(u, G, v, f, c, M, xp, sx, x)

LEMMA UnlinkTakesOut ==
  ASSUME NEW t, NEW H, NEW r, NEW q, NEW e, NEW b, NEW L, Arranged(t, H, r, q, e, b, L),
         NEW n, NEW x, OnlyChild(t, H, n, x)
  PROVE  \E v, f : TakenOut(t, Unlink(t, n, x), H \ {n}, Removed(r, L, q[n]), v, f, L - 1, n, n, x, t.parent[n])
<1>1. /\ Placed(t, H, q, e, L) /\ Listed(r, q, H, L) /\ Ends(t, H, q, L) /\ Clean(t, H)
      /\ Level(t, H, q, e, b, L)
  BY DEF Arranged, Level
<1>2. PICK u, v, f : u = Unlink(t, n, x) /\ v = Closed(H, q, n) /\ f = ClosedEnds(H, q, e, n)
  OBVIOUS
<1>3. CutOut(t, u, n, x) /\ CleanBut(u, H \ {n}, n) /\ Ends(u, H \ {n}, v, L - 1)
  BY <1>1, <1>2, UnlinkIs
<1>4. n \in H /\ L \in Nat
  BY <1>1 DEF OnlyChild, Placed
<1>5. Listed(Removed(r, L, q[n]), v, H \ {n}, L - 1)
  BY <1>1, <1>2, <1>4, CutIsListed
<1>6. n \in t.red => \E c : Level(u, H \ {n}, v, f, c, L - 1)
  BY <1>1, <1>2, <1>3, RedNodeCutOut
<1>7. n \notin t.red => \E c : Deficient(u, H \ {n}, v, f, c, L - 1, t.parent[n], SideOf(t, n), x)
  BY <1>1, <1>2, <1>3, BlackNodeCutOut
<1>8. u.mnSize = t.mnSize
  BY <1>3 DEF CutOut
<1> QED
  BY <1>2, <1>3, <1>5, <1>6, <1>7, <1>8 DEF TakenOut

LEMMA SupplantEnds ==
  ASSUME NEW t, NEW u, NEW H, NEW r, NEW q, NEW e, NEW L, Placed(t, H, q, e, L), Listed(r, q, H, L),
         Ends(t, H, q, L), Clean(t, H), NEW n, NEW y, IsSuccessor(t, H, q, n, y), NEW x, NEW left, NEW right,
         NEW p, NEW py, Surroundings(t, H, n, y, x, left, right, p, py), Supplanted(t, u, n, y, x, left, right, p, py)
  PROVE  /\ Ends(u, H \ {n}, PutAt(H \ {n}, Closed(H, q, y), n, y), L - 1)
         /\ CleanBut(u, H \ {n}, n)
<1>1. n \in H /\ y \in H /\ y # n /\ q[y] = q[n] + 1 /\ t.child["left"][n] # NULL
  BY DEF IsSuccessor
<1>2. PICK v, w : v = Closed(H, q, y) /\ w = PutAt(H \ {n}, v, n, y)
  OBVIOUS
<1>3. q[n] \in 1..L /\ L \in Nat /\ q[y] \in 1..L
  BY <1>1, PlacesAreNumbers
<1>4. q[n] > 1
  <2>1. Below(q, e, n, t.child["left"][n], "left") /\ Around(q, e, t.child["left"][n]) /\ t.child["left"][n] \in H
    BY <1>1, ChildIsBelow DEF Sides
  <2>2. q[t.child["left"][n]] \in 1..L
    BY <2>1, PlacesAreNumbers
  <2>3. e["right"][t.child["left"][n]] \in 1..L
    BY <2>1, PlacesAreNumbers
  <2> QED
    BY <1>3, <2>1, <2>2, <2>3 DEF Below, Around
<1>5. mAnchor \in Spots /\ mAnchor \notin H /\ H \subseteq Nodes /\ H \subseteq Spots /\ mAnchor \notin Nodes
      /\ NULL \notin Spots
  <2>1. H \subseteq Nodes
    BY DEF Placed
  <2> QED
    BY <2>1, SpotsAreNumbers DEF Spots
<1>6. left \in H /\ right \in H /\ x \in H \cup {NULL} /\ py \in H /\ (n # Root(t) => p \in H)
  BY DEF Surroundings
<1>7. \A sd \in Sides : u.child[sd][mAnchor] = t.child[sd][mAnchor]
  BY <1>1, <1>5, <1>6 DEF Supplanted
<1>8. ASSUME NEW s \in Sides
      PROVE  u.child[s][mAnchor] \in H \ {n} /\ w[u.child[s][mAnchor]] = Far(L - 1, s)
  <2>1. PICK a : a = t.child[s][mAnchor]
    OBVIOUS
  <2>2. a \in H /\ q[a] = Far(L, s)
    BY <1>1, <2>1, EndIsFar
  <2>3. a # n
    BY <1>1, <1>3, <1>4, <2>2 DEF Far
  <2>4. w[a] = v[Put(y, n, a)]
    BY <1>2, <2>2, <2>3 DEF PutAt
  <2>5. CASE a = y
    <3>1. v[n] = IF q[n] > q[y] THEN q[n] - 1 ELSE q[n]
      BY <1>1, <1>2 DEF Closed
    <3>2. Put(y, n, a) = n
      BY <2>5 DEF Put
    <3>3. w[a] = Far(L - 1, s)
      BY <1>1, <1>3, <1>4, <2>2, <2>4, <2>5, <3>1, <3>2 DEF Far
    <3> QED
      BY <1>7, <2>1, <2>2, <2>3, <3>3
  <2>6. CASE a # y
    <3>1. v[a] = IF q[a] > q[y] THEN q[a] - 1 ELSE q[a]
      BY <1>2, <2>2, <2>6 DEF Closed
    <3>2. Put(y, n, a) = a
      BY <2>6 DEF Put
    <3>3. q[a] # q[y]
      BY <1>1, <2>2, <2>6, ListedNumbers
    <3>4. w[a] = Far(L - 1, s)
      BY <1>1, <1>3, <1>4, <2>2, <2>4, <3>1, <3>2, <3>3 DEF Far
    <3> QED
      BY <1>7, <2>1, <2>2, <2>3, <3>4
  <2> QED
    BY <2>5, <2>6
<1>9. Ends(u, H \ {n}, w, L - 1)
  <2>1. H \ {n} # {}
    BY <1>1
  <2> QED
    BY <1>8, <2>1 DEF Ends, Sides, Far
<1>10. CleanBut(u, H \ {n}, n)
  <2>1. mAnchor \in u.red
    BY <1>1, <1>5 DEF Clean, Supplanted
  <2>2. ASSUME NEW z \in Nodes \ (H \ {n}), z # n PROVE Apart(u, z)
    <3>1. z \notin H /\ z \in Spots /\ z # mAnchor /\ Apart(t, z) /\ z # NULL
      BY <1>5, <2>2 DEF Clean, Spots
    <3>2. u.parent[z] = t.parent[z] /\ \A sd \in Sides : u.child[sd][z] = t.child[sd][z]
      BY <1>1, <1>6, <3>1 DEF Supplanted
    <3>3. z \in u.red <=> z \in t.red
      BY <1>1, <3>1 DEF Supplanted
    <3> QED
      BY <3>1, <3>2, <3>3 DEF Apart
  <2> QED
    BY <2>1, <2>2 DEF CleanBut
<1> QED
  BY <1>2, <1>9, <1>10

LEMMA SupplantTakesOut ==
  ASSUME NEW t, NEW H, NEW r, NEW q, NEW e, NEW b, NEW L, Arranged(t, H, r, q, e, b, L),
         NEW n, NEW y, IsSuccessor(t, H, q, n, y)
  PROVE  \E v, f : TakenOut(t, Supplant(t, n, y, t.child["right"][y]), H \ {n}, Removed(r, L, q[n]), v, f, L - 1,
                            n, y, t.child["right"][y], IF t.parent[y] = n THEN y ELSE t.parent[y])
<1>1. /\ Placed(t, H, q, e, L) /\ Listed(r, q, H, L) /\ Ends(t, H, q, L) /\ Clean(t, H)
      /\ Level(t, H, q, e, b, L)
  BY DEF Arranged, Level
<1>2. PICK x, py, c, u : /\ x = t.child["right"][y] /\ py = t.parent[y]
                         /\ c = Replace(Adopt(t, x, py), y, x) /\ u = Supplant(t, n, y, x)
  OBVIOUS
<1>3. PICK left, right, p : left = t.child["left"][n] /\ right = t.child["right"][n] /\ p = t.parent[n]
  OBVIOUS
<1>4. Surroundings(t, H, n, y, x, left, right, p, py)
  BY <1>1, <1>2, <1>3, SurroundingsAre
<1>5. Supplanted(t, u, n, y, x, left, right, p, py)
  BY <1>2, <1>4, SupplantIs
<1>6. n \in H /\ y \in H /\ y # n /\ L \in Nat /\ H \subseteq Nodes /\ L - 1 \in Nat /\ py \in H /\ py # y
      /\ x \in H \cup {NULL} /\ x # n /\ x # y
  <2>1. n \in H /\ y \in H /\ y # n /\ L \in Nat /\ H \subseteq Nodes
    BY <1>1 DEF IsSuccessor, Placed
  <2>2. q[n] \in 1..L
    BY <1>1, <2>1, PlacesAreNumbers
  <2> QED
    BY <1>4, <2>1, <2>2 DEF Surroundings
<1>7. OnlyChild(t, H, y, x)
  <2>1. x \in H \cup {NULL}
    BY <1>4 DEF Surroundings
  <2> QED
    BY <1>2, <1>6, <2>1 DEF OnlyChild, IsSuccessor, Sides, Other
<1>8. CutOut(t, c, y, x)
  BY <1>1, <1>2, <1>7, CutIs
<1>9. CutLinks(t, c, H, y, x) /\ c.red = t.red
  BY <1>1, <1>7, <1>8, CutLinksAre DEF CutOut
<1>10. PICK G, U : G = H \ {y} /\ U = H \ {n}
  OBVIOUS
<1>11. Renamed(c, u, G, n, y, U) /\ G \subseteq Nodes
  BY <1>1, <1>4, <1>5, <1>6, <1>9, <1>10, SupplantRenames
<1>12. PICK v, f : v = Closed(H, q, y) /\ f = ClosedEnds(H, q, e, y)
  OBVIOUS
<1>13. PICK w, g : w = PutAt(U, v, n, y) /\ g = PutEnds(U, f, n, y)
  OBVIOUS
<1>14. Placed(c, G, v, f, L - 1)
  BY <1>1, <1>7, <1>8, <1>10, <1>12, CutIsPlaced
<1>15. Placed(u, U, w, g, L - 1)
  BY <1>11, <1>13, <1>14, RenamedPlaced
<1>16. Listed(Removed(r, L, q[n]), w, U, L - 1)
  <2>1. PICK l : l = Removed(r, L, q[y])
    OBVIOUS
  <2>2. Listed(l, v, G, L - 1)
    BY <1>1, <1>6, <1>10, <1>12, <2>1, CutIsListed
  <2>3. Listed([i \in 1..(L - 1) |-> Put(n, y, l[i])], w, U, L - 1)
    BY <1>11, <1>13, <2>2, RenamedListed
  <2>4. q[y] = q[n] + 1
    BY DEF IsSuccessor
  <2>5. [i \in 1..(L - 1) |-> Put(n, y, l[i])] = Removed(r, L, q[n])
    BY <1>1, <1>6, <2>1, <2>4, RemovedBySuccessor
  <2> QED
    BY <2>3, <2>5
<1>17. Ends(u, U, w, L - 1) /\ CleanBut(u, U, n)
  BY <1>1, <1>4, <1>5, <1>10, <1>12, <1>13, SupplantEnds
<1>18. u.mnSize = t.mnSize
  BY <1>5 DEF Supplanted
<1>19. Put(n, y, x) = x /\ Put(n, y, NULL) = NULL /\ Put(n, y, mAnchor) = mAnchor
  <2>1. n # NULL /\ n # mAnchor
    BY <1>1, <1>6, PlacesAreNumbers
  <2> QED
    BY <1>6, <2>1 DEF Put
<1>20. ASSUME y \in t.red PROVE \E d : Level(u, U, w, g, d, L - 1)
  <2>1. PICK d : Level(c, G, v, f, d, L - 1)
    BY <1>1, <1>7, <1>8, <1>10, <1>12, <1>20, RedNodeCutOut
  <2>2. Heights(c, G, d, mAnchor, "left") /\ NoRedRed(c, G, NULL) /\ Root(c) \notin c.red
    BY <2>1 DEF Level
  <2>3. PICK h : h = PutHeights(U, d, n, y)
    OBVIOUS
  <2>4. mAnchor \in G \cup {mAnchor} /\ NULL \in G \cup {NULL}
    OBVIOUS
  <2>5. Heights(u, U, h, mAnchor, "left")
    BY <1>11, <1>14, <1>19, <2>2, <2>3, <2>4, RenamedHeights
  <2>6. NoRedRed(u, U, NULL) /\ Root(u) \notin u.red
    BY <1>11, <1>14, <1>19, <2>2, <2>4, RenamedColours
  <2> QED
    BY <1>15, <2>5, <2>6 DEF Level
<1>21. ASSUME y \notin t.red PROVE \E d, sx : Deficient(u, U, w, g, d, L - 1, Put(n, y, py), sx, x)
  <2>1. PICK sx : sx = SideOf(t, y)
    OBVIOUS
  <2>2. PICK d : Deficient(c, G, v, f, d, L - 1, py, sx, x)
    BY <1>1, <1>2, <1>7, <1>8, <1>10, <1>12, <1>21, <2>1, BlackNodeCutOut
  <2>3. /\ Heights(c, G, d, py, sx) /\ LackingAt(c, G, py, sx, x) /\ x \in G \cup {NULL} /\ NoRedRed(c, G, x)
        /\ (Root(c) \in c.red => x = Root(c))
    BY <2>2 DEF Deficient
  <2>4. PICK h : h = PutHeights(U, d, n, y)
    OBVIOUS
  <2>5. py \in G \cup {mAnchor}
    BY <1>6, <1>10
  <2>6. Heights(u, U, h, Put(n, y, py), sx)
    BY <1>11, <1>14, <2>3, <2>4, <2>5, RenamedHeights
  <2>7. NoRedRed(u, U, x) /\ (Root(u) \in u.red <=> Root(c) \in c.red)
    BY <1>11, <1>14, <1>19, <2>3, RenamedColours
  <2>8. LackingAt(u, U, Put(n, y, py), sx, x)
    BY <1>11, <1>19, <2>3, RenamedLack
  <2>9. Root(u) = Put(n, y, Root(c))
    BY <1>11 DEF Renamed
  <2>10. x \in U \cup {NULL}
    BY <1>6, <1>10
  <2> QED
    BY <1>15, <1>19, <2>3, <2>6, <2>7, <2>8, <2>9, <2>10 DEF Deficient
<1>22. Put(n, y, py) = IF py = n THEN y ELSE py
  BY DEF Put
<1>23. TakenOut(t, u, U, Removed(r, L, q[n]), w, g, L - 1, n, y, x, Put(n, y, py))
  BY <1>16, <1>17, <1>18, <1>20, <1>21 DEF TakenOut
<1> QED
  BY <1>2, <1>10, <1>22, <1>23

\* A black node is lacking above x, which is black: the sibling w is there.
ShortSide(t, H, b, xp, s, x, w) ==
  /\ xp \in H /\ s \in Sides /\ x = t.child[s][xp] /\ w = t.child[Other(s)][xp] /\ w \in H /\ w # NULL
  /\ w # xp /\ w # x /\ x # xp /\ x \notin t.red /\ x \in H \cup {NULL}
  /\ t.parent[w] = xp /\ (x # NULL => t.parent[x] = xp)
  /\ b[x] \in Nat /\ b[w] = b[x] + 1 /\ b[xp] = b[w] + Weight(t, xp) /\ Root(t) \notin t.red
  /\ w # Root(t) /\ \A y \in H, sd \in Sides : Fine(t, y, t.child[sd][y], NULL)

LEMMA ShortSideIs ==
  ASSUME NEW t, NEW H, NEW q, NEW e, NEW b, NEW L, NEW xp, NEW s, NEW x, Deficient(t, H, q, e, b, L, xp, s, x),
         x # Root(t), x \notin t.red
  PROVE  /\ ShortSide(t, H, b, xp, s, x, t.child[Other(s)][xp])
         /\ (IF x = t.child["left"][xp] THEN "left" ELSE "right") = s
<1>1. /\ Placed(t, H, q, e, L) /\ Heights(t, H, b, xp, s) /\ LackingAt(t, H, xp, s, x)
      /\ x \in H \cup {NULL} /\ NoRedRed(t, H, x) /\ Root(t) \notin t.red
  BY DEF Deficient
<1>2. xp \in H /\ s \in Sides /\ x = t.child[s][xp]
  BY <1>1 DEF LackingAt
<1>3. PICK o, w : o = Other(s) /\ w = t.child[o][xp]
  OBVIOUS
<1>4. o \in Sides /\ o # s /\ Other(o) = s
  BY <1>2, <1>3, OtherSide
<1>5. H \subseteq Nodes /\ NULL \notin H /\ mAnchor \notin H
  BY <1>1, SpotsAreNumbers DEF Placed, Spots
<1>6. /\ b \in [H \cup {NULL} -> Nat] /\ b[NULL] = 0
      /\ b[xp] = b[x] + Weight(t, xp) + Lack(xp, s, xp, s)
      /\ b[xp] = b[w] + Weight(t, xp) + Lack(xp, s, xp, o)
  BY <1>1, <1>2, <1>3, <1>4 DEF Heights
<1>7. w \in H \cup {NULL} /\ w # xp /\ (w # NULL => t.parent[w] = xp) /\ x # xp /\ (x # NULL => t.parent[x] = xp)
  BY <1>1, <1>2, <1>3, <1>4, ChildIsHeld
<1>8. Lack(xp, s, xp, s) = 1 /\ Lack(xp, s, xp, o) = 0 /\ Weight(t, xp) \in {0, 1}
  BY <1>4 DEF Lack, Weight
<1>9. b[x] \in Nat /\ b[w] \in Nat
  BY <1>1, <1>6, <1>7
<1>10. b[w] = b[x] + 1 /\ b[xp] = b[w] + Weight(t, xp)
  BY <1>6, <1>8, <1>9
<1>11. w # NULL /\ w # x /\ w \in H
  BY <1>6, <1>7, <1>9, <1>10
<1>12. w # Root(t)
  <2>1. w = Root(t) => t.parent[w] = mAnchor
    BY <1>1, <1>11, ParentIsAbove
  <2> QED
    BY <1>2, <1>5, <1>7, <1>11, <2>1
<1>13. \A y \in H, sd \in Sides : Fine(t, y, t.child[sd][y], NULL)
  BY <1>1 DEF NoRedRed, Fine
<1>14. (IF x = t.child["left"][xp] THEN "left" ELSE "right") = s
  BY <1>2, <1>3, <1>4, <1>11 DEF Sides, Other
<1> QED
  BY <1>1, <1>2, <1>3, <1>7, <1>9, <1>10, <1>11, <1>12, <1>13, <1>14 DEF ShortSide

\* The sibling is red: its near child comes in its place.
LEMMA SiblingBlackened ==
  ASSUME NEW t, NEW H, NEW q, NEW e, NEW b, NEW L, NEW xp, NEW s, NEW x, Deficient(t, H, q, e, b, L, xp, s, x),
         NEW w, ShortSide(t, H, b, xp, s, x, w), w \in t.red
  PROVE  LET u == Rotate(Red(Black(t, w), xp), xp, s)
         IN /\ \E f, h : Deficient(u, H, q, f, h, L, xp, s, x)
            /\ x # Root(u) /\ x \notin u.red /\ u.child[Other(s)][xp] \notin u.red /\ xp \in u.red
            /\ Kept(t, u, H)
<1>1. PICK o, i, p : o = Other(s) /\ i = t.child[s][w] /\ p = t.parent[xp]
  OBVIOUS
<1>2. PICK c, v : c = Black(t, w) /\ v = Red(c, xp)
  OBVIOUS
<1>3. PICK u : u = Rotate(v, xp, s)
  OBVIOUS
<1>4. Placed(t, H, q, e, L) /\ Heights(t, H, b, xp, s) /\ x \in H \cup {NULL}
  BY DEF Deficient
<1>5. /\ xp \in H /\ s \in Sides /\ x = t.child[s][xp] /\ w = t.child[o][xp] /\ w \in H /\ w # NULL
      /\ w # xp /\ w # x /\ x # xp /\ x \notin t.red /\ t.parent[w] = xp
      /\ b[x] \in Nat /\ b[w] = b[x] + 1 /\ b[xp] = b[w] + Weight(t, xp) /\ Root(t) \notin t.red
      /\ w # Root(t)
  BY <1>1 DEF ShortSide
<1>6. o \in Sides /\ o # s /\ s = Other(o) /\ \A sd \in Sides : sd = s \/ sd = o
  BY <1>1, <1>5, OtherSide DEF Sides, Other
<1>7. t \in Trees /\ H \subseteq Nodes /\ H \subseteq Spots /\ NULL \notin H /\ NULL \notin Spots /\ mAnchor \notin H
      /\ NULL \notin t.red
  BY <1>4, SpotsAreNumbers DEF Placed, Spots, Trees
<1>8. \A y \in H, sd \in Sides : /\ t.child[sd][y] \in H \cup {NULL} /\ t.child[sd][y] # y
                                 /\ t.child[sd][y] # NULL => t.parent[t.child[sd][y]] = y
                                 /\ Fine(t, y, t.child[sd][y], NULL)
  BY <1>4, ChildIsHeld DEF ShortSide
<1>9. xp \notin t.red
  BY <1>5, <1>6, <1>7, <1>8 DEF Fine
<1>10. v.red = (t.red \ {w}) \cup {xp} /\ v.child = t.child /\ v.parent = t.parent /\ SameLinks(t, v)
  <2>1. c \in Trees /\ c.child = t.child /\ c.parent = t.parent /\ c.red = t.red \ {w}
    BY <1>2, <1>5, <1>7, Colours DEF SameLinks
  <2>2. v \in Trees /\ v.child = c.child /\ v.parent = c.parent /\ v.red = c.red \cup {xp}
    <3>1. v = Red(c, xp) /\ c \in Trees /\ xp \in Spots
      BY <1>2, <1>5, <1>7, <2>1
    <3> QED
      BY ONLY <3>1, Colours DEF SameLinks
  <2> QED
    BY <2>1, <2>2 DEF SameLinks
<1>11. Kept(t, v, H)
  <2>1. Kept(t, c, H) /\ c \in Trees
    BY <1>2, <1>5, <1>7, Colours, ColouringKeeps DEF SameLinks
  <2>2. Kept(c, v, H)
    BY <1>2, <1>5, <1>7, <2>1, ColouringKeeps
  <2> QED
    BY <2>1, <2>2, KeptThrough
<1>12. Placed(v, H, q, e, L) /\ Root(v) = Root(t)
  BY <1>4, <1>10, PlacedBySameLinks DEF Root
<1>13. Turned(v, u, H, q, e, L, xp, w, i, p, s)
  <2>1. v.child[Other(s)][xp] # NULL /\ xp \in H /\ s \in Sides
    BY <1>1, <1>5, <1>10
  <2>2. Turned(v, Rotate(v, xp, s), H, q, e, L, xp, v.child[Other(s)][xp],
                v.child[s][v.child[Other(s)][xp]], v.parent[xp], s)
    BY <1>12, <2>1, RotationTurns
  <2> QED
    BY <1>1, <1>3, <1>5, <1>10, <2>2
<1>14. Rotated(v, u, xp, w, i, p, s) /\ Kept(v, u, H) /\ Placed(u, H, q, TurnedEnds(H, q, e, xp, w, s), L)
       /\ w # i /\ xp # i
  BY <1>13 DEF Turned, AboutToRotate
<1>15. Weight(v, w) = 1 /\ Weight(v, xp) = 0 /\ Weight(t, w) = 0 /\ Weight(t, xp) = 1
       /\ \A y \in H : y # w /\ y # xp => Weight(v, y) = Weight(t, y)
  BY <1>5, <1>9, <1>10 DEF Weight
<1>16. /\ b \in [H \cup {NULL} -> Nat] /\ b[NULL] = 0
       /\ \A y \in H, sd \in Sides : b[y] = b[t.child[sd][y]] + Weight(t, y) + Lack(xp, s, y, sd)
  BY <1>4 DEF Heights
<1>17. OthersLevel(v, H, b, xp, w, xp, s)
  BY <1>10, <1>15, <1>16 DEF OthersLevel
<1>18. i \in H \cup {NULL} /\ t.child[o][w] \in H \cup {NULL}
  BY <1>1, <1>5, <1>6, <1>8
<1>19. b[w] = b[i] /\ b[w] = b[t.child[o][w]] /\ b[i] \in Nat /\ b[w] \in Nat
  <2>1. Lack(xp, s, w, s) = 0 /\ Lack(xp, s, w, o) = 0
    BY <1>5 DEF Lack
  <2>2. b[w] = b[t.child[s][w]] + Weight(t, w) + Lack(xp, s, w, s)
        /\ b[w] = b[t.child[o][w]] + Weight(t, w) + Lack(xp, s, w, o)
    BY <1>5, <1>6, <1>16
  <2>3. b[i] \in Nat /\ b[t.child[o][w]] \in Nat
    BY <1>16, <1>18
  <2> QED
    BY <1>1, <1>15, <2>1, <2>2, <2>3
<1>20. PICK h, f : h = TurnedHeights(H, b, xp, w, b[i]) /\ f = TurnedEnds(H, q, e, xp, w, s)
  OBVIOUS
<1>21. Heights(u, H, h, xp, s)
  <2>1. Lack(xp, s, xp, s) = 1 /\ Lack(xp, s, xp, o) = 0 /\ Lack(xp, s, w, s) = 0 /\ Lack(xp, s, w, o) = 0
    BY <1>5, <1>6 DEF Lack
  <2>2. /\ b[i] = b[i] + Weight(v, xp) + Lack(xp, s, xp, Other(s))
        /\ b[i] = b[v.child[s][xp]] + Weight(v, xp) + Lack(xp, s, xp, s)
        /\ b[xp] = b[i] + Weight(v, w) + Lack(xp, s, w, s)
        /\ b[xp] = b[v.child[Other(s)][w]] + Weight(v, w) + Lack(xp, s, w, Other(s))
    BY <1>1, <1>5, <1>10, <1>15, <1>19, <2>1
  <2> QED
    BY <1>12, <1>13, <1>17, <1>19, <1>20, <2>2, RotationLevels
<1>22. i \notin t.red
  BY <1>1, <1>5, <1>7, <1>8 DEF Fine
<1>23. NoRedRed(u, H, x)
  <2>1. ASSUME NEW y \in H, NEW sd \in Sides, y # xp, y # w, v.child[sd][y] # xp
        PROVE  Fine(v, y, v.child[sd][y], x)
    <3>1. t.child[sd][y] # w
      BY <1>5, <1>7, <1>8, <2>1
    <3> QED
      BY <1>7, <1>8, <1>10, <2>1, <3>1 DEF Fine
  <2>2. Fine(v, p, w, x) /\ Fine(v, w, xp, x) /\ Fine(v, w, v.child[Other(s)][w], x)
    BY <1>5, <1>10 DEF Fine
  <2>3. Fine(v, xp, i, x) /\ Fine(v, xp, v.child[s][xp], x)
    BY <1>5, <1>10, <1>14, <1>22, Zenon DEF Fine
  <2> QED
    BY <1>12, <1>13, <2>1, <2>2, <2>3, RotationColours
<1>24. u.child[s][xp] = x /\ u.child[o][xp] = i
  <2>1. p # xp /\ xp \in Spots
    BY <1>5, <1>7, <1>13 DEF Turned, AboutToRotate
  <2> QED
    BY <1>1, <1>5, <1>6, <1>10, <1>14, <2>1, Zenon DEF Rotated
<1>25. u.red = v.red /\ Root(u) = IF xp = Root(t) THEN w ELSE Root(t)
  <2>1. mAnchor # xp /\ mAnchor # w /\ mAnchor # i /\ mAnchor \in Spots
    BY <1>5, <1>7, <1>18 DEF Spots, NULL, mAnchor
  <2> QED
    BY <1>10, <1>12, <1>14, <2>1 DEF Rotated, Root
<1>26. Root(u) \notin u.red
  BY <1>5, <1>10, <1>25
<1>27. x # Root(u)
  <2>1. x = Root(t) => t.parent[x] = mAnchor
    <3>1. x = Root(t) => x \in H
      BY <1>4, <1>5 DEF Placed
    <3> QED
      BY <1>4, <3>1, ParentIsAbove
  <2>2. x # NULL => t.parent[x] = xp
    BY DEF ShortSide
  <2>3. x = NULL => x # Root(t)
    BY <1>4, <1>5, <1>7 DEF Placed
  <2> QED
    BY <1>5, <1>7, <1>25, <2>1, <2>2, <2>3
<1>28. Deficient(u, H, q, f, h, L, xp, s, x)
  BY <1>4, <1>5, <1>14, <1>20, <1>21, <1>23, <1>24, <1>26 DEF Deficient, LackingAt
<1>29. x \notin u.red /\ u.child[o][xp] \notin u.red /\ xp \in u.red
  BY <1>5, <1>10, <1>14, <1>22, <1>24, <1>25
<1>30. Kept(t, u, H)
  BY <1>11, <1>14, KeptThrough
<1>31. u = Rotate(Red(Black(t, w), xp), xp, s)
  BY <1>2, <1>3
<1> QED
  BY <1>1, <1>27, <1>28, <1>29, <1>30, <1>31

\* The sibling and its children are black: it becomes red, and the node is
\* lacking one level higher.
LEMMA SiblingReddened ==
  ASSUME NEW t, NEW H, NEW q, NEW e, NEW b, NEW L, NEW xp, NEW s, NEW x, Deficient(t, H, q, e, b, L, xp, s, x),
         NEW w, ShortSide(t, H, b, xp, s, x, w), w \notin t.red, \A sd \in Sides : t.child[sd][w] \notin t.red
  PROVE  /\ \E h : Deficient(Red(t, w), H, q, e, h, L, t.parent[xp], SideOf(t, xp), xp)
         /\ Kept(t, Red(t, w), H)
<1>1. PICK o, p, sp : o = Other(s) /\ p = t.parent[xp] /\ sp = SideOf(t, xp)
  OBVIOUS
<1>2. PICK u : u = Red(t, w)
  OBVIOUS
<1>3. Placed(t, H, q, e, L) /\ Heights(t, H, b, xp, s) /\ x \in H \cup {NULL}
  BY DEF Deficient
<1>4. /\ xp \in H /\ s \in Sides /\ x = t.child[s][xp] /\ w = t.child[o][xp] /\ w \in H /\ w # NULL
      /\ w # xp /\ w # x /\ x # xp /\ x \notin t.red /\ t.parent[w] = xp
      /\ b[x] \in Nat /\ b[w] = b[x] + 1 /\ b[xp] = b[w] + Weight(t, xp) /\ Root(t) \notin t.red
      /\ w # Root(t)
  BY <1>1 DEF ShortSide
<1>5. o \in Sides /\ o # s /\ \A sd \in Sides : sd = s \/ sd = o
  BY <1>1, <1>4, OtherSide DEF Sides, Other
<1>6. t \in Trees /\ H \subseteq Nodes /\ H \subseteq Spots /\ NULL \notin H /\ NULL \notin Spots /\ mAnchor \notin H
      /\ NULL \notin t.red
  BY <1>3, SpotsAreNumbers DEF Placed, Spots, Trees
<1>7. \A y \in H, sd \in Sides : /\ t.child[sd][y] \in H \cup {NULL} /\ t.child[sd][y] # y
                                 /\ t.child[sd][y] # NULL => t.parent[t.child[sd][y]] = y
                                 /\ Fine(t, y, t.child[sd][y], NULL)
  BY <1>3, ChildIsHeld DEF ShortSide
<1>8. SameLinks(t, u) /\ u.child = t.child /\ u.red = t.red \cup {w} /\ Kept(t, u, H)
  <2>1. t \in Trees /\ w \in Spots /\ w \in H
    BY <1>4, <1>6
  <2> QED
    BY ONLY <1>2, <2>1, Colours, ColouringKeeps DEF SameLinks
<1>9. Placed(u, H, q, e, L) /\ Root(u) = Root(t)
  BY <1>3, <1>8, PlacedBySameLinks DEF SameLinks, Root
<1>10. /\ xp = Root(t) => p = mAnchor
       /\ xp # Root(t) => p \in H /\ sp \in Sides /\ xp = t.child[sp][p]
       /\ p \in Spots /\ p # xp /\ p # w
  <2>1. /\ xp = Root(t) => p = mAnchor
        /\ xp # Root(t) => p \in H /\ sp \in Sides /\ xp = t.child[sp][p]
        /\ p \in Spots
    BY <1>1, <1>3, <1>4, ParentIsAbove
  <2>2. xp # Root(t) => w # p
    BY <1>1, <1>3, <1>4, <1>5, GrandchildDiffers
  <2>3. p # xp
    BY <1>4, <1>6, <1>7, <2>1
  <2> QED
    BY <1>4, <1>6, <2>1, <2>2, <2>3
<1>11. /\ b \in [H \cup {NULL} -> Nat] /\ b[NULL] = 0
       /\ \A y \in H, sd \in Sides : b[y] = b[t.child[sd][y]] + Weight(t, y) + Lack(xp, s, y, sd)
  BY <1>3 DEF Heights
<1>12. PICK h : h = [z \in H \cup {NULL} |-> IF z = xp \/ z = w THEN b[z] - 1 ELSE b[z]]
  OBVIOUS
<1>13. h[xp] = b[xp] - 1 /\ h[w] = b[w] - 1 /\ (\A z \in H \cup {NULL} : z # xp /\ z # w => h[z] = b[z])
       /\ Weight(t, xp) \in {0, 1} /\ b[xp] - 1 \in Nat /\ b[w] - 1 \in Nat
  BY <1>4, <1>12 DEF Weight
<1>14. h \in [H \cup {NULL} -> Nat] /\ h[NULL] = 0
  <2>1. \A z \in H \cup {NULL} : (IF z = xp \/ z = w THEN b[z] - 1 ELSE b[z]) \in Nat
    BY <1>11, <1>13
  <2> QED
    BY <1>4, <1>6, <1>11, <1>12, <2>1
<1>15. ASSUME NEW y \in H, NEW sd \in Sides
       PROVE  h[y] = h[u.child[sd][y]] + Weight(u, y) + Lack(p, sp, y, sd)
  <2>1. PICK c : c = t.child[sd][y]
    OBVIOUS
  <2>2. c \in H \cup {NULL} /\ c # y /\ (c # NULL => t.parent[c] = y) /\ u.child[sd][y] = c
    BY <1>7, <1>8, <2>1
  <2>3. b[y] = b[c] + Weight(t, y) + Lack(xp, s, y, sd) /\ b[c] \in Nat /\ b[y] \in Nat
    BY <1>11, <2>1, <2>2
  <2>4. CASE y = xp
    <3>1. Lack(p, sp, y, sd) = 0 /\ Weight(u, y) = Weight(t, xp)
      BY <1>4, <1>8, <1>10, <2>4 DEF Lack, Weight
    <3>2. c = x \/ c = w
      BY <1>4, <1>5, <2>1, <2>4
    <3>3. h[x] = b[x]
      BY <1>3, <1>4, <1>13
    <3>4. h[c] = b[x]
      BY <1>4, <1>13, <3>2, <3>3
    <3> QED
      BY <1>4, <1>13, <2>2, <2>4, <3>1, <3>4
  <2>5. CASE y = w
    <3>1. Lack(p, sp, y, sd) = 0 /\ Lack(xp, s, y, sd) = 0 /\ Weight(u, y) = 0 /\ Weight(t, y) = 1
      BY <1>4, <1>8, <1>10, <2>5 DEF Lack, Weight
    <3>2. c # xp
      BY <1>3, <1>4, <2>1, <2>5, GrandchildDiffers
    <3>3. h[c] = b[c]
      BY <1>13, <2>2, <2>5, <3>2
    <3> QED
      BY <1>13, <2>2, <2>3, <2>5, <3>1, <3>3
  <2>6. CASE y # xp /\ y # w
    <3>1. Lack(xp, s, y, sd) = 0 /\ Weight(u, y) = Weight(t, y) /\ h[y] = b[y] /\ Weight(t, y) \in {0, 1}
      BY <1>8, <1>13, <2>6 DEF Lack, Weight
    <3>2. c # w
      BY <1>4, <2>2, <2>6
    <3>3. c = xp <=> xp # Root(t) /\ y = p /\ sd = sp
      BY <1>1, <1>3, <1>4, <2>1, OneParent
    <3>4. y = p => xp # Root(t)
      BY <1>6, <1>10
    <3>5. Lack(p, sp, y, sd) = IF c = xp THEN 1 ELSE 0
      BY <3>3, <3>4 DEF Lack
    <3>6. h[c] = IF c = xp THEN b[c] - 1 ELSE b[c]
      BY <1>13, <2>2, <3>2
    <3> QED
      BY <2>2, <2>3, <3>1, <3>5, <3>6
  <2> QED
    BY <2>4, <2>5, <2>6
<1>16. Heights(u, H, h, p, sp)
  BY <1>14, <1>15 DEF Heights
<1>17. LackingAt(u, H, p, sp, xp)
  BY <1>8, <1>9, <1>10 DEF LackingAt
<1>18. NoRedRed(u, H, xp)
  <2>1. ASSUME NEW y \in H, NEW sd \in Sides PROVE Fine(u, y, u.child[sd][y], xp)
    <3>1. t.child[sd][y] = w => y = xp
      BY <1>4, <1>7
    <3>2. y = w => t.child[sd][y] \notin t.red
      BY <2>1
    <3> QED
      BY <1>6, <1>7, <1>8, <3>1, <3>2 DEF Fine
  <2> QED
    BY <2>1 DEF NoRedRed
<1>19. Root(u) \notin u.red
  BY <1>4, <1>8, <1>9
<1>20. Deficient(u, H, q, e, h, L, p, sp, xp)
  BY <1>4, <1>9, <1>16, <1>17, <1>18, <1>19 DEF Deficient
<1> QED
  BY <1>1, <1>2, <1>8, <1>20

\* One of the sibling's children is red: the far one is made so.
LEMMA FarNephewReddened ==
  ASSUME NEW t, NEW H, NEW q, NEW e, NEW b, NEW L, NEW xp, NEW s, NEW x, Deficient(t, H, q, e, b, L, xp, s, x),
         NEW w, ShortSide(t, H, b, xp, s, x, w), w \notin t.red,
         t.child[s][w] \in t.red, t.child[Other(s)][w] \notin t.red
  PROVE  LET u == Rotate(Red(Black(t, t.child[s][w]), w), w, Other(s))
         IN /\ \E f, h : Deficient(u, H, q, f, h, L, xp, s, x)
            /\ x # Root(u) /\ x \notin u.red /\ Kept(t, u, H) /\ u.child[Other(s)][xp] = t.child[s][w]
            /\ t.child[s][w] \notin u.red /\ u.child[Other(s)][t.child[s][w]] \in u.red
<1>1. PICK o, m, i : o = Other(s) /\ m = t.child[s][w] /\ i = t.child[o][m]
  OBVIOUS
<1>2. PICK c, v : c = Black(t, m) /\ v = Red(c, w)
  OBVIOUS
<1>3. PICK u : u = Rotate(v, w, o)
  OBVIOUS
<1>4. Placed(t, H, q, e, L) /\ Heights(t, H, b, xp, s) /\ x \in H \cup {NULL}
  BY DEF Deficient
<1>5. /\ xp \in H /\ s \in Sides /\ x = t.child[s][xp] /\ w = t.child[o][xp] /\ w \in H /\ w # NULL
      /\ w # xp /\ w # x /\ x # xp /\ x \notin t.red /\ t.parent[w] = xp
      /\ b[x] \in Nat /\ b[w] = b[x] + 1 /\ b[xp] = b[w] + Weight(t, xp) /\ Root(t) \notin t.red
      /\ w # Root(t) /\ m \in t.red /\ t.child[o][w] \notin t.red
  BY <1>1 DEF ShortSide
<1>6. o \in Sides /\ o # s /\ s = Other(o) /\ \A sd \in Sides : sd = s \/ sd = o
  BY <1>1, <1>5, OtherSide DEF Sides, Other
<1>7. t \in Trees /\ H \subseteq Nodes /\ H \subseteq Spots /\ NULL \notin H /\ NULL \notin Spots /\ mAnchor \notin H
      /\ NULL \notin t.red
  BY <1>4, SpotsAreNumbers DEF Placed, Spots, Trees
<1>8. \A y \in H, sd \in Sides : /\ t.child[sd][y] \in H \cup {NULL} /\ t.child[sd][y] # y
                                 /\ t.child[sd][y] # NULL => t.parent[t.child[sd][y]] = y
                                 /\ Fine(t, y, t.child[sd][y], NULL)
  BY <1>4, ChildIsHeld DEF ShortSide
<1>9. m \in H /\ m # NULL /\ m # w /\ t.parent[m] = w /\ m # xp /\ m # x
  <2>1. m \in H /\ m # NULL /\ m # w /\ t.parent[m] = w
    BY <1>1, <1>5, <1>7, <1>8
  <2>2. m # xp
    <3>1. Placed(t, H, q, e, L) /\ w \in H /\ w # Root(t) /\ s \in Sides
      BY <1>4, <1>5
    <3>2. t.child[s][w] # t.parent[w]
      BY ONLY <3>1, GrandchildDiffers, Zenon
    <3> QED
      BY <1>1, <1>5, <3>2
  <2> QED
    BY <1>5, <2>1, <2>2
<1>10. i \in H \cup {NULL} /\ i # m /\ i \notin t.red /\ t.child[s][m] \in H \cup {NULL} /\ t.child[o][w] \in H \cup {NULL}
  BY <1>1, <1>5, <1>6, <1>7, <1>8, <1>9, Zenon DEF Fine
<1>11. v.red = (t.red \ {m}) \cup {w} /\ v.child = t.child /\ v.parent = t.parent /\ SameLinks(t, v)
  <2>1. c \in Trees /\ c.child = t.child /\ c.parent = t.parent /\ c.red = t.red \ {m}
    BY <1>2, <1>7, <1>9, Colours DEF SameLinks
  <2>2. v = Red(c, w) /\ c \in Trees /\ w \in Spots
    BY <1>2, <1>5, <1>7, <2>1
  <2>3. v \in Trees /\ v.child = c.child /\ v.parent = c.parent /\ v.red = c.red \cup {w}
    BY ONLY <2>2, Colours DEF SameLinks
  <2> QED
    BY <2>1, <2>3 DEF SameLinks
<1>12. Kept(t, v, H)
  <2>1. Kept(t, c, H) /\ c \in Trees
    BY <1>2, <1>7, <1>9, Colours, ColouringKeeps DEF SameLinks
  <2>2. Kept(c, v, H)
    BY <1>2, <1>5, <1>7, <2>1, ColouringKeeps
  <2> QED
    BY <2>1, <2>2, KeptThrough
<1>13. Placed(v, H, q, e, L) /\ Root(v) = Root(t)
  BY <1>4, <1>11, PlacedBySameLinks DEF Root
<1>14. Turned(v, u, H, q, e, L, w, m, i, xp, o)
  <2>1. v.child[Other(o)][w] # NULL /\ w \in H /\ o \in Sides
    BY <1>1, <1>5, <1>6, <1>9, <1>11
  <2>2. Turned(v, Rotate(v, w, o), H, q, e, L, w, v.child[Other(o)][w],
                v.child[o][v.child[Other(o)][w]], v.parent[w], o)
    BY <1>13, <2>1, RotationTurns
  <2>3. v.child[Other(o)][w] = m /\ v.child[o][m] = i /\ v.parent[w] = xp
    BY <1>1, <1>5, <1>6, <1>11
  <2> QED
    BY ONLY <1>3, <2>2, <2>3, Zenon
<1>15. Rotated(v, u, w, m, i, xp, o) /\ Kept(v, u, H) /\ Placed(u, H, q, TurnedEnds(H, q, e, w, m, o), L)
       /\ w # i /\ xp # i
  BY <1>14 DEF Turned, AboutToRotate
<1>16. Weight(v, m) = 1 /\ Weight(v, w) = 0 /\ Weight(t, w) = 1 /\ Weight(t, m) = 0
       /\ \A y \in H : y # w /\ y # m => Weight(v, y) = Weight(t, y)
  BY <1>5, <1>9, <1>11 DEF Weight
<1>17. /\ b \in [H \cup {NULL} -> Nat] /\ b[NULL] = 0
       /\ \A y \in H, sd \in Sides : b[y] = b[t.child[sd][y]] + Weight(t, y) + Lack(xp, s, y, sd)
  BY <1>4 DEF Heights
<1>18. OthersLevel(v, H, b, w, m, xp, s)
  BY <1>11, <1>16, <1>17 DEF OthersLevel
<1>19. /\ b[w] = b[m] + 1 /\ b[w] = b[t.child[o][w]] + 1 /\ b[m] = b[i] /\ b[m] = b[t.child[s][m]]
       /\ b[i] \in Nat
  <2>1. Lack(xp, s, w, s) = 0 /\ Lack(xp, s, w, o) = 0 /\ Lack(xp, s, m, s) = 0 /\ Lack(xp, s, m, o) = 0
    BY <1>5, <1>9 DEF Lack
  <2>5. w \in H /\ m \in H /\ s \in Sides /\ o \in Sides /\ m = t.child[s][w] /\ i = t.child[o][m]
    BY <1>1, <1>5, <1>6, <1>9
  <2>2. b[w] = b[m] + Weight(t, w) + Lack(xp, s, w, s)
        /\ b[w] = b[t.child[o][w]] + Weight(t, w) + Lack(xp, s, w, o)
    BY ONLY <1>17, <2>5
  <2>3. b[m] = b[t.child[s][m]] + Weight(t, m) + Lack(xp, s, m, s)
        /\ b[m] = b[i] + Weight(t, m) + Lack(xp, s, m, o)
    BY ONLY <1>17, <2>5
  <2>4. b[i] \in Nat /\ b[t.child[o][w]] \in Nat /\ b[t.child[s][m]] \in Nat /\ b[m] \in Nat
    BY <1>9, <1>10, <1>17
  <2> QED
    BY <1>16, <2>1, <2>2, <2>3, <2>4
<1>20. PICK h, f : h = TurnedHeights(H, b, w, m, b[i]) /\ f = TurnedEnds(H, q, e, w, m, o)
  OBVIOUS
<1>21. Heights(u, H, h, xp, s)
  <2>1. Lack(xp, s, w, s) = 0 /\ Lack(xp, s, w, o) = 0 /\ Lack(xp, s, m, s) = 0 /\ Lack(xp, s, m, o) = 0
    BY <1>5, <1>9 DEF Lack
  <2>2. v.child[o][w] = t.child[o][w] /\ v.child[Other(o)][m] = t.child[s][m] /\ Other(o) = s
    BY <1>6, <1>11
  <2>3. Weight(v, m) = 1 /\ Weight(v, w) = 0 /\ b[w] = b[m] + 1 /\ b[w] = b[t.child[o][w]] + 1 /\ b[m] = b[i]
        /\ b[m] = b[t.child[s][m]] /\ b[i] \in Nat /\ b[m] \in Nat /\ b[t.child[o][w]] \in Nat
    BY <1>9, <1>10, <1>16, <1>17, <1>19
  <2>4. /\ b[i] = b[i] + Weight(v, w) + Lack(xp, s, w, Other(o))
        /\ b[i] = b[v.child[o][w]] + Weight(v, w) + Lack(xp, s, w, o)
        /\ b[w] = b[i] + Weight(v, m) + Lack(xp, s, m, o)
        /\ b[w] = b[v.child[Other(o)][m]] + Weight(v, m) + Lack(xp, s, m, Other(o))
    BY ONLY <2>1, <2>2, <2>3
  <2> QED
    BY <1>13, <1>14, <1>18, <1>19, <1>20, <2>4, RotationLevels
<1>22. NoRedRed(u, H, x)
  <2>1. ASSUME NEW y \in H, NEW sd \in Sides, y # w, y # m, v.child[sd][y] # w
        PROVE  Fine(v, y, v.child[sd][y], x)
    <3>1. t.child[sd][y] # m
      BY <1>8, <1>9, <2>1
    <3> QED
      BY <1>7, <1>8, <1>11, <2>1, <3>1 DEF Fine
  <2>2. Fine(v, xp, m, x) /\ Fine(v, m, w, x) /\ Fine(v, m, v.child[Other(o)][m], x)
    BY <1>9, <1>5, <1>11 DEF Fine
  <2>3. Fine(v, w, i, x) /\ Fine(v, w, v.child[o][w], x)
    <3>1. t.child[o][w] # w
      BY <1>5, <1>6, <1>8
    <3> QED
      BY <1>5, <1>10, <1>11, <1>15, <3>1 DEF Fine
  <2> QED
    BY <1>13, <1>14, <2>1, <2>2, <2>3, RotationColours
<1>23. u.child[s][xp] = x /\ u.child[o][xp] = m /\ u.child[o][m] = w
  <2>1. xp \in Spots /\ m \in Spots /\ xp # w /\ xp # m
    BY <1>5, <1>7, <1>9
  <2>2. SideOf(v, w) = o
    <3>1. SideOf(t, w) = o
      BY <1>4, <1>5, <1>6, OneParent
    <3> QED
      BY <1>11, <3>1 DEF SideOf
  <2> QED
    BY <1>5, <1>6, <1>9, <1>11, <1>13, <1>15, <2>1, <2>2 DEF Rotated
<1>24. u.red = v.red /\ Root(u) = Root(t)
  <2>1. mAnchor # m /\ mAnchor # w /\ mAnchor # i /\ mAnchor \in Spots
    BY <1>5, <1>7, <1>9, <1>10 DEF Spots, NULL, mAnchor
  <2> QED
    BY <1>5, <1>11, <1>13, <1>15, <2>1 DEF Rotated, Root
<1>25. Root(u) \notin u.red
  BY <1>5, <1>11, <1>24
<1>26. x # Root(u)
  <2>1. x = Root(t) => t.parent[x] = mAnchor
    <3>1. x = Root(t) => x \in H
      BY <1>4, <1>5 DEF Placed
    <3> QED
      BY <1>4, <3>1, ParentIsAbove
  <2>2. x # NULL => t.parent[x] = xp
    BY DEF ShortSide
  <2>3. x = NULL => x # Root(t)
    BY <1>4, <1>5, <1>7 DEF Placed
  <2> QED
    BY <1>5, <1>7, <1>24, <2>1, <2>2, <2>3
<1>27. Deficient(u, H, q, f, h, L, xp, s, x)
  BY <1>4, <1>5, <1>15, <1>20, <1>21, <1>22, <1>23, <1>25 DEF Deficient, LackingAt
<1>28. x \notin u.red /\ m \notin u.red /\ u.child[o][m] \in u.red
  BY <1>5, <1>9, <1>11, <1>23, <1>24
<1>29. Kept(t, u, H)
  BY <1>12, <1>15, KeptThrough
<1>30. u = Rotate(Red(Black(t, m), w), w, o)
  BY <1>2, <1>3
<1> QED
  BY <1>1, <1>23, <1>26, <1>27, <1>28, <1>29, <1>30

\* The far nephew is red: with a rotation nothing is lacking any more.
LEMMA SiblingLifted ==
  ASSUME NEW t, NEW H, NEW q, NEW e, NEW b, NEW L, NEW xp, NEW s, NEW x, Deficient(t, H, q, e, b, L, xp, s, x),
         NEW w, ShortSide(t, H, b, xp, s, x, w), w \notin t.red, t.child[Other(s)][w] \in t.red
  PROVE  LET u == LiftSibling(t, xp, s)
         IN (\E f, h : Level(u, H, q, f, h, L)) /\ x \notin u.red /\ Kept(t, u, H)
<1>1. PICK o, far, i, p : o = Other(s) /\ far = t.child[o][w] /\ i = t.child[s][w] /\ p = t.parent[xp]
  OBVIOUS
<1>2. PICK a : a = IF xp \in t.red THEN Red(t, w) ELSE Black(t, w)
  OBVIOUS
<1>3. PICK c, v : c = Black(a, xp) /\ v = Black(c, far)
  OBVIOUS
<1>4. PICK u : u = Rotate(v, xp, s)
  OBVIOUS
<1>5. Placed(t, H, q, e, L) /\ Heights(t, H, b, xp, s) /\ x \in H \cup {NULL}
  BY DEF Deficient
<1>6. /\ xp \in H /\ s \in Sides /\ x = t.child[s][xp] /\ w = t.child[o][xp] /\ w \in H /\ w # NULL
      /\ w # xp /\ w # x /\ x # xp /\ x \notin t.red /\ t.parent[w] = xp
      /\ b[x] \in Nat /\ b[w] = b[x] + 1 /\ b[xp] = b[w] + Weight(t, xp) /\ Root(t) \notin t.red
      /\ w # Root(t) /\ w \notin t.red /\ far \in t.red
  BY <1>1 DEF ShortSide
<1>7. o \in Sides /\ o # s /\ s = Other(o) /\ \A sd \in Sides : sd = s \/ sd = o
  BY <1>1, <1>6, OtherSide DEF Sides, Other
<1>8. t \in Trees /\ H \subseteq Nodes /\ H \subseteq Spots /\ NULL \notin H /\ NULL \notin Spots /\ mAnchor \notin H
      /\ NULL \notin t.red
  BY <1>5, SpotsAreNumbers DEF Placed, Spots, Trees
<1>9. \A y \in H, sd \in Sides : /\ t.child[sd][y] \in H \cup {NULL} /\ t.child[sd][y] # y
                                 /\ t.child[sd][y] # NULL => t.parent[t.child[sd][y]] = y
                                 /\ Fine(t, y, t.child[sd][y], NULL)
  BY <1>5, ChildIsHeld DEF ShortSide
<1>10. far \in H /\ far # NULL /\ far # w /\ t.parent[far] = w /\ far # xp /\ far # x
  <2>1. far \in H /\ far # NULL /\ far # w /\ t.parent[far] = w
    BY <1>1, <1>6, <1>7, <1>8, <1>9
  <2>2. Placed(t, H, q, e, L) /\ w \in H /\ w # Root(t) /\ o \in Sides
    BY <1>5, <1>6, <1>7
  <2>3. t.child[o][w] # t.parent[w]
    BY ONLY <2>2, GrandchildDiffers, Zenon
  <2> QED
    BY <1>1, <1>6, <2>1, <2>3
<1>11. i \in H \cup {NULL}
  BY <1>1, <1>6, <1>9
<1>12. /\ SameLinks(t, v) /\ v.child = t.child /\ v.parent = t.parent
       /\ v.red = (IF xp \in t.red THEN t.red \cup {w} ELSE t.red \ {w}) \ {xp, far} /\ Kept(t, v, H)
  <2>1. t \in Trees /\ w \in Spots /\ w \in H /\ xp \in Spots /\ xp \in H /\ far \in Spots /\ far \in H
    BY <1>6, <1>8, <1>10
  <2>2. SameLinks(t, a) /\ a.red = (IF xp \in t.red THEN t.red \cup {w} ELSE t.red \ {w}) /\ Kept(t, a, H)
    BY ONLY <1>2, <2>1, Colours, ColouringKeeps
  <2>3. a \in Trees
    BY <2>2 DEF SameLinks
  <2>4. SameLinks(a, c) /\ c.red = a.red \ {xp} /\ Kept(a, c, H)
    BY ONLY <1>3, <2>1, <2>3, Colours, ColouringKeeps
  <2>5. c \in Trees
    BY <2>4 DEF SameLinks
  <2>6. SameLinks(c, v) /\ v.red = c.red \ {far} /\ Kept(c, v, H)
    BY ONLY <1>3, <2>1, <2>5, Colours, ColouringKeeps
  <2>7. Kept(t, c, H)
    BY <2>2, <2>4, KeptThrough
  <2>8. Kept(t, v, H)
    BY <2>6, <2>7, KeptThrough
  <2>9. SameLinks(t, v) /\ v.child = t.child /\ v.parent = t.parent
    BY <2>2, <2>4, <2>6 DEF SameLinks
  <2> QED
    BY <2>2, <2>4, <2>6, <2>8, <2>9
<1>13. Placed(v, H, q, e, L) /\ Root(v) = Root(t)
  BY <1>5, <1>12, PlacedBySameLinks DEF Root
<1>14. Turned(v, u, H, q, e, L, xp, w, i, p, s)
  <2>1. v.child[Other(s)][xp] # NULL /\ xp \in H /\ s \in Sides
    BY <1>1, <1>6, <1>12
  <2>2. Turned(v, Rotate(v, xp, s), H, q, e, L, xp, v.child[Other(s)][xp],
                v.child[s][v.child[Other(s)][xp]], v.parent[xp], s)
    BY <1>13, <2>1, RotationTurns
  <2>3. v.child[Other(s)][xp] = w /\ v.child[s][w] = i /\ v.parent[xp] = p
    BY <1>1, <1>6, <1>12
  <2> QED
    BY ONLY <1>4, <2>2, <2>3, Zenon
<1>15. Rotated(v, u, xp, w, i, p, s) /\ Kept(v, u, H) /\ Placed(u, H, q, TurnedEnds(H, q, e, xp, w, s), L)
  BY <1>14 DEF Turned
<1>16. /\ \A y \in H : y # xp /\ y # w /\ y # far => Weight(v, y) = Weight(t, y)
       /\ Weight(v, xp) = 1 /\ Weight(v, far) = 1 /\ Weight(v, w) = Weight(t, xp)
       /\ Weight(t, far) = 0 /\ Weight(t, w) = 1 /\ Weight(t, xp) \in {0, 1}
  BY <1>6, <1>10, <1>12 DEF Weight
<1>17. /\ b \in [H \cup {NULL} -> Nat] /\ b[NULL] = 0
       /\ \A y \in H, sd \in Sides : b[y] = b[t.child[sd][y]] + Weight(t, y) + Lack(xp, s, y, sd)
  BY <1>5 DEF Heights
<1>18. PICK d : d = [z \in H \cup {NULL} |-> IF z = far THEN b[z] + 1 ELSE b[z]]
  OBVIOUS
<1>19. d \in [H \cup {NULL} -> Nat] /\ d[NULL] = 0 /\ d[far] = b[far] + 1
       /\ \A z \in H \cup {NULL} : z # far => d[z] = b[z]
  BY <1>10, <1>17, <1>18
<1>20. ASSUME NEW y \in H, NEW sd \in Sides, y # xp, y # w
       PROVE  d[y] = d[v.child[sd][y]] + Weight(v, y) + Lack(mAnchor, "left", y, sd)
  <2>1. PICK z : z = t.child[sd][y]
    OBVIOUS
  <2>2. z \in H \cup {NULL} /\ (z # NULL => t.parent[z] = y) /\ v.child[sd][y] = z
    BY <1>9, <1>12, <2>1
  <2>3. b[y] = b[z] + Weight(t, y) + Lack(xp, s, y, sd) /\ b[y] \in Nat /\ b[z] \in Nat
    BY <1>17, <2>1, <2>2
  <2>4. z # far
    BY <1>10, <1>20, <2>2
  <2>5. d[z] = b[z]
    BY <1>19, <2>2, <2>4
  <2>6. Lack(xp, s, y, sd) = 0 /\ Lack(mAnchor, "left", y, sd) = 0
    BY <1>8, <1>20 DEF Lack
  <2>7. CASE y = far
    BY <1>16, <1>19, <2>2, <2>3, <2>5, <2>6, <2>7
  <2>8. CASE y # far
    BY <1>16, <1>19, <1>20, <2>2, <2>3, <2>5, <2>6, <2>8
  <2> QED
    BY <2>7, <2>8
<1>21. OthersLevel(v, H, d, xp, w, mAnchor, "left")
  BY <1>19, <1>20 DEF OthersLevel
<1>22. b[w] = b[i] + 1 /\ b[w] = b[far] + 1 /\ b[i] \in Nat /\ b[far] \in Nat /\ b[w] \in Nat
  <2>1. w \in H /\ s \in Sides /\ o \in Sides /\ i = t.child[s][w] /\ far = t.child[o][w]
    BY <1>1, <1>6, <1>7
  <2>2. b[w] = b[i] + Weight(t, w) + Lack(xp, s, w, s) /\ b[w] = b[far] + Weight(t, w) + Lack(xp, s, w, o)
    BY ONLY <1>17, <2>1
  <2>3. Lack(xp, s, w, s) = 0 /\ Lack(xp, s, w, o) = 0
    BY <1>6 DEF Lack
  <2>4. b[i] \in Nat /\ b[far] \in Nat /\ b[w] \in Nat
    BY <1>6, <1>10, <1>11, <1>17
  <2> QED
    BY <1>16, <2>2, <2>3, <2>4
<1>23. PICK h, f : h = TurnedHeights(H, d, xp, w, b[w]) /\ f = TurnedEnds(H, q, e, xp, w, s)
  OBVIOUS
<1>24. Heights(u, H, h, mAnchor, "left")
  <2>1. /\ Lack(mAnchor, "left", xp, s) = 0 /\ Lack(mAnchor, "left", xp, o) = 0
        /\ Lack(mAnchor, "left", w, s) = 0 /\ Lack(mAnchor, "left", w, o) = 0
    BY <1>6, <1>8 DEF Lack
  <2>2. v.child[s][xp] = x /\ v.child[Other(s)][w] = far /\ Other(s) = o
    BY <1>1, <1>6, <1>12
  <2>3. i # far
    <3>1. t.child[o][w] # NULL
      BY <1>1, <1>10
    <3>2. Placed(t, H, q, e, L) /\ w \in H /\ o \in Sides
      BY <1>5, <1>6, <1>7
    <3>3. t.child[o][w] # t.child[Other(o)][w]
      BY ONLY <3>1, <3>2, ChildrenDiffer, Zenon
    <3> QED
      BY <1>1, <1>7, <3>3
  <2>4. d[x] = b[x] /\ d[i] = b[i] /\ d[xp] = b[xp]
    BY <1>5, <1>6, <1>10, <1>11, <1>19, <2>3
  <2>5. Weight(v, xp) = 1 /\ Weight(v, w) = Weight(t, xp) /\ b[w] = b[x] + 1 /\ b[xp] = b[w] + Weight(t, xp)
        /\ b[w] = b[i] + 1 /\ b[w] = b[far] + 1 /\ d[far] = b[far] + 1
        /\ b[i] \in Nat /\ b[x] \in Nat /\ Weight(t, xp) \in {0, 1}
    BY <1>6, <1>16, <1>19, <1>22
  <2>6. /\ b[w] = d[i] + Weight(v, xp) + Lack(mAnchor, "left", xp, Other(s))
        /\ b[w] = d[v.child[s][xp]] + Weight(v, xp) + Lack(mAnchor, "left", xp, s)
        /\ d[xp] = b[w] + Weight(v, w) + Lack(mAnchor, "left", w, s)
        /\ d[xp] = d[v.child[Other(s)][w]] + Weight(v, w) + Lack(mAnchor, "left", w, Other(s))
    BY ONLY <2>1, <2>2, <2>4, <2>5
  <2> QED
    BY <1>13, <1>14, <1>21, <1>22, <1>23, <2>6, RotationLevels
<1>25. NoRedRed(u, H, NULL)
  <2>1. ASSUME NEW y \in H, NEW sd \in Sides, y # xp, y # w, v.child[sd][y] # xp
        PROVE  Fine(v, y, v.child[sd][y], NULL)
    <3>1. t.child[sd][y] # w
      BY <1>6, <1>8, <1>9, <2>1
    <3> QED
      BY <1>9, <1>12, <2>1, <3>1 DEF Fine
  <2>2. xp # Root(v) => Fine(v, p, w, NULL)
    <3> SUFFICES ASSUME xp # Root(t) PROVE Fine(v, p, w, NULL)
      BY <1>13
    <3>1. p \in H /\ SideOf(t, xp) \in Sides /\ xp = t.child[SideOf(t, xp)][p]
      BY <1>1, <1>5, <1>6, ParentIsAbove
    <3>2. Fine(t, p, xp, NULL)
      BY <1>9, <3>1
    <3>3. p # w
      <4>1. Placed(t, H, q, e, L) /\ xp \in H /\ xp # Root(t) /\ o \in Sides
        BY <1>5, <1>6, <1>7
      <4>2. t.child[o][xp] # t.parent[xp]
        BY ONLY <4>1, GrandchildDiffers, Zenon
      <4> QED
        BY <1>1, <1>6, <4>2
    <3> QED
      BY <1>6, <1>8, <1>12, <3>1, <3>2, <3>3 DEF Fine
  <2>3. Fine(v, xp, i, NULL) /\ Fine(v, xp, v.child[s][xp], NULL) /\ Fine(v, w, xp, NULL)
        /\ Fine(v, w, v.child[Other(s)][w], NULL)
    BY <1>1, <1>12 DEF Fine
  <2> QED
    BY <1>13, <1>14, <2>1, <2>2, <2>3, RotationColours
<1>26. u.red = v.red /\ Root(u) = IF xp = Root(t) THEN w ELSE Root(t)
  <2>1. mAnchor # xp /\ mAnchor # w /\ mAnchor # i /\ mAnchor \in Spots
    BY <1>6, <1>8, <1>11 DEF Spots, NULL, mAnchor
  <2> QED
    BY <1>12, <1>13, <1>15, <2>1 DEF Rotated, Root
<1>27. Root(u) \notin u.red
  BY <1>6, <1>12, <1>26
<1>28. x \notin u.red
  BY <1>6, <1>12, <1>26
<1>29. Level(u, H, q, f, h, L)
  BY <1>15, <1>23, <1>24, <1>25, <1>27 DEF Level
<1>30. Kept(t, u, H)
  BY <1>12, <1>15, KeptThrough
<1>31. u = LiftSibling(t, xp, s)
  <2>1. IsRed(t, xp) = (xp \in t.red)
    BY DEF IsRed
  <2> QED
    BY <1>1, <1>2, <1>3, <1>4, <1>6, <2>1 DEF LiftSibling
<1> QED
  BY <1>28, <1>29, <1>30, <1>31

\* A black node is lacking above x, and its sibling w is black.
BlackShortSide(t, H, q, e, b, L, xp, s, x, w) ==
  Deficient(t, H, q, e, b, L, xp, s, x) /\ ShortSide(t, H, b, xp, s, x, w) /\ w \notin t.red

LEMMA SiblingIsBlack ==
  ASSUME NEW t, NEW H, NEW q, NEW e, NEW b, NEW L, NEW xp, NEW s, NEW x, Deficient(t, H, q, e, b, L, xp, s, x),
         x # Root(t), x \notin t.red, NEW u, u = BlackSibling(t, xp, s)
  PROVE  /\ Kept(t, u, H)
         /\ \/ u = t /\ BlackShortSide(u, H, q, e, b, L, xp, s, x, u.child[Other(s)][xp])
            \/ xp \in u.red /\ \E f, h : BlackShortSide(u, H, q, f, h, L, xp, s, x, u.child[Other(s)][xp])
<1>1. PICK w : w = t.child[Other(s)][xp]
  OBVIOUS
<1>2. ShortSide(t, H, b, xp, s, x, w)
  BY <1>1, ShortSideIs
<1>3. u = IF w \in t.red THEN Rotate(Red(Black(t, w), xp), xp, s) ELSE t
  BY <1>1 DEF BlackSibling, IsRed
<1>4. CASE w \notin t.red
  <2>1. u = t
    BY <1>3, <1>4
  <2> QED
    BY <1>1, <1>2, <1>4, <2>1 DEF BlackShortSide, Kept
<1>5. CASE w \in t.red
  <2>1. u = Rotate(Red(Black(t, w), xp), xp, s)
    BY <1>3, <1>5
  <2>2. /\ \E f, h : Deficient(u, H, q, f, h, L, xp, s, x)
        /\ x # Root(u) /\ x \notin u.red /\ u.child[Other(s)][xp] \notin u.red /\ xp \in u.red
        /\ Kept(t, u, H)
    BY ONLY Deficient(t, H, q, e, b, L, xp, s, x), <1>2, <1>5, <2>1, SiblingBlackened
  <2>3. PICK f, h : Deficient(u, H, q, f, h, L, xp, s, x)
    BY <2>2
  <2>4. ShortSide(u, H, h, xp, s, x, u.child[Other(s)][xp])
    BY ONLY <2>2, <2>3, ShortSideIs
  <2> QED
    BY <2>2, <2>3, <2>4 DEF BlackShortSide
<1> QED
  BY <1>4, <1>5

LEMMA SiblingIsLifted ==
  ASSUME NEW t, NEW H, NEW q, NEW e, NEW b, NEW L, NEW xp, NEW s, NEW x, NEW w,
         BlackShortSide(t, H, q, e, b, L, xp, s, x, w), w = t.child[Other(s)][xp],
         NEW sd \in Sides, t.child[sd][w] \in t.red,
         NEW u, u = LiftSibling(RedFarNephew(t, xp, s), xp, s)
  PROVE  (\E f, h : Level(u, H, q, f, h, L)) /\ x \notin u.red /\ Kept(t, u, H)
<1>1. PICK v : v = RedFarNephew(t, xp, s)
  OBVIOUS
<1>2. Deficient(t, H, q, e, b, L, xp, s, x) /\ ShortSide(t, H, b, xp, s, x, w) /\ w \notin t.red
  BY DEF BlackShortSide
<1>3. s \in Sides
  BY <1>2 DEF ShortSide
<1>4. v = IF t.child[Other(s)][w] \in t.red THEN t
          ELSE Rotate(Red(Black(t, t.child[s][w]), w), w, Other(s))
  BY <1>1 DEF RedFarNephew, IsRed
<1>5. \E f, h, y : /\ Deficient(v, H, q, f, h, L, xp, s, x) /\ ShortSide(v, H, h, xp, s, x, y)
                   /\ y \notin v.red /\ v.child[Other(s)][y] \in v.red /\ Kept(t, v, H)
  <2>1. CASE t.child[Other(s)][w] \in t.red
    <3>1. v = t
      BY <1>4, <2>1
    <3>2. Kept(t, t, H)
      BY DEF Kept
    <3> QED
      BY ONLY <1>2, <2>1, <3>1, <3>2
  <2>2. CASE t.child[Other(s)][w] \notin t.red
    <3>1. v = Rotate(Red(Black(t, t.child[s][w]), w), w, Other(s))
      BY <1>4, <2>2
    <3>2. t.child[s][w] \in t.red
      BY <1>3, <2>2 DEF Sides, Other
    <3>3. /\ \E f, h : Deficient(v, H, q, f, h, L, xp, s, x)
          /\ x # Root(v) /\ x \notin v.red /\ Kept(t, v, H) /\ v.child[Other(s)][xp] = t.child[s][w]
          /\ t.child[s][w] \notin v.red /\ v.child[Other(s)][t.child[s][w]] \in v.red
      BY ONLY <1>2, <2>2, <3>1, <3>2, FarNephewReddened
    <3>4. PICK f, h : Deficient(v, H, q, f, h, L, xp, s, x)
      BY <3>3
    <3>5. ShortSide(v, H, h, xp, s, x, v.child[Other(s)][xp])
      BY ONLY <3>3, <3>4, ShortSideIs
    <3> QED
      BY ONLY <3>3, <3>4, <3>5
  <2> QED
    BY <2>1, <2>2
<1>6. PICK f, h, y : /\ Deficient(v, H, q, f, h, L, xp, s, x) /\ ShortSide(v, H, h, xp, s, x, y)
                     /\ y \notin v.red /\ v.child[Other(s)][y] \in v.red /\ Kept(t, v, H)
  BY <1>5
<1>7. u = LiftSibling(v, xp, s)
  BY <1>1
<1>8. (\E g, k : Level(u, H, q, g, k, L)) /\ x \notin u.red /\ Kept(v, u, H)
  BY ONLY <1>6, <1>7, SiblingLifted
<1> QED
  BY <1>6, <1>8, KeptThrough

\* What a round of the loop begins with, of t0 and everything else.
Lacking(t0, H, q, e, L, r) ==
  /\ Kept(t0, r.tree, H)
  /\ \/ r.done /\ r.node \notin r.tree.red /\ \E f, b : Level(r.tree, H, q, f, b, L)
     \/ ~r.done /\ \E b, sx : Deficient(r.tree, H, q, e, b, L, r.parent, sx, r.node)
     \/ ~r.done /\ r.node \in r.tree.red /\ \E f, b, sx : Deficient(r.tree, H, q, f, b, L, r.parent, sx, r.node)

\* A round leaves r as it is.
Still(r) == r.done \/ r.node = Root(r.tree) \/ r.node \in r.tree.red

LoopStates(H) == [tree : Trees, node : H \cup {NULL}, parent : Spots, done : BOOLEAN]

LEMMA DeepenLevels ==
  ASSUME NEW t0, NEW H, NEW q, NEW e, NEW L, NEW r \in LoopStates(H), Lacking(t0, H, q, e, L, r)
  PROVE  \/ Still(r) /\ Deepen(r) = r
         \/ /\ ~Still(r) /\ r.parent \in H /\ Deepen(r) \in LoopStates(H) /\ Placed(r.tree, H, q, e, L)
            /\ Lacking(t0, H, q, e, L, Deepen(r))
            /\ \/ Still(Deepen(r))
               \/ Deepen(r).parent \in H /\ Size(e, Deepen(r).parent) > Size(e, r.parent)
<1>1. PICK t, x, xp : t = r.tree /\ x = r.node /\ xp = r.parent
  OBVIOUS
<1>2. PICK s : s = IF x = t.child["left"][xp] THEN "left" ELSE "right"
  OBVIOUS
<1>3. PICK v : v = BlackSibling(t, xp, s)
  OBVIOUS
<1>4. PICK w : w = v.child[Other(s)][xp]
  BY Zenon
<1>5. /\ Deepen(r) = IF Still(r) THEN r
                     ELSE IF \A sd \in Sides : v.child[sd][w] \notin v.red
                     THEN [tree |-> Red(v, w), node |-> xp, parent |-> v.parent[xp], done |-> FALSE]
                     ELSE [tree |-> LiftSibling(RedFarNephew(v, xp, s), xp, s), node |-> x, parent |-> xp,
                           done |-> TRUE]
  BY <1>1, <1>2, <1>3, <1>4, Zenon DEF Deepen, Still, IsRed
<1>6. CASE Still(r)
  BY <1>5, <1>6
<1>7. CASE ~Still(r)
  <2>1. ~r.done /\ x # Root(t) /\ x \notin t.red
    BY <1>1, <1>7 DEF Still
  <2>2. PICK b, sx : Deficient(t, H, q, e, b, L, xp, sx, x)
    BY <1>1, <2>1 DEF Lacking
  <2>3. s = sx
    <3>1. (IF x = t.child["left"][xp] THEN "left" ELSE "right") = sx
      BY ONLY <2>1, <2>2, ShortSideIs
    <3> QED
      BY <1>2, <3>1
  <2>4. Deficient(t, H, q, e, b, L, xp, s, x)
    BY <2>2, <2>3
  <2>5. ShortSide(t, H, b, xp, s, x, t.child[Other(s)][xp])
    BY ONLY <2>1, <2>4, ShortSideIs
  <2>6. xp \in H /\ x \in H \cup {NULL} /\ s \in Sides
    BY <2>5 DEF ShortSide
  <2>7. Placed(t, H, q, e, L)
    BY <2>4 DEF Deficient
  <2>8. /\ Kept(t, v, H)
        /\ \/ v = t /\ BlackShortSide(v, H, q, e, b, L, xp, s, x, w)
           \/ xp \in v.red /\ \E f, h : BlackShortSide(v, H, q, f, h, L, xp, s, x, w)
    BY ONLY <1>3, <1>4, <2>1, <2>4, SiblingIsBlack
  <2>9. PICK f, h : BlackShortSide(v, H, q, f, h, L, xp, s, x, w) /\ ((v = t /\ f = e) \/ xp \in v.red)
    BY <2>8
  <2>10. Deficient(v, H, q, f, h, L, xp, s, x) /\ ShortSide(v, H, h, xp, s, x, w) /\ w \notin v.red
    BY <2>9 DEF BlackShortSide
  <2>11. Kept(t0, t, H) /\ Kept(t0, v, H)
    <3>1. Kept(t0, t, H)
      BY <1>1 DEF Lacking
    <3> QED
      BY <2>8, <3>1, KeptThrough
  <2>12. CASE \A sd \in Sides : v.child[sd][w] \notin v.red
    <3>1. PICK u : u = Red(v, w)
      OBVIOUS
    <3>2. (\E k : Deficient(u, H, q, f, k, L, v.parent[xp], SideOf(v, xp), xp)) /\ Kept(v, u, H)
      BY ONLY <2>10, <2>12, <3>1, SiblingReddened
    <3>3. Deepen(r) = [tree |-> u, node |-> xp, parent |-> v.parent[xp], done |-> FALSE]
      BY <1>5, <1>7, <2>12, <3>1
    <3>4. Kept(t0, u, H)
      BY <2>11, <3>2, KeptThrough
    <3>5. PICK k : Deficient(u, H, q, f, k, L, v.parent[xp], SideOf(v, xp), xp)
      BY <3>2
    <3>6. Placed(v, H, q, f, L) /\ Placed(u, H, q, f, L)
      BY <2>10, <3>5 DEF Deficient
    <3>7. u \in Trees /\ v \in Trees /\ v.parent[xp] \in Spots /\ xp \in Spots
      BY <2>6, <3>6, ParentIsAbove, PlacesAreNumbers
    <3>8. PICK d : d = Deepen(r)
      OBVIOUS
    <3>9. d.tree = u /\ d.node = xp /\ d.parent = v.parent[xp] /\ d.done = FALSE
      BY <3>3, <3>8
    <3>10. d \in LoopStates(H)
      BY <2>6, <3>3, <3>7, <3>8 DEF LoopStates
    <3>11. u.red = v.red \cup {w} /\ u.parent = v.parent
      BY <3>1 DEF Red
    <3>12. CASE v = t /\ f = e
      <4>1. Lacking(t0, H, q, e, L, d)
        BY <3>4, <3>5, <3>9, <3>12 DEF Lacking
      <4>2. xp = Root(u) => Still(d)
        BY <3>9 DEF Still
      <4>3. xp # Root(u) => v.parent[xp] \in H /\ Size(e, v.parent[xp]) > Size(e, xp)
        <5>1. ASSUME xp # Root(u) PROVE v.parent[xp] \in H /\ Size(e, v.parent[xp]) > Size(e, xp)
          <6>1. xp # Root(v)
            BY <3>11, <5>1 DEF Root
          <6>2. Size(e, v.parent[xp]) >= Size(e, xp) + 1 /\ Size(e, xp) \in Nat
            BY <2>6, <3>6, <3>12, <6>1, ParentIsLarger
          <6>3. v.parent[xp] \in H
            BY <2>6, <3>6, <6>1, ParentIsAbove
          <6>4. Placed(v, H, q, e, L) /\ v.parent[xp] \in H
            BY <3>6, <3>12, <6>3
          <6>5. e["left"][v.parent[xp]] \in 1..L /\ e["right"][v.parent[xp]] \in 1..L
            BY ONLY <6>4, PlacesAreNumbers
          <6>6. Size(e, v.parent[xp]) \in Int
            BY ONLY <6>5 DEF Size
          <6> QED
            BY <6>2, <6>3, <6>6
        <5> QED
          BY <5>1
      <4> QED
        BY <1>1, <1>7, <2>6, <2>7, <3>8, <3>9, <3>10, <4>1, <4>2, <4>3
    <3>13. CASE xp \in v.red
      <4>1. xp \in u.red
        BY <3>11, <3>13
      <4>2. Lacking(t0, H, q, e, L, d)
        BY <3>4, <3>5, <3>9, <4>1 DEF Lacking
      <4>3. Still(d)
        BY <3>9, <4>1 DEF Still
      <4> QED
        BY <1>1, <1>7, <2>6, <2>7, <3>8, <3>10, <4>2, <4>3
    <3> QED
      BY <2>9, <3>12, <3>13
  <2>13. CASE ~\A sd \in Sides : v.child[sd][w] \notin v.red
    <3>1. PICK u : u = LiftSibling(RedFarNephew(v, xp, s), xp, s)
      OBVIOUS
    <3>2. PICK sd \in Sides : v.child[sd][w] \in v.red
      BY <2>13
    <3>3. (\E g, k : Level(u, H, q, g, k, L)) /\ x \notin u.red /\ Kept(v, u, H)
      BY ONLY <1>4, <2>9, <3>1, <3>2, SiblingIsLifted
    <3>4. PICK d : d = Deepen(r)
      OBVIOUS
    <3>5. d = [tree |-> u, node |-> x, parent |-> xp, done |-> TRUE]
      BY <1>5, <1>7, <2>13, <3>1, <3>4
    <3>6. u \in Trees /\ xp \in Spots
      <4>1. \E g : Placed(u, H, q, g, L)
        BY <3>3 DEF Level
      <4>2. u \in Trees
        BY <4>1 DEF Placed
      <4> QED
        BY <2>6, <2>7, <4>2, PlacesAreNumbers
    <3>7. d \in LoopStates(H)
      BY <2>6, <3>5, <3>6 DEF LoopStates
    <3>8. Lacking(t0, H, q, e, L, d)
      <4>1. Kept(t0, u, H)
        BY <2>11, <3>3, KeptThrough
      <4> QED
        BY <3>3, <3>5, <4>1 DEF Lacking
    <3>9. Still(d)
      BY <3>5 DEF Still
    <3> QED
      BY <1>1, <1>7, <2>6, <2>7, <3>4, <3>7, <3>8, <3>9
  <2> QED
    BY <2>12, <2>13
<1> QED
  BY <1>6, <1>7

LEMMA DeepenLoop ==
  ASSUME NEW t, NEW H, NEW q, NEW e, NEW b, NEW L, NEW xp, NEW sx, NEW x, L <= N,
         Deficient(t, H, q, e, b, L, xp, sx, x),
         NEW r, r = Repeated(Deepen, [tree |-> t, node |-> x, done |-> FALSE, parent |-> xp])
  PROVE  r \in LoopStates(H) /\ Lacking(t, H, q, e, L, r) /\ Still(r)
<1>1. PICK y : y = [tree |-> t, node |-> x, done |-> FALSE, parent |-> xp]
  OBVIOUS
<1>2. PICK S : S = {z \in LoopStates(H) : Lacking(t, H, q, e, L, z)}
  OBVIOUS
<1>3. Placed(t, H, q, e, L) /\ L \in Nat /\ N \in Nat /\ t \in Trees /\ x \in H \cup {NULL} /\ H \subseteq Nodes
      /\ LackingAt(t, H, xp, sx, x)
  <2>1. Placed(t, H, q, e, L) /\ x \in H \cup {NULL} /\ LackingAt(t, H, xp, sx, x)
    BY DEF Deficient
  <2> QED
    BY <2>1, RedBlackTreeAssumption DEF Placed
<1>4. y \in S
  <2>1. xp \in Spots
    BY <1>3 DEF LackingAt, Spots
  <2>2. Lacking(t, H, q, e, L, y)
    <3>1. Kept(t, t, H)
      BY DEF Kept
    <3>2. y.tree = t /\ y.node = x /\ y.done = FALSE /\ y.parent = xp
      BY <1>1
    <3> QED
      BY <3>1, <3>2 DEF Lacking
  <2> QED
    BY <1>1, <1>2, <1>3, <2>1, <2>2 DEF LoopStates
<1>5. ASSUME NEW z \in S
      PROVE  \/ Still(z) /\ Deepen(z) = z
             \/ /\ ~Still(z) /\ z.parent \in H /\ Deepen(z) \in S
                /\ \/ Still(Deepen(z))
                   \/ Deepen(z).parent \in H /\ Size(e, Deepen(z).parent) > Size(e, z.parent)
  <2>1. z \in LoopStates(H) /\ Lacking(t, H, q, e, L, z)
    BY <1>2
  <2>2. \/ Still(z) /\ Deepen(z) = z
        \/ /\ ~Still(z) /\ z.parent \in H /\ Deepen(z) \in LoopStates(H) /\ Placed(z.tree, H, q, e, L)
           /\ Lacking(t, H, q, e, L, Deepen(z))
           /\ \/ Still(Deepen(z))
              \/ Deepen(z).parent \in H /\ Size(e, Deepen(z).parent) > Size(e, z.parent)
    BY <2>1, DeepenLevels
  <2> QED
    BY <1>2, <2>2, Zenon
<1>6. ASSUME NEW z \in H PROVE Size(e, z) \in 0..(L - 1)
  <2>1. /\ q[z] \in 1..L /\ e["left"][z] \in 1..L /\ e["right"][z] \in 1..L
        /\ e["left"][z] <= q[z] /\ q[z] <= e["right"][z]
    BY <1>3, PlacesAreNumbers
  <2> QED
    BY <2>1, <1>3 DEF Size
<1>7. PICK F : F = [z \in S |-> Deepen(z)]
  OBVIOUS
<1>8. PICK M : M = [z \in S |-> IF Still(z) THEN 0 ELSE L - Size(e, z.parent)]
  OBVIOUS
<1>9. F \in [S -> S]
  BY <1>5, <1>7
<1>10. Ending(S, F, M, N)
  <2>1. M \in [S -> 0..N]
    <3>1. ASSUME NEW z \in S PROVE (IF Still(z) THEN 0 ELSE L - Size(e, z.parent)) \in 0..N
      <4>1. CASE Still(z)
        BY <1>3, <4>1
      <4>2. CASE ~Still(z)
        <5>1. Size(e, z.parent) \in 0..(L - 1)
          BY <1>5, <1>6, <4>2
        <5> QED
          BY <1>3, <4>2, <5>1
      <4> QED
        BY <4>1, <4>2
    <3> QED
      BY <1>8, <3>1
  <2>2. ASSUME NEW z \in S, F[z] # z PROVE M[F[z]] < M[z]
    <3>1. PICK v : v = Deepen(z)
      OBVIOUS
    <3>2. ~Still(z) /\ z.parent \in H /\ v \in S /\ (Still(v) \/ (v.parent \in H /\ Size(e, v.parent) > Size(e, z.parent)))
      BY <1>5, <1>7, <2>2, <3>1
    <3>3. Size(e, z.parent) \in 0..(L - 1) /\ (v.parent \in H => Size(e, v.parent) \in 0..(L - 1))
      BY <1>6, <3>2
    <3>4. M[z] = L - Size(e, z.parent) /\ M[v] = IF Still(v) THEN 0 ELSE L - Size(e, v.parent)
      BY <1>8, <3>2
    <3>5. M[v] < M[z]
      BY <1>3, <3>2, <3>3, <3>4
    <3> QED
      BY <1>7, <3>1, <3>5
  <2> QED
    BY <1>9, <2>1, <2>2 DEF Ending
<1>11. PICK f : f = CHOOSE w : w = [k \in 0..N |-> IF k = 0 THEN y ELSE Deepen(w[k - 1])]
  OBVIOUS
<1>12. f = [k \in 0..N |-> IF k = 0 THEN y ELSE Deepen(f[k - 1])]
  <2>1. PICK g : Rounds(S, F, y, N, g)
    BY <1>3, <1>4, <1>9, RoundsExist
  <2>2. g \in [0..N -> S] /\ g = [k \in 0..N |-> IF k = 0 THEN y ELSE F[g[k - 1]]]
    BY <2>1, Zenon DEF Rounds
  <2>3. ASSUME NEW k \in 0..N, k # 0 PROVE F[g[k - 1]] = Deepen(g[k - 1])
    <3>1. k - 1 \in 0..N
      BY <1>3, <2>3
    <3> QED
      BY <1>7, <2>2, <3>1
  <2>4. \A k \in 0..N : g[k] = IF k = 0 THEN y ELSE Deepen(g[k - 1])
    BY <2>2, <2>3, Zenon
  <2>5. g = [k \in 0..N |-> IF k = 0 THEN y ELSE Deepen(g[k - 1])]
    BY <2>2, <2>4, Zenon
  <2> QED
    BY <1>11, <2>5, Zenon
<1>13. Repeated(Deepen, y) = f[N]
  BY <1>11, Zenon DEF Repeated
<1>14. f[N] \in S /\ F[f[N]] = f[N]
  <2>1. f[0] = y
    BY <1>3, <1>12
  <2>2. ASSUME NEW k \in 1..N, f[k - 1] \in S PROVE f[k] = F[f[k - 1]]
    <3>1. k \in 0..N /\ k # 0
      BY <1>3
    <3> QED
      BY <1>7, <1>12, <2>2, <3>1
  <2> QED
    BY <1>3, <1>4, <1>10, <2>1, <2>2, RoundsEnd
<1>15. r = f[N]
  BY <1>1, <1>13
<1>16. r \in S /\ Deepen(r) = r
  BY <1>7, <1>14, <1>15
<1>17. Still(r)
  <2>1. ~Still(r) => r.parent \in H /\ Size(e, r.parent) > Size(e, r.parent)
    BY <1>5, <1>16
  <2>2. r.parent \in H => Size(e, r.parent) \in 0..(L - 1)
    BY <1>6
  <2> QED
    BY <2>1, <2>2
<1> QED
  BY <1>2, <1>16, <1>17

\* The node that the loop ends at becomes black: nothing is wrong any more.
LEMMA StillIsLevel ==
  ASSUME NEW t0, NEW H, NEW q, NEW e, NEW L, NEW r \in LoopStates(H), Lacking(t0, H, q, e, L, r), Still(r)
  PROVE  (\E f, b : Level(Black(r.tree, r.node), H, q, f, b, L)) /\ Kept(t0, Black(r.tree, r.node), H)
<1>1. PICK t, x, xp, u : t = r.tree /\ x = r.node /\ xp = r.parent /\ u = Black(r.tree, r.node)
  OBVIOUS
<1>2. t \in Trees /\ x \in H \cup {NULL} /\ Kept(t0, t, H)
  BY <1>1 DEF LoopStates, Lacking
<1>3. x \notin t.red => u = t
  <2>1. ASSUME x \notin t.red PROVE u = t
    <3>1. PICK c : c = t.red \ {x}
      OBVIOUS
    <3>2. c = t.red
      BY <2>1, <3>1
    <3>3. u = [t EXCEPT !.red = c]
      BY <1>1, <3>1 DEF Black
    <3>4. t = [child |-> t.child, parent |-> t.parent, red |-> t.red, mnSize |-> t.mnSize]
      BY <1>2 DEF Trees
    <3> QED
      BY <3>2, <3>3, <3>4
  <2> QED
    BY <2>1
<1>4. CASE \E f, b : Level(t, H, q, f, b, L) /\ x \notin t.red
  BY <1>1, <1>2, <1>3, <1>4
<1>5. CASE \E f, b, sx : Deficient(t, H, q, f, b, L, xp, sx, x) /\ ~r.done
  <2>1. PICK f, b, sx : Deficient(t, H, q, f, b, L, xp, sx, x)
    BY <1>5
  <2>2. /\ Placed(t, H, q, f, L) /\ Heights(t, H, b, xp, sx) /\ LackingAt(t, H, xp, sx, x)
        /\ NoRedRed(t, H, x) /\ (Root(t) \in t.red => x = Root(t))
    BY <2>1 DEF Deficient
  <2>3. H \subseteq Nodes /\ (IF H = {} THEN Root(t) = NULL ELSE Root(t) \in H)
    BY <2>2 DEF Placed
  <2>4. CASE x \in t.red
    <3>1. x \in H /\ x \in Spots
      <4>1. x # NULL
        BY <1>2, <2>4, SpotsAreNumbers DEF Trees
      <4> QED
        BY <1>2, <2>3, <4>1 DEF Spots
    <3>2. (\E c : Heights(u, H, c, mAnchor, "left")) /\ NoRedRed(u, H, NULL)
      BY ONLY <1>1, <2>2, <2>4, <3>1, BlackNodeAdded
    <3>3. SameLinks(t, u) /\ u.red = t.red \ {x}
      BY <1>1, <1>2, <3>1, Colours
    <3>4. Placed(u, H, q, f, L)
      BY <2>2, <3>3, PlacedBySameLinks
    <3>5. Root(u) \notin u.red
      BY <2>2, <3>3 DEF SameLinks, Root
    <3>6. Kept(t, u, H)
      BY <1>1, <1>2, <3>1, ColouringKeeps
    <3> QED
      BY <1>1, <1>2, <3>2, <3>4, <3>5, <3>6, KeptThrough DEF Level
  <2>5. CASE x \notin t.red
    <3>1. x = Root(t)
      BY <1>1, <1>5, <2>5 DEF Still
    <3>2. xp = mAnchor
      <4>1. ASSUME xp \in H, sx \in Sides, x = t.child[sx][xp] PROVE FALSE
        <5>1. x \in H /\ x # NULL
          BY <2>3, <3>1, <4>1, SpotsAreNumbers DEF Spots
        <5>2. Placed(t, H, q, f, L) /\ xp \in H /\ sx \in Sides /\ x \in H
          BY <2>2, <4>1, <5>1
        <5>3. t.child[sx][xp] # NULL => t.parent[t.child[sx][xp]] = xp
          BY ONLY <5>2, ChildIsHeld
        <5>4. x = Root(t) => t.parent[x] = mAnchor
          BY ONLY <5>2, ParentIsAbove
        <5>5. mAnchor \notin H
          BY <2>3, SpotsAreNumbers
        <5> QED
          BY <3>1, <4>1, <5>1, <5>3, <5>4, <5>5
      <4> QED
        BY <2>2, <4>1 DEF LackingAt
    <3>3. Heights(t, H, b, mAnchor, "left")
      <4>1. \A y \in H, sd \in Sides : Lack(mAnchor, "left", y, sd) = Lack(xp, sx, y, sd)
        BY <2>3, <3>2, SpotsAreNumbers DEF Lack
      <4> QED
        BY <2>2, <4>1 DEF Heights
    <3>4. NoRedRed(t, H, NULL)
      BY <2>2, <2>5 DEF NoRedRed, Fine
    <3>5. Root(t) \notin t.red
      BY <2>5, <3>1
    <3>6. Level(t, H, q, f, b, L)
      BY <2>2, <3>3, <3>4, <3>5 DEF Level
    <3> QED
      BY <1>1, <1>2, <1>3, <2>5, <3>6
  <2> QED
    BY <2>4, <2>5
<1> QED
  BY <1>1, <1>4, <1>5 DEF Lacking

(* Erasing.                                                                  *)
\* u is t where H is concerned.
AlikeIn(t, u, H) ==
  /\ u \in Trees /\ Root(u) = Root(t)
  /\ \A z \in H : /\ \A sd \in Sides : u.child[sd][z] = t.child[sd][z]
                  /\ u.parent[z] = t.parent[z] /\ (z \in u.red <=> z \in t.red)

LEMMA AlikeIsLevel ==
  ASSUME NEW t, NEW u, NEW H, AlikeIn(t, u, H), NEW q, NEW e, NEW b, NEW L, Level(t, H, q, e, b, L)
  PROVE  Level(u, H, q, e, b, L)
<1>1. /\ Placed(t, H, q, e, L) /\ Heights(t, H, b, mAnchor, "left")
      /\ NoRedRed(t, H, NULL) /\ Root(t) \notin t.red
  BY DEF Level
<1>2. /\ t \in Trees /\ H \subseteq Nodes /\ L \in Nat
      /\ q \in [H -> 1..L] /\ e \in [Sides -> [H -> 1..L]]
      /\ \A x \in H : Around(q, e, x)
      /\ \A x \in H, sd \in Sides : Arm(t, H, q, e, x, sd)
      /\ \A x \in H : Hangs(t, H, e, L, x)
      /\ (IF H = {} THEN Root(t) = NULL ELSE Root(t) \in H)
  BY <1>1 DEF Placed
<1>3. /\ u \in Trees /\ Root(u) = Root(t)
      /\ \A z \in H : /\ \A sd \in Sides : u.child[sd][z] = t.child[sd][z]
                      /\ u.parent[z] = t.parent[z] /\ (z \in u.red <=> z \in t.red)
  BY DEF AlikeIn
<1>4. \A x \in H, sd \in Sides : t.child[sd][x] \in H \cup {NULL}
  BY <1>1, ChildIsHeld
<1>5. NULL \notin t.red /\ NULL \notin u.red
  BY <1>2, <1>3, SpotsAreNumbers DEF Trees
<1>6. ASSUME NEW x \in H, NEW sd \in Sides PROVE Arm(u, H, q, e, x, sd)
  <2>1. Arm(t, H, q, e, x, sd) /\ u.child[sd][x] = t.child[sd][x]
    BY <1>2, <1>3
  <2>2. t.child[sd][x] \in H => u.parent[t.child[sd][x]] = t.parent[t.child[sd][x]]
    BY <1>3
  <2> QED
    BY ONLY <2>1, <2>2 DEF Arm
<1>7. ASSUME NEW x \in H PROVE Hangs(u, H, e, L, x)
  <2>1. Hangs(t, H, e, L, x) /\ u.parent[x] = t.parent[x] /\ Root(u) = Root(t)
    BY <1>2, <1>3
  <2>2. t.parent[x] \in H => \A sd \in Sides : u.child[sd][t.parent[x]] = t.child[sd][t.parent[x]]
    BY <1>3
  <2> QED
    BY ONLY <2>1, <2>2 DEF Hangs
<1>8. Placed(u, H, q, e, L)
  BY <1>2, <1>3, <1>6, <1>7 DEF Placed
<1>9. Heights(u, H, b, mAnchor, "left")
  <2>1. \A y \in H : Weight(u, y) = Weight(t, y)
    BY <1>3 DEF Weight
  <2>2. /\ b \in [H \cup {NULL} -> Nat] /\ b[NULL] = 0
        /\ \A y \in H, sd \in Sides : b[y] = b[t.child[sd][y]] + Weight(t, y) + Lack(mAnchor, "left", y, sd)
    BY <1>1 DEF Heights
  <2>3. ASSUME NEW y \in H, NEW sd \in Sides
        PROVE  b[y] = b[u.child[sd][y]] + Weight(u, y) + Lack(mAnchor, "left", y, sd)
    BY <1>3, <2>1, <2>2, Zenon
  <2> QED
    BY <2>2, <2>3 DEF Heights
<1>10. NoRedRed(u, H, NULL)
  <2>1. ASSUME NEW y \in H, NEW sd \in Sides PROVE Fine(u, y, u.child[sd][y], NULL)
    <3>1. Fine(t, y, t.child[sd][y], NULL)
      BY <1>1 DEF NoRedRed
    <3>2. PICK c : c = t.child[sd][y]
      OBVIOUS
    <3>3. c \in H \cup {NULL} /\ u.child[sd][y] = c /\ (y \in u.red <=> y \in t.red)
      BY <1>3, <1>4, <3>2
    <3>4. c \in u.red <=> c \in t.red
      BY <1>3, <1>5, <3>3
    <3> QED
      BY ONLY <3>1, <3>2, <3>3, <3>4 DEF Fine
  <2> QED
    BY <2>1 DEF NoRedRed
<1>11. Root(u) \notin u.red
  BY <1>1, <1>2, <1>3, <1>5
<1> QED
  BY <1>8, <1>9, <1>10, <1>11 DEF Level

\* What DoFreeNode does.
Freed(t, u, n) ==
  /\ u \in Trees /\ u.red = t.red \ {n} /\ u.mnSize = t.mnSize - 1
  /\ \A sd \in Sides, z \in Spots : u.child[sd][z] = IF z = n THEN NULL ELSE t.child[sd][z]
  /\ \A z \in Spots : u.parent[z] = IF z = n THEN NULL ELSE t.parent[z]

LEMMA FreeIs ==
  ASSUME NEW t \in Trees, NEW n \in Nodes
  PROVE  Freed(t, DoFreeNode(t, n), n)
<1>1. PICK u : u = DoFreeNode(t, n)
  OBVIOUS
<1>2. n \in Spots /\ NULL \in Links /\ Sides = {"left", "right"}
  BY DEF Spots, Links, Sides
<1>3. t.child \in [Sides -> [Spots -> Links]] /\ t.parent \in [Spots -> Links] /\ t.red \in SUBSET Spots
      /\ t.mnSize \in Int
  BY DEF Trees
<1>4. t = [child |-> t.child, parent |-> t.parent, red |-> t.red, mnSize |-> t.mnSize]
  BY DEF Trees
<1>5. PICK c, p : c = [[t.child EXCEPT !["left"][n] = NULL] EXCEPT !["right"][n] = NULL]
                  /\ p = [t.parent EXCEPT ![n] = NULL]
  OBVIOUS
<1>6. /\ c \in [Sides -> [Spots -> Links]] /\ p \in [Spots -> Links]
      /\ \A sd \in Sides, z \in Spots : c[sd][z] = IF z = n THEN NULL ELSE t.child[sd][z]
      /\ \A z \in Spots : p[z] = IF z = n THEN NULL ELSE t.parent[z]
  BY <1>2, <1>3, <1>5
<1>7. u = [child |-> c, parent |-> p, red |-> t.red \ {n}, mnSize |-> t.mnSize - 1]
  BY <1>1, <1>2, <1>3, <1>4, <1>5 DEF DoFreeNode
<1>8. u \in Trees /\ u.red = t.red \ {n} /\ u.mnSize = t.mnSize - 1 /\ u.child = c /\ u.parent = p
  BY <1>3, <1>6, <1>7 DEF Trees
<1> QED
  BY <1>1, <1>6, <1>8 DEF Freed

LEMMA FreedIsSound ==
  ASSUME NEW u, NEW w, NEW G, NEW n \in Nodes \ G, NEW l, NEW v, NEW f, NEW b, NEW M,
         Level(w, G, v, f, b, M), Kept(u, w, G), Listed(l, v, G, M), Ends(u, G, v, M), CleanBut(u, G, n)
  PROVE  Sound(DoFreeNode(w, n), G, l, M) /\ DoFreeNode(w, n).mnSize = u.mnSize - 1
<1>1. PICK d : d = DoFreeNode(w, n)
  OBVIOUS
<1>2. Placed(w, G, v, f, M)
  BY DEF Level
<1>3. w \in Trees /\ G \subseteq Nodes
  BY <1>2 DEF Placed
<1>4. Freed(w, d, n)
  BY <1>1, <1>3, FreeIs
<1>5. n # mAnchor /\ n # NULL /\ mAnchor \notin G /\ Nodes \subseteq Spots /\ mAnchor \in Spots
  BY <1>3, SpotsAreNumbers DEF Spots
<1>6. AlikeIn(w, d, G)
  BY <1>3, <1>4, <1>5 DEF Freed, AlikeIn, Root
<1>7. Level(d, G, v, f, b, M)
  BY <1>6, AlikeIsLevel
<1>8. /\ w.mnSize = u.mnSize
      /\ \A z \in Spots \ G :
           /\ \A sd \in Sides : w.child[sd][z] = u.child[sd][z]
           /\ z \in w.red <=> z \in u.red
           /\ z # mAnchor => w.parent[z] = u.parent[z]
  BY DEF Kept
<1>9. Ends(d, G, v, M)
  <2>1. \A sd \in Sides : d.child[sd][mAnchor] = u.child[sd][mAnchor]
    BY <1>4, <1>5, <1>8 DEF Freed
  <2>2. "left" \in Sides /\ "right" \in Sides
    BY DEF Sides
  <2> QED
    BY <2>1, <2>2 DEF Ends
<1>10. Clean(d, G)
  <2>1. mAnchor \in d.red
    BY <1>4, <1>5, <1>8 DEF Freed, CleanBut
  <2>2. ASSUME NEW z \in Nodes \ G PROVE Apart(d, z)
    <3>1. z \in Spots /\ z # mAnchor
      BY <1>5, SpotsAreNumbers
    <3>2. CASE z = n
      BY <1>4, <3>1, <3>2 DEF Freed, Apart
    <3>3. CASE z # n
      <4>1. Apart(u, z)
        BY <3>3 DEF CleanBut
      <4> QED
        BY <1>4, <1>8, <3>1, <3>3, <4>1 DEF Freed, Apart
    <3> QED
      BY <3>2, <3>3
  <2> QED
    BY <2>1, <2>2 DEF Clean
<1>11. Arranged(d, G, l, v, f, b, M)
  BY <1>7, <1>9, <1>10 DEF Level, Arranged
<1>12. d.mnSize = u.mnSize - 1
  BY <1>4, <1>8 DEF Freed
<1> QED
  BY <1>1, <1>11, <1>12 DEF Sound

\* After the loop, if it is gone through at all.
LEMMA TakenOutIsLevel ==
  ASSUME NEW t, NEW u, NEW G, G \subseteq Nodes, NEW l, NEW v, NEW f, NEW M \in Nat, NEW n, NEW y, NEW x, NEW xp,
         TakenOut(t, u, G, l, v, f, M, n, y, x, xp),
         NEW r, r = Repeated(Deepen, [tree |-> u, node |-> x, done |-> FALSE, parent |-> xp]),
         NEW w, w = IF y \in t.red THEN u ELSE Black(r.tree, r.node)
  PROVE  (\E h, b : Level(w, G, v, h, b, M)) /\ Kept(u, w, G)
<1>1. /\ Listed(l, v, G, M) /\ Ends(u, G, v, M) /\ CleanBut(u, G, n) /\ u.mnSize = t.mnSize
      /\ IF y \in t.red THEN \E c : Level(u, G, v, f, c, M)
         ELSE \E c, sx : Deficient(u, G, v, f, c, M, xp, sx, x)
  BY DEF TakenOut
<1>2. M <= N
  BY <1>1, NoMoreThanNodes
<1>3. CASE y \in t.red
  BY <1>1, <1>3 DEF Kept
<1>4. CASE y \notin t.red
  <2>1. PICK c, sx : Deficient(u, G, v, f, c, M, xp, sx, x)
    BY <1>1, <1>4
  <2>2. r \in LoopStates(G) /\ Lacking(u, G, v, f, M, r) /\ Still(r)
    BY ONLY <1>2, <2>1, r = Repeated(Deepen, [tree |-> u, node |-> x, done |-> FALSE, parent |-> xp]), DeepenLoop
  <2>3. (\E h, b : Level(Black(r.tree, r.node), G, v, h, b, M)) /\ Kept(u, Black(r.tree, r.node), G)
    BY ONLY <2>2, StillIsLevel, Zenon
  <2> QED
    BY <1>4, <2>3
<1> QED
  BY <1>3, <1>4

\* The node of which its parent will be rid, and what is below it.
LEMMA SplicedIs ==
  ASSUME NEW t, NEW H, NEW r, NEW q, NEW e, NEW b, NEW L, Arranged(t, H, r, q, e, b, L), NEW n \in H,
         NEW y, y = IF NULL \in {t.child["left"][n], t.child["right"][n]} THEN n
                    ELSE Outermost(t, "left", t.child["right"][n]),
         NEW x, x = IF t.child["left"][y] = NULL THEN t.child["right"][y] ELSE t.child["left"][y],
         NEW xp, xp = IF t.parent[y] = n THEN y ELSE t.parent[y],
         NEW u, u = IF y = n THEN Unlink(t, n, x) ELSE Supplant(t, n, y, x),
         NEW z, z = IF y = n THEN t.parent[n] ELSE xp
  PROVE  \E v, f : TakenOut(t, u, H \ {n}, Removed(r, L, q[n]), v, f, L - 1, n, y, x, z)
<1>1. /\ Placed(t, H, q, e, L) /\ Listed(r, q, H, L) /\ Clean(t, H)
  BY DEF Arranged
<1>2. Sides = {"left", "right"} /\ Other("left") = "right" /\ Other("right") = "left"
  BY DEF Sides, Other
<1>3. \A sd \in Sides : t.child[sd][n] \in H \cup {NULL}
  BY <1>1, ChildIsHeld, Zenon
<1>4. CASE NULL \in {t.child["left"][n], t.child["right"][n]}
  <2>1. y = n
    BY <1>4
  <2>2. OnlyChild(t, H, n, x)
    <3>1. CASE t.child["left"][n] = NULL
      BY <1>2, <1>3, <2>1, <3>1 DEF OnlyChild
    <3>2. CASE t.child["left"][n] # NULL
      <4>1. t.child["right"][n] = NULL /\ x = t.child["left"][n]
        BY <1>4, <2>1, <3>2, Zenon
      <4> QED
        BY <1>2, <1>3, <4>1 DEF OnlyChild
    <3> QED
      BY <3>1, <3>2
  <2>3. \E v, f : TakenOut(t, Unlink(t, n, x), H \ {n}, Removed(r, L, q[n]), v, f, L - 1, n, n, x, t.parent[n])
    BY <2>2, UnlinkTakesOut, Zenon
  <2> QED
    BY <2>1, <2>3, Zenon
<1>5. CASE NULL \notin {t.child["left"][n], t.child["right"][n]}
  <2>1. t.child["left"][n] # NULL /\ t.child["right"][n] # NULL
    BY <1>5
  <2>2. y = Outermost(t, "left", t.child["right"][n])
    BY <1>5
  <2>3. IsSuccessor(t, H, q, n, y)
    BY ONLY <1>1, n \in H, <2>1, <2>2, SuccessorIs, Zenon
  <2>4. y # n /\ t.child["left"][y] = NULL
    BY <2>3 DEF IsSuccessor
  <2>5. x = t.child["right"][y] /\ u = Supplant(t, n, y, x)
    BY <2>4
  <2>6. \E v, f : TakenOut(t, Supplant(t, n, y, t.child["right"][y]), H \ {n}, Removed(r, L, q[n]), v, f, L - 1,
                           n, y, t.child["right"][y], IF t.parent[y] = n THEN y ELSE t.parent[y])
    BY ONLY Arranged(t, H, r, q, e, b, L), <2>3, SupplantTakesOut, Zenon
  <2> QED
    BY <2>4, <2>5, <2>6, Zenon
<1> QED
  BY <1>4, <1>5

LEMMA EraseItemIs ==
  ASSUME NEW t, NEW H, NEW r, NEW L, Sound(t, H, r, L), NEW i \in 1..L
  PROVE  /\ Sound(EraseItem(t, r[i]), H \ {r[i]}, Removed(r, L, i), L - 1)
         /\ EraseItem(t, r[i]).mnSize = t.mnSize - 1
<1>1. PICK q, e, b : Arranged(t, H, r, q, e, b, L)
  BY DEF Sound
<1>2. PICK n : n = r[i]
  OBVIOUS
<1>3. Placed(t, H, q, e, L) /\ Listed(r, q, H, L)
  BY <1>1 DEF Arranged
<1>4. n \in H /\ q[n] = i
  BY <1>2, <1>3, ListedNumbers
<1>5. H \subseteq Nodes /\ L \in Nat
  BY <1>3 DEF Placed
<1>6. PICK y : y = IF NULL \in {t.child["left"][n], t.child["right"][n]} THEN n
                   ELSE Outermost(t, "left", t.child["right"][n])
  OBVIOUS
<1>7. PICK x : x = IF t.child["left"][y] = NULL THEN t.child["right"][y] ELSE t.child["left"][y]
  OBVIOUS
<1>8. PICK xp : xp = IF t.parent[y] = n THEN y ELSE t.parent[y]
  OBVIOUS
<1>9. PICK u : u = IF y = n THEN Unlink(t, n, x) ELSE Supplant(t, n, y, x)
  OBVIOUS
<1>10. PICK z : z = IF y = n THEN t.parent[n] ELSE xp
  OBVIOUS
<1>11. PICK o : o = Repeated(Deepen, [tree |-> u, node |-> x, done |-> FALSE, parent |-> z])
  OBVIOUS
<1>12. PICK w : w = IF y \in t.red THEN u ELSE Black(o.tree, o.node)
  OBVIOUS
<1>13. RBTreeErase(t, n) = w
  BY <1>6, <1>7, <1>8, <1>9, <1>10, <1>11, <1>12, Zenon DEF RBTreeErase, IsRed
<1>14. PICK v, f : TakenOut(t, u, H \ {n}, Removed(r, L, i), v, f, L - 1, n, y, x, z)
  <2>1. Arranged(t, H, r, q, e, b, L) /\ n \in H
    BY <1>1, <1>4
  <2>2. \E v, f : TakenOut(t, u, H \ {n}, Removed(r, L, q[n]), v, f, L - 1, n, y, x, z)
    BY ONLY <2>1, <1>6, <1>7, <1>8, <1>9, <1>10, SplicedIs
  <2> QED
    BY <1>4, <2>2
<1>15. L - 1 \in Nat /\ H \ {n} \subseteq Nodes /\ n \in Nodes \ (H \ {n})
  BY <1>4, <1>5
<1>16. (\E h, c : Level(w, H \ {n}, v, h, c, L - 1)) /\ Kept(u, w, H \ {n})
  BY ONLY <1>11, <1>12, <1>14, <1>15, TakenOutIsLevel
<1>17. PICK h, c : Level(w, H \ {n}, v, h, c, L - 1)
  BY <1>16
<1>18. /\ Listed(Removed(r, L, i), v, H \ {n}, L - 1) /\ Ends(u, H \ {n}, v, L - 1)
       /\ CleanBut(u, H \ {n}, n) /\ u.mnSize = t.mnSize
  BY <1>14 DEF TakenOut
<1>19. Sound(DoFreeNode(w, n), H \ {n}, Removed(r, L, i), L - 1) /\ DoFreeNode(w, n).mnSize = u.mnSize - 1
  BY ONLY <1>15, <1>16, <1>17, <1>18, FreedIsSound
<1>20. EraseItem(t, n) = DoFreeNode(w, n)
  BY <1>13 DEF EraseItem
<1> QED
  BY <1>2, <1>18, <1>19, <1>20

(* Runs of items.                                                            *)
\* The i-th item, or the end.
At(r, L, i) == IF i \in 1..L THEN r[i] ELSE mAnchor

\* Without the m items from the i-th on.
CutRun(r, L, i, m) == [k \in 1..(L - m) |-> IF k < i THEN r[k] ELSE r[k + m]]

LEMMA ArrangedIsWalkable ==
  ASSUME NEW t, NEW H, NEW r, NEW q, NEW e, NEW b, NEW L, Arranged(t, H, r, q, e, b, L)
  PROVE  Walkable(t, H, r, q, e, L) /\ L \in Nat /\ H \subseteq Nodes /\ t \in Trees /\ r \in [1..L -> H]
<1>1. Walkable(t, H, r, q, e, L)
  BY DEF Arranged, Walkable
<1>2. Placed(t, H, q, e, L) /\ Listed(r, q, H, L)
  BY <1>1 DEF Walkable
<1>3. L \in Nat /\ H \subseteq Nodes /\ t \in Trees
  BY <1>2 DEF Placed
<1>4. r \in [1..L -> H]
  BY <1>2 DEF Listed
<1> QED
  BY <1>1, <1>3, <1>4

\* After m rounds of erase(first, last).
Erased(r, L, i, m, z) ==
  /\ \E G : Sound(z.tree, G, CutRun(r, L, i, m), L - m)
  /\ z.tree.mnSize = L - m /\ z.first = At(r, L, i + m)

EraseRound(last, z) ==
  IF z.first = last THEN z
  ELSE [tree |-> EraseItem(z.tree, z.first), first |-> RBTreeIncrement(z.tree, z.first)]

LEMMA RunCutShorter ==
  ASSUME NEW r, NEW L \in Nat, NEW i \in 1..L, NEW m \in Nat, i + m <= L
  PROVE  /\ CutRun(r, L, i, m)[i] = r[i + m]
         /\ Removed(CutRun(r, L, i, m), L - m, i) = CutRun(r, L, i, m + 1)
         /\ (IF i < L - m THEN CutRun(r, L, i, m)[i + 1] ELSE mAnchor) = At(r, L, i + (m + 1))
<1>1. PICK c : c = CutRun(r, L, i, m)
  OBVIOUS
<1>2. /\ DOMAIN c = 1..(L - m)
      /\ \A k \in 1..(L - m) : c[k] = IF k < i THEN r[k] ELSE r[k + m]
  BY <1>1 DEF CutRun
<1>3. (L - m) - 1 = L - (m + 1)
  OBVIOUS
<1>4. c[i] = r[i + m]
  BY <1>2
<1>5. ASSUME NEW k \in 1..(L - (m + 1))
      PROVE  (IF k < i THEN c[k] ELSE c[k + 1]) = IF k < i THEN r[k] ELSE r[k + (m + 1)]
  <2>1. k \in 1..(L - m) /\ k + 1 \in 1..(L - m) /\ (k + 1) + m = k + (m + 1) /\ (k >= i => ~(k + 1 < i))
    OBVIOUS
  <2>2. CASE k < i
    BY <1>2, <2>1, <2>2
  <2>3. CASE ~(k < i)
    BY <1>2, <2>1, <2>3
  <2> QED
    BY <2>2, <2>3
<1>6. Removed(c, L - m, i) = CutRun(r, L, i, m + 1)
  BY <1>3, <1>5 DEF Removed, CutRun
<1>7. (IF i < L - m THEN c[i + 1] ELSE mAnchor) = At(r, L, i + (m + 1))
  <2>1. CASE i < L - m
    <3>1. i + 1 \in 1..(L - m) /\ ~(i + 1 < i) /\ (i + 1) + m = i + (m + 1) /\ i + (m + 1) \in 1..L
      BY <2>1
    <3> QED
      BY <1>2, <2>1, <3>1 DEF At
  <2>2. CASE ~(i < L - m)
    <3>1. i + (m + 1) \notin 1..L
      BY <2>2
    <3> QED
      BY <2>2, <3>1 DEF At
  <2> QED
    BY <2>1, <2>2
<1> QED
  BY <1>1, <1>4, <1>6, <1>7

LEMMA EraseRoundIs ==
  ASSUME NEW r, NEW L \in Nat, NEW i \in 1..L, NEW m \in Nat, i + m <= L, NEW z, Erased(r, L, i, m, z),
         NEW v, v = [tree |-> EraseItem(z.tree, z.first), first |-> RBTreeIncrement(z.tree, z.first)]
  PROVE  Erased(r, L, i, m + 1, v) /\ v \in [tree : Trees, first : Spots]
<1>1. PICK t, c, M : t = z.tree /\ c = CutRun(r, L, i, m) /\ M = L - m
  OBVIOUS
<1>2. PICK G : Sound(t, G, c, M)
  BY <1>1 DEF Erased
<1>3. PICK q, e, b : Arranged(t, G, c, q, e, b, M)
  BY <1>2 DEF Sound
<1>4. Walkable(t, G, c, q, e, M) /\ G \subseteq Nodes /\ c \in [1..M -> G]
  BY <1>3, ArrangedIsWalkable
<1>5. Listed(c, q, G, M)
  BY <1>4 DEF Walkable
<1>6. i \in 1..M /\ M \in Nat /\ M - 1 = L - (m + 1) /\ M = L - m
  BY <1>1
<1>7. i + m \in 1..L
  OBVIOUS
<1>8. t.mnSize = M /\ z.first = r[i + m]
  BY <1>1, <1>7 DEF Erased, At
<1>9. c[i] \in G /\ q[c[i]] = i
  BY <1>5, <1>6, ListedNumbers
<1>10. z.first = c[i]
  BY <1>1, <1>8, RunCutShorter
<1>11. RBTreeIncrement(t, c[i]) = At(r, L, i + (m + 1))
  <2>1. RBTreeIncrement(t, c[i]) = IF q[c[i]] < M THEN c[q[c[i]] + 1] ELSE mAnchor
    BY <1>4, <1>9, IncrementIs
  <2>2. RBTreeIncrement(t, c[i]) = IF i < M THEN c[i + 1] ELSE mAnchor
    BY <1>9, <2>1
  <2>3. (IF i < M THEN c[i + 1] ELSE mAnchor) = At(r, L, i + (m + 1))
    BY <1>1, RunCutShorter
  <2> QED
    BY <2>2, <2>3
<1>12. Sound(EraseItem(t, c[i]), G \ {c[i]}, Removed(c, M, i), M - 1) /\ EraseItem(t, c[i]).mnSize = t.mnSize - 1
  BY ONLY <1>2, <1>6, EraseItemIs
<1>13. Removed(c, M, i) = CutRun(r, L, i, m + 1) /\ M - 1 = L - (m + 1)
  <2>1. Removed(CutRun(r, L, i, m), L - m, i) = CutRun(r, L, i, m + 1)
    BY RunCutShorter
  <2> QED
    BY <1>1, <1>6, <2>1
<1>14. v = [tree |-> EraseItem(t, c[i]), first |-> RBTreeIncrement(t, c[i])]
  BY <1>1, <1>10
<1>15. v.tree = EraseItem(t, c[i]) /\ v.first = RBTreeIncrement(t, c[i])
  BY <1>14
<1>16. Erased(r, L, i, m + 1, v)
  BY <1>8, <1>11, <1>12, <1>13, <1>15 DEF Erased
<1>17. EraseItem(t, c[i]) \in Trees
  <2>1. PICK f, g, h : Arranged(EraseItem(t, c[i]), G \ {c[i]}, Removed(c, M, i), f, g, h, M - 1)
    BY <1>12 DEF Sound
  <2> QED
    BY <2>1, ArrangedIsWalkable
<1>18. RBTreeIncrement(t, c[i]) \in Spots
  <2>1. CASE i < M
    <3>1. i + 1 \in 1..M
      BY ONLY <1>6, <2>1, i \in 1..L
    <3>2. c[i + 1] \in G
      BY <1>4, <3>1
    <3>3. c[i + 1] = At(r, L, i + (m + 1))
      BY <1>1, <2>1, RunCutShorter
    <3> QED
      BY <1>4, <1>11, <3>2, <3>3 DEF Spots
  <2>2. CASE ~(i < M)
    <3>1. i + (m + 1) \notin 1..L
      BY <1>1, <2>2
    <3> QED
      BY <1>11, <3>1 DEF At, Spots
  <2> QED
    BY <2>1, <2>2
<1> QED
  BY <1>14, <1>16, <1>17, <1>18

LEMMA EmptyIsSound ==
  /\ \A r : r \in [1..0 -> {}] => Sound(Empty, {}, r, 0)
  /\ Empty.mnSize = 0 /\ Empty \in Trees
<1>1. Sides = {"left", "right"} /\ mAnchor \in Spots /\ NULL \in Links /\ mAnchor \in Links /\ Nodes \subseteq Spots
  BY DEF Sides, Spots, Links
<1>2. PICK c, p : /\ c = [s \in Sides |-> [n \in Nodes \cup {mAnchor} |-> IF n = mAnchor THEN n ELSE NULL]]
                  /\ p = [n \in Nodes \cup {mAnchor} |-> NULL]
  BY Zenon
<1>3. c \in [Sides -> [Spots -> Links]] /\ p \in [Spots -> Links]
  BY <1>1, <1>2 DEF Spots
<1>4. Empty = [child |-> c, parent |-> p, red |-> {mAnchor}, mnSize |-> 0]
  BY <1>2 DEF Empty
<1>5. PICK t : t = Empty
  OBVIOUS
<1>6. t.child = c /\ t.parent = p /\ t.red = {mAnchor} /\ t.mnSize = 0
  BY <1>4, <1>5
<1>7. t \in Trees
  BY <1>1, <1>3, <1>4, <1>5 DEF Trees
<1>8. Root(t) = NULL /\ Root(t) \notin t.red
  BY <1>2, <1>6, SpotsAreNumbers DEF Root, Spots
<1>9. ASSUME NEW r \in [1..0 -> {}] PROVE Sound(t, {}, r, 0)
  <2>1. PICK q, e, b : q = [z \in {} |-> 1] /\ e = [sd \in Sides |-> [z \in {} |-> 1]] /\ b = [z \in {NULL} |-> 0]
    OBVIOUS
  <2>2. q \in [{} -> 1..0] /\ e \in [Sides -> [{} -> 1..0]] /\ b \in [{} \cup {NULL} -> Nat] /\ b[NULL] = 0
    BY <2>1
  <2>3. Placed(t, {}, q, e, 0)
    BY <1>7, <1>8, <2>2 DEF Placed
  <2>4. Listed(r, q, {}, 0)
    BY <2>2 DEF Listed
  <2>5. Ends(t, {}, q, 0)
    BY <1>1, <1>2, <1>6 DEF Ends
  <2>6. Clean(t, {})
    BY <1>1, <1>2, <1>6, SpotsAreNumbers DEF Clean, Apart
  <2>7. Heights(t, {}, b, mAnchor, "left")
    BY <2>2 DEF Heights
  <2>8. NoRedRed(t, {}, NULL)
    BY DEF NoRedRed
  <2> QED
    BY <1>8, <2>3, <2>4, <2>5, <2>6, <2>7, <2>8 DEF Arranged, Sound
<1> QED
  BY <1>5, <1>6, <1>7, <1>9

\* The positions are different.
LEMMA DifferentAt ==
  ASSUME NEW t, NEW H, NEW r, NEW L, Sound(t, H, r, L), NEW i \in 1..(L + 1), NEW j \in 1..(L + 1),
         At(r, L, i) = At(r, L, j)
  PROVE  i = j
<1>1. PICK q, e, b : Arranged(t, H, r, q, e, b, L)
  BY DEF Sound
<1>2. Listed(r, q, H, L) /\ L \in Nat /\ H \subseteq Nodes
  BY <1>1, ArrangedIsWalkable DEF Walkable
<1>3. \A k \in 1..L : r[k] \in H /\ q[r[k]] = k
  BY <1>2, ListedNumbers
<1>4. \A k \in 1..L : r[k] # mAnchor
  BY <1>2, <1>3, SpotsAreNumbers
<1>5. (i \in 1..L \/ i = L + 1) /\ (j \in 1..L \/ j = L + 1) /\ L + 1 \notin 1..L
  BY <1>2
<1> QED
  BY <1>3, <1>4, <1>5 DEF At

\* The loop of erase(first, last).
EraseRounds(t, first, last) ==
  LET f[k \in 0..N] == IF k = 0 THEN [tree |-> t, first |-> first] ELSE EraseRound(last, f[k - 1])
  IN f

LEMMA EraseRunUnfolds ==
  ASSUME NEW t, NEW first, NEW last
  PROVE  EraseRun(t, first, last) =
           IF first = t.child["left"][mAnchor] /\ last = mAnchor THEN Empty
           ELSE EraseRounds(t, first, last)[N].tree
  BY Zenon DEF EraseRun, Repeated, EraseRounds, EraseRound

LEMMA EraseLoop ==
  ASSUME NEW t, NEW H, NEW r, NEW L, Sound(t, H, r, L), t.mnSize = L,
         NEW i \in 1..(L + 1), NEW j \in i..(L + 1),
         NEW first, first = At(r, L, i), NEW last, last = At(r, L, j),
         NEW f, f = EraseRounds(t, first, last)
  PROVE  Erased(r, L, i, j - i, f[N])
<1>1. PICK y : y = [tree |-> t, first |-> first]
  OBVIOUS
<1>2. PICK S : S = {z \in [tree : Trees, first : Spots] : \E m \in 0..(j - i) : Erased(r, L, i, m, z)}
  OBVIOUS
<1>3. PICK q, e, b : Arranged(t, H, r, q, e, b, L)
  BY DEF Sound
<1>4. /\ L \in Nat /\ H \subseteq Nodes /\ t \in Trees /\ r \in [1..L -> H] /\ N \in Nat
      /\ Listed(r, q, H, L)
  BY <1>3, ArrangedIsWalkable, RedBlackTreeAssumption DEF Walkable
<1>5. j - i \in 0..N
  <2>1. L <= N
    BY <1>4, NoMoreThanNodes
  <2> QED
    BY <1>4, <2>1
<1>6. y \in S
  <2>1. CutRun(r, L, i, 0) = r
    BY <1>4 DEF CutRun
  <2>2. Erased(r, L, i, 0, y)
    <3>1. L - 0 = L /\ i + 0 = i
      BY <1>4
    <3>2. y.tree = t /\ y.first = At(r, L, i)
      BY <1>1
    <3> QED
      BY <2>1, <3>1, <3>2 DEF Erased
  <2>3. At(r, L, i) \in Spots
    BY <1>4 DEF At, Spots
  <2> QED
    BY <1>1, <1>2, <1>4, <1>5, <2>2, <2>3
<1>7. ASSUME NEW z \in S
      PROVE  \E m \in 0..(j - i) :
               /\ Erased(r, L, i, m, z) /\ z.tree.mnSize = L - m
               /\ \/ m = j - i /\ EraseRound(last, z) = z
                  \/ /\ m < j - i /\ EraseRound(last, z) \in S
                     /\ EraseRound(last, z).tree.mnSize = L - (m + 1)
  <2>1. PICK m \in 0..(j - i) : Erased(r, L, i, m, z)
    BY <1>2
  <2>2. z.tree.mnSize = L - m /\ z.first = At(r, L, i + m)
    BY <2>1 DEF Erased
  <2>3. CASE m = j - i
    <3>1. i + m = j
      BY <1>4, <2>3
    <3>2. z.first = last
      BY <2>2, <3>1
    <3> QED
      BY <2>1, <2>2, <2>3, <3>2 DEF EraseRound
  <2>4. CASE m # j - i
    <3>1. m \in Nat /\ m + 1 \in 0..(j - i) /\ m < j - i /\ i + m <= L /\ i \in 1..L /\ i + m \in 1..(L + 1)
          /\ j \in 1..(L + 1) /\ i + m # j
      BY <1>4, <2>4
    <3>2. z.first # last
      BY <2>2, <3>1, DifferentAt
    <3>3. PICK v : v = [tree |-> EraseItem(z.tree, z.first), first |-> RBTreeIncrement(z.tree, z.first)]
      OBVIOUS
    <3>4. EraseRound(last, z) = v
      BY <3>2, <3>3 DEF EraseRound
    <3>5. Erased(r, L, i, m + 1, v) /\ v \in [tree : Trees, first : Spots]
      BY ONLY <1>4, <2>1, <3>1, <3>3, EraseRoundIs
    <3>6. v.tree.mnSize = L - (m + 1)
      BY <3>5 DEF Erased
    <3>7. v \in S
      BY <1>2, <3>1, <3>5
    <3> QED
      BY <2>1, <2>2, <3>1, <3>4, <3>6, <3>7
  <2> QED
    BY <2>3, <2>4
<1>8. PICK F : F = [z \in S |-> EraseRound(last, z)]
  OBVIOUS
<1>9. PICK M : M = [z \in S |-> z.tree.mnSize - (L - (j - i))]
  OBVIOUS
<1>10. F \in [S -> S]
  BY <1>7, <1>8
<1>11. Ending(S, F, M, N)
  <2>1. M \in [S -> 0..N]
    <3>1. ASSUME NEW z \in S PROVE z.tree.mnSize - (L - (j - i)) \in 0..N
      <4>1. PICK m \in 0..(j - i) : z.tree.mnSize = L - m
        BY <1>7
      <4>2. (L - m) - (L - (j - i)) \in 0..N
        BY ONLY <1>4, <1>5, m \in 0..(j - i), i \in 1..(L + 1), j \in i..(L + 1)
      <4> QED
        BY <4>1, <4>2
    <3> QED
      BY <1>9, <3>1
  <2>2. ASSUME NEW z \in S, F[z] # z PROVE M[F[z]] < M[z]
    <3>1. PICK m \in 0..(j - i) : /\ z.tree.mnSize = L - m
                                  /\ EraseRound(last, z) \in S
                                  /\ EraseRound(last, z).tree.mnSize = L - (m + 1)
      BY <1>7, <1>8, <2>2
    <3>2. PICK v : v = F[z]
      OBVIOUS
    <3>3. v \in S /\ v.tree.mnSize = L - (m + 1)
      BY <1>8, <3>1, <3>2
    <3>4. M[v] = (L - (m + 1)) - (L - (j - i)) /\ M[z] = (L - m) - (L - (j - i))
      BY <1>9, <3>1, <3>3
    <3>5. M[v] < M[z]
      BY ONLY <1>4, <3>4, m \in 0..(j - i), i \in 1..(L + 1), j \in i..(L + 1)
    <3> QED
      BY <3>2, <3>5
  <2> QED
    BY <1>10, <2>1, <2>2 DEF Ending
<1>12. f = [k \in 0..N |-> IF k = 0 THEN y ELSE EraseRound(last, f[k - 1])]
  <2>1. PICK g : Rounds(S, F, y, N, g)
    BY <1>4, <1>6, <1>10, RoundsExist
  <2>2. g \in [0..N -> S] /\ g = [k \in 0..N |-> IF k = 0 THEN y ELSE F[g[k - 1]]]
    BY <2>1, Zenon DEF Rounds
  <2>3. ASSUME NEW k \in 0..N, k # 0 PROVE F[g[k - 1]] = EraseRound(last, g[k - 1])
    <3>1. k - 1 \in 0..N
      BY <1>4, <2>3
    <3> QED
      BY <1>8, <2>2, <3>1
  <2>4. \A k \in 0..N : g[k] = IF k = 0 THEN [tree |-> t, first |-> first] ELSE EraseRound(last, g[k - 1])
    BY <1>1, <2>2, <2>3, Zenon
  <2>5. g = [k \in 0..N |-> IF k = 0 THEN [tree |-> t, first |-> first] ELSE EraseRound(last, g[k - 1])]
    BY <2>2, <2>4, Zenon
  <2>6. f = [k \in 0..N |-> IF k = 0 THEN [tree |-> t, first |-> first] ELSE EraseRound(last, f[k - 1])]
    BY ONLY <2>5, f = EraseRounds(t, first, last), Zenon DEF EraseRounds
  <2> QED
    BY ONLY <1>1, <2>6, Zenon
<1>13. f[N] \in S /\ F[f[N]] = f[N]
  <2>1. f[0] = y
    BY ONLY <1>4, <1>12
  <2>2. ASSUME NEW k \in 1..N, f[k - 1] \in S PROVE f[k] = F[f[k - 1]]
    <3>1. k \in 0..N /\ k # 0
      BY <1>4
    <3> QED
      BY ONLY <1>8, <1>12, <2>2, <3>1
  <2> QED
    BY ONLY <1>4, <1>6, <1>11, <2>1, <2>2, RoundsEnd, SMTT(60)
<1>14. PICK z : z = f[N]
  OBVIOUS
<1>15. z \in S /\ EraseRound(last, z) = z
  BY <1>8, <1>13, <1>14
<1>16. PICK m \in 0..(j - i) :
         /\ Erased(r, L, i, m, z) /\ z.tree.mnSize = L - m
         /\ (m = j - i \/ z.tree.mnSize = L - (m + 1))
  BY <1>7, <1>15
<1>17. m = j - i
  <2>1. L - m # L - (m + 1)
    BY <1>4
  <2> QED
    BY <1>16, <2>1
<1> QED
  BY <1>14, <1>16, <1>17

\* u holds the items r without the m from the i-th on.
WithoutRun(u, r, L, i, m) == (\E G : Sound(u, G, CutRun(r, L, i, m), L - m)) /\ u.mnSize = L - m

LEMMA EraseRunIs ==
  ASSUME NEW t, NEW H, NEW r, NEW L, Sound(t, H, r, L), t.mnSize = L,
         NEW i \in 1..(L + 1), NEW j \in i..(L + 1),
         NEW first, first = At(r, L, i), NEW last, last = At(r, L, j), NEW u, u = EraseRun(t, first, last)
  PROVE  WithoutRun(u, r, L, i, j - i)
<1>1. first = At(r, L, i) /\ last = At(r, L, j)
  OBVIOUS
<1>2. PICK f : f = EraseRounds(t, first, last)
  OBVIOUS
<1>3. EraseRun(t, first, last) =
        IF first = t.child["left"][mAnchor] /\ last = mAnchor THEN Empty ELSE f[N].tree
  BY ONLY <1>2, EraseRunUnfolds
<1>4. PICK q, e, b : Arranged(t, H, r, q, e, b, L)
  BY DEF Sound
<1>5. Walkable(t, H, r, q, e, L) /\ L \in Nat /\ H \subseteq Nodes /\ r \in [1..L -> H]
  BY <1>4, ArrangedIsWalkable
<1>6. CASE first = t.child["left"][mAnchor] /\ last = mAnchor
  <2>1. j = L + 1
    <3>1. L + 1 \in 1..(L + 1) /\ At(r, L, L + 1) = mAnchor /\ j \in 1..(L + 1)
      BY <1>5 DEF At
    <3> QED
      <4>1. At(r, L, j) = At(r, L, L + 1)
        BY <1>1, <1>6, <3>1
      <4> QED
        BY ONLY Sound(t, H, r, L), <3>1, <4>1, DifferentAt
  <2>2. i = 1
    <3>1. t.child["left"][mAnchor] = At(r, L, 1)
      <4>1. Ends(t, H, q, L) /\ Listed(r, q, H, L)
        BY <1>5 DEF Walkable
      <4>2. CASE H = {}
        <5>1. L = 0
          BY <1>5, <4>2
        <5> QED
          BY <4>1, <4>2, <5>1 DEF Ends, At, Sides
      <4>3. CASE H # {}
        <5>1. t.child["left"][mAnchor] \in H /\ q[t.child["left"][mAnchor]] = 1
          BY <4>1, <4>3 DEF Ends
        <5>2. \A x \in H : q[x] \in 1..L /\ r[q[x]] = x
          BY <4>1, ListedNumbers
        <5> QED
          BY <5>1, <5>2 DEF At
      <4> QED
        BY <4>2, <4>3
    <3>2. 1 \in 1..(L + 1)
      BY <1>5
    <3> QED
      <4>1. At(r, L, i) = At(r, L, 1)
        BY <1>1, <1>6, <3>1
      <4> QED
        BY ONLY Sound(t, H, r, L), i \in 1..(L + 1), <3>2, <4>1, DifferentAt
  <2>3. CutRun(r, L, i, j - i) \in [1..0 -> {}] /\ L - (j - i) = 0
    BY <1>5, <2>1, <2>2 DEF CutRun
  <2> QED
    BY <1>1, <1>3, <1>6, <2>3, EmptyIsSound DEF WithoutRun
<1>7. CASE ~(first = t.child["left"][mAnchor] /\ last = mAnchor)
  <2>1. Erased(r, L, i, j - i, f[N])
    <3>1. Sound(t, H, r, L) /\ t.mnSize = L /\ i \in 1..(L + 1) /\ j \in i..(L + 1)
      OBVIOUS
    <3> QED
      BY ONLY <1>1, <1>2, <3>1, EraseLoop
  <2>2. EraseRun(t, first, last) = f[N].tree
    BY <1>3, <1>7
  <2> QED
    BY <1>1, <2>1, <2>2 DEF Erased, WithoutRun
<1> QED
  BY <1>6, <1>7

(* Searching.                                                                *)
\* The nodes of A, those behind the p-th, are passed on their left.
SearchStates(H) == [node : H \cup {NULL}, last : H \cup {mAnchor}, end : H \cup {mAnchor}]

\* The place behind the p-th item is free below the node `last`.
Foot(t, H, q, L, p, last) ==
  IF H = {} THEN last = mAnchor
  ELSE \/ last \in H /\ q[last] = p + 1 /\ t.child["left"][last] = NULL
       \/ last \in H /\ q[last] = p /\ t.child["right"][last] = NULL

\* Between two rounds: the place is below z.node, and z.end is behind that.
Searching(t, H, r, q, e, L, p, z) ==
  IF z.node = NULL THEN z.end = At(r, L, p + 1) /\ Foot(t, H, q, L, p, z.last)
  ELSE /\ e["left"][z.node] <= p + 1 /\ p <= e["right"][z.node]
       /\ z.end = At(r, L, e["right"][z.node] + 1)

SearchRound(t, z, left) ==
  IF z.node = NULL THEN z
  ELSE IF left THEN [node |-> t.child["left"][z.node], last |-> z.node, end |-> z.node]
  ELSE [node |-> t.child["right"][z.node], last |-> z.node, end |-> z.end]

LEMMA SearchRoundIs ==
  ASSUME NEW t, NEW H, NEW r, NEW q, NEW e, NEW L, Walkable(t, H, r, q, e, L), NEW p \in 0..L,
         NEW z \in SearchStates(H), Searching(t, H, r, q, e, L, p, z), z.node # NULL,
         NEW left \in BOOLEAN, left <=> q[z.node] > p,
         NEW v, v = SearchRound(t, z, left)
  PROVE  /\ v \in SearchStates(H) /\ Searching(t, H, r, q, e, L, p, v)
         /\ v.node = NULL \/ (v.node \in H /\ Size(e, v.node) < Size(e, z.node))
<1>1. PICK x : x = z.node
  OBVIOUS
<1>2. x \in H /\ z.end \in H \cup {mAnchor}
  BY <1>1 DEF SearchStates
<1>3. Placed(t, H, q, e, L) /\ Listed(r, q, H, L)
  BY DEF Walkable
<1>4. L \in Nat /\ q[x] \in 1..L /\ e["left"][x] \in 1..L /\ e["right"][x] \in 1..L
  BY <1>2, <1>3, PlacesAreNumbers
<1>5. r[q[x]] = x
  BY <1>2, <1>3, ListedNumbers
<1>6. e["left"][x] <= p + 1 /\ p <= e["right"][x] /\ z.end = At(r, L, e["right"][x] + 1)
  BY <1>1 DEF Searching
<1>7. Sides = {"left", "right"} /\ Other("left") = "right" /\ Other("right") = "left" /\ Dir("left") = -1 /\ Dir("right") = 1
  BY DEF Sides, Other, Dir
<1>8. ASSUME NEW sd \in Sides, t.child[sd][x] = NULL PROVE e[sd][x] = q[x]
  <2>1. Arm(t, H, q, e, x, sd)
    BY <1>2, <1>3 DEF Placed
  <2> QED
    BY <1>8, <2>1 DEF Arm
<1>9. ASSUME NEW sd \in Sides, t.child[sd][x] # NULL
      PROVE  /\ t.child[sd][x] \in H /\ Size(e, t.child[sd][x]) < Size(e, x)
             /\ e[sd][t.child[sd][x]] = e[sd][x] /\ e[Other(sd)][t.child[sd][x]] = q[x] + Dir(sd)
  BY <1>2, <1>3, <1>9, ChildIsSmaller
<1>10. H # {}
  BY <1>2
<1>11. CASE left
  <2>1. PICK c : c = t.child["left"][x]
    OBVIOUS
  <2>2. v = [node |-> c, last |-> x, end |-> x]
    BY <1>1, <1>11, <2>1 DEF SearchRound
  <2>3. v.node = c /\ v.last = x /\ v.end = x
    BY <2>2
  <2>4. q[x] > p
    BY <1>1, <1>11
  <2>5. CASE c = NULL
    <3>1. e["left"][x] = q[x]
      BY <1>7, <1>8, <2>1, <2>5
    <3>2. q[x] = p + 1
      BY <1>4, <1>6, <2>4, <3>1
    <3>3. At(r, L, p + 1) = x
      BY <1>4, <1>5, <3>2 DEF At
    <3>4. Foot(t, H, q, L, p, x)
      BY <1>2, <1>10, <2>1, <2>5, <3>2 DEF Foot
    <3> QED
      BY <1>2, <2>2, <2>3, <2>5, <3>3, <3>4 DEF Searching, SearchStates
  <2>6. CASE c # NULL
    <3>1. c \in H /\ Size(e, c) < Size(e, x) /\ e["left"][c] = e["left"][x] /\ e["right"][c] = q[x] - 1
      <4>1. /\ t.child["left"][x] \in H /\ Size(e, t.child["left"][x]) < Size(e, x)
            /\ e["left"][t.child["left"][x]] = e["left"][x]
            /\ e[Other("left")][t.child["left"][x]] = q[x] + Dir("left")
        BY <1>7, <1>9, <2>1, <2>6
      <4> QED
        BY <1>4, <1>7, <2>1, <4>1
    <3>2. p <= q[x] - 1 /\ (q[x] - 1) + 1 = q[x]
      BY <1>4, <2>4
    <3>3. At(r, L, e["right"][c] + 1) = x
      BY <1>4, <1>5, <3>1, <3>2 DEF At
    <3>4. Searching(t, H, r, q, e, L, p, v)
      BY <1>6, <2>3, <2>6, <3>1, <3>2, <3>3 DEF Searching
    <3> QED
      BY <1>1, <1>2, <2>2, <2>3, <3>1, <3>4 DEF SearchStates
  <2> QED
    BY <2>5, <2>6
<1>12. CASE ~left
  <2>1. PICK c : c = t.child["right"][x]
    OBVIOUS
  <2>2. v = [node |-> c, last |-> x, end |-> z.end]
    BY <1>1, <1>12, <2>1 DEF SearchRound
  <2>3. v.node = c /\ v.last = x /\ v.end = z.end
    BY <2>2
  <2>4. q[x] <= p
    BY <1>1, <1>4, <1>12
  <2>5. CASE c = NULL
    <3>1. e["right"][x] = q[x]
      BY <1>7, <1>8, <2>1, <2>5
    <3>2. q[x] = p
      BY <1>4, <1>6, <2>4, <3>1
    <3>3. z.end = At(r, L, p + 1)
      BY <1>6, <3>1, <3>2
    <3>4. Foot(t, H, q, L, p, x)
      BY <1>2, <1>10, <2>1, <2>5, <3>2 DEF Foot
    <3> QED
      BY <1>2, <2>2, <2>3, <2>5, <3>3, <3>4 DEF Searching, SearchStates
  <2>6. CASE c # NULL
    <3>1. c \in H /\ Size(e, c) < Size(e, x) /\ e["right"][c] = e["right"][x] /\ e["left"][c] = q[x] + 1
      <4>1. /\ t.child["right"][x] \in H /\ Size(e, t.child["right"][x]) < Size(e, x)
            /\ e["right"][t.child["right"][x]] = e["right"][x]
            /\ e[Other("right")][t.child["right"][x]] = q[x] + Dir("right")
        BY <1>7, <1>9, <2>1, <2>6
      <4> QED
        BY <1>4, <1>7, <2>1, <4>1
    <3>2. q[x] + 1 <= p + 1
      BY <1>4, <2>4
    <3>3. Searching(t, H, r, q, e, L, p, v)
      BY <1>6, <2>3, <2>6, <3>1, <3>2 DEF Searching
    <3> QED
      BY <1>1, <1>2, <2>2, <2>3, <3>1, <3>3 DEF SearchStates
  <2> QED
    BY <2>5, <2>6
<1> QED
  BY <1>11, <1>12

\* The rounds of a search.
SearchBegin(t) == [node |-> Root(t), last |-> mAnchor, end |-> mAnchor]

SearchSet(t, H, r, q, e, L, p) == {z \in SearchStates(H) : Searching(t, H, r, q, e, L, p, z)}
SearchFun(t, S, A) == [z \in S |-> SearchRound(t, z, z.node \in A)]

LEMMA SearchEnds ==
  ASSUME NEW t, NEW H, NEW r, NEW q, NEW e, NEW L, Walkable(t, H, r, q, e, L), NEW p \in 0..L,
         NEW A, \A x \in H : x \in A <=> q[x] > p,
         NEW S, S = SearchSet(t, H, r, q, e, L, p), NEW F, F = SearchFun(t, S, A)
  PROVE  /\ SearchBegin(t) \in S /\ F \in [S -> S] /\ N \in Nat
         /\ \E M : Ending(S, F, M, N)
         /\ \A z \in S : F[z] = z => z.node = NULL
<1>0. /\ S = {z \in SearchStates(H) : Searching(t, H, r, q, e, L, p, z)}
      /\ F = [z \in S |-> SearchRound(t, z, z.node \in A)]
  BY DEF SearchSet, SearchFun
<1>1. Placed(t, H, q, e, L) /\ Listed(r, q, H, L)
  BY DEF Walkable
<1>2. L \in Nat /\ H \subseteq Nodes /\ N \in Nat /\ L <= N /\ NULL \notin H
  <2>1. L \in Nat /\ H \subseteq Nodes
    BY <1>1 DEF Placed
  <2>2. L <= N
    BY <1>1, <2>1, NoMoreThanNodes
  <2> QED
    BY <2>1, <2>2, RedBlackTreeAssumption, SpotsAreNumbers DEF Spots
<1>3. SearchBegin(t) \in S
  <2>1. PICK z, x : z = SearchBegin(t) /\ x = Root(t)
    OBVIOUS
  <2>2. z = [node |-> x, last |-> mAnchor, end |-> mAnchor]
    BY <2>1 DEF SearchBegin
  <2>3. z.node = x /\ z.last = mAnchor /\ z.end = mAnchor
    BY <2>2
  <2>4. IF H = {} THEN x = NULL ELSE x \in H
    BY <1>1, <2>1 DEF Placed
  <2>5. z \in SearchStates(H)
    BY <2>2, <2>4 DEF SearchStates
  <2>6. At(r, L, L + 1) = mAnchor
    BY <1>2 DEF At
  <2>7. Searching(t, H, r, q, e, L, p, z)
    <3>1. CASE H = {}
      <4>1. L = 0
        <5>1. ~(1 \in 1..L)
          BY <1>1, <3>1 DEF Listed
        <5> QED
          BY <1>2, <5>1
      <4>2. p + 1 = L + 1
        BY <4>1
      <4> QED
        BY <2>3, <2>4, <2>6, <3>1, <4>2 DEF Searching, Foot
    <3>2. CASE H # {}
      <4>1. Hangs(t, H, e, L, x)
        BY <1>1, <2>4, <3>2 DEF Placed
      <4>2. e["left"][x] = 1 /\ e["right"][x] = L
        BY <2>1, <4>1 DEF Hangs
      <4>3. x # NULL
        BY <1>2, <2>4, <3>2
      <4> QED
        BY <1>2, <2>3, <2>6, <4>2, <4>3 DEF Searching
    <3> QED
      BY <3>1, <3>2
  <2> QED
    BY <1>0, <2>1, <2>5, <2>7
<1>4. ASSUME NEW z \in S
      PROVE  \/ z.node = NULL /\ F[z] = z
             \/ z.node \in H /\ F[z] \in S /\ (F[z].node = NULL \/ (F[z].node \in H /\ Size(e, F[z].node) < Size(e, z.node)))
  <2>1. z \in SearchStates(H) /\ Searching(t, H, r, q, e, L, p, z)
    BY <1>0
  <2>0. PICK left \in BOOLEAN : left <=> z.node \in A
    <3>1. TRUE \in BOOLEAN /\ FALSE \in BOOLEAN
      OBVIOUS
    <3> QED
      BY <3>1, Zenon
  <2>2. PICK v : v = SearchRound(t, z, left)
    OBVIOUS
  <2>3. F[z] = v
    <3>1. F[z] = SearchRound(t, z, z.node \in A)
      BY <1>0
    <3>2. SearchRound(t, z, z.node \in A) = SearchRound(t, z, left)
      BY <2>0 DEF SearchRound
    <3> QED
      BY <2>2, <3>1, <3>2
  <2>4. CASE z.node = NULL
    BY <2>2, <2>3, <2>4 DEF SearchRound
  <2>5. CASE z.node # NULL
    <3>1. z.node \in H
      BY <2>1, <2>5 DEF SearchStates
    <3>2. left \in BOOLEAN /\ (left <=> q[z.node] > p)
      BY <2>0, <3>1
    <3>3. /\ v \in SearchStates(H) /\ Searching(t, H, r, q, e, L, p, v)
          /\ v.node = NULL \/ (v.node \in H /\ Size(e, v.node) < Size(e, z.node))
      BY ONLY Walkable(t, H, r, q, e, L), p \in 0..L, <2>1, <2>2, <2>5, <3>2, SearchRoundIs
    <3> QED
      BY <1>0, <2>3, <3>1, <3>3
  <2> QED
    BY <2>4, <2>5
<1>5. F \in [S -> S]
  <2>1. ASSUME NEW z \in S PROVE F[z] \in S
    BY <1>4
  <2> QED
    BY <1>0, <2>1
<1>6. ASSUME NEW x \in H PROVE Size(e, x) \in 0..(L - 1)
  <2>1. /\ q[x] \in 1..L /\ e["left"][x] \in 1..L /\ e["right"][x] \in 1..L
        /\ e["left"][x] <= q[x] /\ q[x] <= e["right"][x]
    BY <1>1, PlacesAreNumbers
  <2> QED
    BY <2>1, <1>2 DEF Size
<1>7. PICK M : M = [z \in S |-> IF z.node = NULL THEN 0 ELSE Size(e, z.node) + 1]
  OBVIOUS
<1>8. Ending(S, F, M, N)
  <2>1. M \in [S -> 0..N]
    <3>1. ASSUME NEW z \in S PROVE (IF z.node = NULL THEN 0 ELSE Size(e, z.node) + 1) \in 0..N
      <4>1. z.node = NULL \/ Size(e, z.node) \in 0..(L - 1)
        BY <1>4, <1>6
      <4> QED
        BY <1>2, <4>1
    <3> QED
      BY <1>7, <3>1
  <2>2. ASSUME NEW z \in S, F[z] # z PROVE M[F[z]] < M[z]
    <3>1. PICK v : v = F[z]
      OBVIOUS
    <3>2. z.node \in H /\ v \in S /\ (v.node = NULL \/ (v.node \in H /\ Size(e, v.node) < Size(e, z.node)))
      BY <1>4, <2>2, <3>1
    <3>3. Size(e, z.node) \in 0..(L - 1) /\ (v.node \in H => Size(e, v.node) \in 0..(L - 1)) /\ z.node # NULL
      BY <1>2, <1>6, <3>2
    <3>4. M[v] = (IF v.node = NULL THEN 0 ELSE Size(e, v.node) + 1) /\ M[z] = Size(e, z.node) + 1
      BY <1>7, <3>2, <3>3
    <3>5. M[v] < M[z]
      BY ONLY <1>2, <3>2, <3>3, <3>4
    <3> QED
      BY <3>1, <3>5
  <2> QED
    BY <1>5, <2>1, <2>2 DEF Ending
<1>9. ASSUME NEW z \in S, F[z] = z PROVE z.node = NULL
  <2>1. z.node \in H => Size(e, z.node) \in 0..(L - 1)
    BY <1>6
  <2>2. ~(z.node \in H /\ Size(e, z.node) < Size(e, z.node))
    BY <2>1
  <2> QED
    BY <1>4, <1>9, <2>2
<1> QED
  BY <1>2, <1>3, <1>5, <1>8, <1>9

LowerRounds(t, key) ==
  LET f[k \in 0..N] == IF k = 0 THEN SearchBegin(t) ELSE SearchRound(t, f[k - 1], ~Less(f[k - 1].node, key))
  IN f

UpperRounds(t, key) ==
  LET f[k \in 0..N] == IF k = 0 THEN SearchBegin(t) ELSE SearchRound(t, f[k - 1], Less(key, f[k - 1].node))
  IN f

LEMMA SearchesUnfold ==
  ASSUME NEW t, NEW key
  PROVE  /\ lower_bound(t, key) = LowerRounds(t, key)[N].end
         /\ upper_bound(t, key) = UpperRounds(t, key)[N].end
         /\ PositionNonunique(t, key) = UpperRounds(t, key)[N].last
<1>1. lower_bound(t, key) = LowerRounds(t, key)[N].end
  BY Zenon DEF lower_bound, Search, Repeated, LowerRounds, SearchBegin, SearchRound
<1>2. upper_bound(t, key) = UpperRounds(t, key)[N].end
  BY Zenon DEF upper_bound, Search, Repeated, UpperRounds, SearchBegin, SearchRound
<1>3. PositionNonunique(t, key) = UpperRounds(t, key)[N].last
  BY Zenon DEF PositionNonunique, Search, Repeated, UpperRounds, SearchBegin, SearchRound
<1> QED
  BY <1>1, <1>2, <1>3

\* Rounds that pass the nodes of A on their left.
LEMMA SearchFinds ==
  ASSUME NEW t, NEW H, NEW r, NEW q, NEW e, NEW L, Walkable(t, H, r, q, e, L), NEW p \in 0..L,
         NEW A, \A x \in H : x \in A <=> q[x] > p,
         NEW f, f[0] = SearchBegin(t),
         \A k \in 1..N : f[k - 1].node \in H \cup {NULL} => f[k] = SearchRound(t, f[k - 1], f[k - 1].node \in A)
  PROVE  f[N].end = At(r, L, p + 1) /\ Foot(t, H, q, L, p, f[N].last)
<1>1. PICK S : S = SearchSet(t, H, r, q, e, L, p)
  OBVIOUS
<1>2. PICK F : F = SearchFun(t, S, A)
  OBVIOUS
<1>3. /\ SearchBegin(t) \in S /\ F \in [S -> S] /\ N \in Nat
      /\ \E M : Ending(S, F, M, N)
      /\ \A z \in S : F[z] = z => z.node = NULL
  BY ONLY Walkable(t, H, r, q, e, L), p \in 0..L, \A x \in H : x \in A <=> q[x] > p, <1>1, <1>2, SearchEnds
<1>4. PICK M : Ending(S, F, M, N)
  BY <1>3
<1>5. \A z \in S : z.node \in H \cup {NULL}
  BY <1>1 DEF SearchStates, SearchSet
<1>6. ASSUME NEW k \in 1..N, f[k - 1] \in S PROVE f[k] = F[f[k - 1]]
  BY <1>2, <1>5, <1>6 DEF SearchFun
<1>7. f[N] \in S /\ F[f[N]] = f[N]
  BY ONLY <1>3, <1>4, <1>6, f[0] = SearchBegin(t), RoundsEnd
<1>8. PICK z : z = f[N]
  OBVIOUS
<1>9. z \in S /\ z.node = NULL
  BY <1>3, <1>7, <1>8
<1>10. Searching(t, H, r, q, e, L, p, z)
  BY <1>1, <1>9 DEF SearchSet
<1> QED
  BY <1>8, <1>9, <1>10 DEF Searching

\* Rounds that take place among the states of a search.
SearchPath(t, H, A, g) ==
  /\ g[0] = SearchBegin(t)
  /\ \A k \in 1..N : g[k - 1].node \in H \cup {NULL} /\ g[k] = SearchRound(t, g[k - 1], g[k - 1].node \in A)

LEMMA SearchPathExists ==
  ASSUME NEW t, NEW H, NEW r, NEW q, NEW e, NEW L, Walkable(t, H, r, q, e, L), NEW p \in 0..L,
         NEW A, \A x \in H : x \in A <=> q[x] > p
  PROVE  \E g : g = [k \in 0..N |-> g[k]] /\ SearchPath(t, H, A, g)
<1>1. PICK S : S = SearchSet(t, H, r, q, e, L, p)
  OBVIOUS
<1>2. PICK F : F = SearchFun(t, S, A)
  OBVIOUS
<1>3. SearchBegin(t) \in S /\ F \in [S -> S] /\ N \in Nat
  BY ONLY Walkable(t, H, r, q, e, L), p \in 0..L, \A x \in H : x \in A <=> q[x] > p, <1>1, <1>2, SearchEnds
<1>4. PICK g : Rounds(S, F, SearchBegin(t), N, g)
  BY <1>3, RoundsExist
<1>5. g \in [0..N -> S] /\ g = [k \in 0..N |-> IF k = 0 THEN SearchBegin(t) ELSE F[g[k - 1]]]
  BY <1>4, Zenon DEF Rounds
<1>6. g = [k \in 0..N |-> g[k]]
  BY <1>5
<1>7. g[0] = SearchBegin(t)
  BY <1>3, <1>5
<1>8. ASSUME NEW k \in 1..N
      PROVE  g[k - 1].node \in H \cup {NULL} /\ g[k] = SearchRound(t, g[k - 1], g[k - 1].node \in A)
  <2>1. k \in 0..N /\ k # 0 /\ k - 1 \in 0..N
    BY <1>3
  <2>2. g[k - 1] \in S /\ g[k] = F[g[k - 1]]
    BY ONLY <1>5, <2>1
  <2> QED
    BY <1>1, <1>2, <2>2 DEF SearchStates, SearchSet, SearchFun
<1> QED
  BY <1>6, <1>7, <1>8, Zenon DEF SearchPath

LEMMA LowerBoundIs ==
  ASSUME NEW t, NEW H, NEW r, NEW q, NEW e, NEW L, Walkable(t, H, r, q, e, L), NEW p \in 0..L,
         NEW key, \A x \in H : ~Less(x, key) <=> q[x] > p
  PROVE  lower_bound(t, key) = At(r, L, p + 1)
<1>1. PICK A : A = {x \in H : ~Less(x, key)}
  OBVIOUS
<1>2. \A x \in H : x \in A <=> q[x] > p
  BY <1>1
<1>3. NULL \notin H
  BY SpotsAreNumbers DEF Walkable, Placed, Spots
<1>4. ASSUME NEW z, z.node \in H \cup {NULL}
      PROVE  SearchRound(t, z, z.node \in A) = SearchRound(t, z, ~Less(z.node, key))
  BY <1>1, <1>4 DEF SearchRound
<1>5. PICK f : f = LowerRounds(t, key)
  OBVIOUS
<1>6. f = [k \in 0..N |-> IF k = 0 THEN SearchBegin(t) ELSE SearchRound(t, f[k - 1], ~Less(f[k - 1].node, key))]
  <2>1. PICK g : g = [k \in 0..N |-> g[k]] /\ SearchPath(t, H, A, g)
    BY <1>2, SearchPathExists
  <2>2. ASSUME NEW k \in 0..N
        PROVE g[k] = IF k = 0 THEN SearchBegin(t) ELSE SearchRound(t, g[k - 1], ~Less(g[k - 1].node, key))
    <3>1. k = 0 \/ k \in 1..N
      BY RedBlackTreeAssumption
    <3> QED
      BY <1>4, <2>1, <3>1, Zenon DEF SearchPath
  <2>3. g = [k \in 0..N |-> IF k = 0 THEN SearchBegin(t) ELSE SearchRound(t, g[k - 1], ~Less(g[k - 1].node, key))]
    BY <2>1, <2>2, Zenon
  <2> QED
    BY ONLY <1>5, <2>3, Zenon DEF LowerRounds
<1>7. f[0] = SearchBegin(t)
  BY ONLY <1>6, RedBlackTreeAssumption
<1>8. ASSUME NEW k \in 1..N, f[k - 1].node \in H \cup {NULL}
      PROVE  f[k] = SearchRound(t, f[k - 1], f[k - 1].node \in A)
  <2>1. f[k] = SearchRound(t, f[k - 1], ~Less(f[k - 1].node, key))
    BY ONLY <1>6, k \in 1..N, RedBlackTreeAssumption
  <2> QED
    BY <1>4, <1>8, <2>1
<1>9. f[N].end = At(r, L, p + 1)
  BY <1>2, <1>7, <1>8, SearchFinds
<1> QED
  BY <1>5, <1>9, SearchesUnfold

LEMMA UpperBoundIs ==
  ASSUME NEW t, NEW H, NEW r, NEW q, NEW e, NEW L, Walkable(t, H, r, q, e, L), NEW p \in 0..L,
         NEW key, \A x \in H : Less(key, x) <=> q[x] > p
  PROVE  upper_bound(t, key) = At(r, L, p + 1) /\ Foot(t, H, q, L, p, PositionNonunique(t, key))
<1>1. PICK A : A = {x \in H : Less(key, x)}
  OBVIOUS
<1>2. \A x \in H : x \in A <=> q[x] > p
  BY <1>1
<1>3. NULL \notin H
  BY SpotsAreNumbers DEF Walkable, Placed, Spots
<1>4. ASSUME NEW z, z.node \in H \cup {NULL}
      PROVE  SearchRound(t, z, z.node \in A) = SearchRound(t, z, Less(key, z.node))
  BY <1>1, <1>4 DEF SearchRound
<1>5. PICK f : f = UpperRounds(t, key)
  OBVIOUS
<1>6. f = [k \in 0..N |-> IF k = 0 THEN SearchBegin(t) ELSE SearchRound(t, f[k - 1], Less(key, f[k - 1].node))]
  <2>1. PICK g : g = [k \in 0..N |-> g[k]] /\ SearchPath(t, H, A, g)
    BY <1>2, SearchPathExists
  <2>2. ASSUME NEW k \in 0..N
        PROVE g[k] = IF k = 0 THEN SearchBegin(t) ELSE SearchRound(t, g[k - 1], Less(key, g[k - 1].node))
    <3>1. k = 0 \/ k \in 1..N
      BY RedBlackTreeAssumption
    <3> QED
      BY <1>4, <2>1, <3>1, Zenon DEF SearchPath
  <2>3. g = [k \in 0..N |-> IF k = 0 THEN SearchBegin(t) ELSE SearchRound(t, g[k - 1], Less(key, g[k - 1].node))]
    BY <2>1, <2>2, Zenon
  <2> QED
    BY ONLY <1>5, <2>3, Zenon DEF UpperRounds
<1>7. f[0] = SearchBegin(t)
  BY ONLY <1>6, RedBlackTreeAssumption
<1>8. ASSUME NEW k \in 1..N, f[k - 1].node \in H \cup {NULL}
      PROVE  f[k] = SearchRound(t, f[k - 1], f[k - 1].node \in A)
  <2>1. f[k] = SearchRound(t, f[k - 1], Less(key, f[k - 1].node))
    BY ONLY <1>6, k \in 1..N, RedBlackTreeAssumption
  <2> QED
    BY <1>4, <1>8, <2>1
<1>9. f[N].end = At(r, L, p + 1) /\ Foot(t, H, q, L, p, f[N].last)
  BY <1>2, <1>7, <1>8, SearchFinds
<1> QED
  BY <1>5, <1>9, SearchesUnfold

(* The order of the items.                                                   *)
\* m may be before n.
Precedes(m, n) == IF unique THEN Less(m, n) ELSE ~Less(n, m)

Ordered(r, L) == \A i, j \in 1..L : i < j => Precedes(r[i], r[j])

\* n may be the k-th item.
Fits(r, L, k, n) == \A i \in 1..L : (i < k => Precedes(r[i], n)) /\ (i >= k => Precedes(n, r[i]))

LEMMA KeysAreNumbers == ASSUME NEW n \in Nodes PROVE KeyOf(unique, n) \in Int
<1>1. n \in Int
  BY RedBlackTreeAssumption DEF Nodes
<1>2. (n + 1) \div 2 \in Int
  BY <1>1
<1> QED
  BY <1>1, <1>2 DEF KeyOf

LEMMA LessIs ==
  ASSUME NEW m \in Nodes, NEW n \in Nodes, NEW o \in Nodes
  PROVE  /\ ~Less(n, n) /\ (Less(m, n) => ~Less(n, m))
         /\ (Less(m, n) /\ Less(n, o) => Less(m, o))
         /\ (~Less(m, n) /\ ~Less(n, o) => ~Less(m, o))
         /\ (Less(m, n) /\ ~Less(o, n) => Less(m, o)) /\ (~Less(n, m) /\ Less(n, o) => Less(m, o))
         /\ (unique => Less(m, n) \/ Less(n, m) \/ m = n)
<1>1. PICK a, b, c : a = KeyOf(unique, m) /\ b = KeyOf(unique, n) /\ c = KeyOf(unique, o)
  OBVIOUS
<1>2. a \in Int /\ b \in Int /\ c \in Int
  BY <1>1, KeysAreNumbers
<1>3. /\ (Less(n, n) <=> b < b) /\ (Less(m, n) <=> a < b) /\ (Less(n, m) <=> b < a)
      /\ (Less(n, o) <=> b < c) /\ (Less(m, o) <=> a < c) /\ (Less(o, n) <=> c < b)
  BY <1>1 DEF Less
<1>4. unique => a = m /\ b = n
  BY <1>1 DEF KeyOf
<1> QED
  BY <1>2, <1>3, <1>4

LEMMA PrecedesIs ==
  ASSUME NEW m \in Nodes, NEW n \in Nodes, NEW o \in Nodes
  PROVE  /\ (Precedes(m, n) /\ Precedes(n, o) => Precedes(m, o))
         /\ (Precedes(m, n) => ~Less(n, m)) /\ (Less(m, n) => Precedes(m, n)) /\ (unique => ~Precedes(n, n))
         /\ (Precedes(m, n) /\ Less(o, m) => Less(o, n)) /\ (Precedes(m, n) /\ Less(n, o) => Less(m, o))
<1>1. /\ ~Less(n, n) /\ (Less(m, n) => ~Less(n, m))
      /\ (Less(m, n) /\ Less(n, o) => Less(m, o))
      /\ (Less(m, n) /\ ~Less(o, n) => Less(m, o)) /\ (~Less(n, m) /\ Less(n, o) => Less(m, o))
  BY LessIs
<1>2. ~Less(o, n) /\ ~Less(n, m) => ~Less(o, m)
  BY LessIs
<1>3. (Less(o, m) /\ ~Less(n, m) => Less(o, n)) /\ (Less(o, m) /\ Less(m, n) => Less(o, n))
  BY LessIs
<1> QED
  BY <1>1, <1>2, <1>3 DEF Precedes

LEMMA InsertedIsOrdered ==
  ASSUME NEW H, H \subseteq Nodes, NEW L \in Nat, NEW r \in [1..L -> H], Ordered(r, L), NEW n \in Nodes,
         NEW k \in 1..(L + 1), Fits(r, L, k, n)
  PROVE  Ordered(Inserted(r, L, k, n), L + 1)
<1>1. PICK s : s = Inserted(r, L, k, n)
  OBVIOUS
<1>2. \A i \in 1..(L + 1) : s[i] = IF i < k THEN r[i] ELSE IF i = k THEN n ELSE r[i - 1]
  BY <1>1 DEF Inserted
<1>3. ASSUME NEW i \in 1..(L + 1), NEW j \in 1..(L + 1), i < j PROVE Precedes(s[i], s[j])
  <2>1. /\ s[i] = IF i < k THEN r[i] ELSE IF i = k THEN n ELSE r[i - 1]
        /\ s[j] = IF j < k THEN r[j] ELSE IF j = k THEN n ELSE r[j - 1]
    BY <1>2
  <2>2. CASE j < k
    <3>1. i \in 1..L /\ j \in 1..L /\ i < k
      BY <1>3, <2>2
    <3> QED
      BY <1>3, <2>1, <2>2, <3>1 DEF Ordered
  <2>3. CASE j = k
    <3>1. i \in 1..L /\ i < k
      BY <1>3, <2>3
    <3> QED
      BY <2>1, <2>3, <3>1 DEF Fits
  <2>4. CASE j > k
    <3>1. j - 1 \in 1..L /\ j - 1 >= k /\ ~(j < k) /\ j # k
      BY <2>4
    <3>2. CASE i < k
      <4>1. i \in 1..L /\ i < j - 1
        BY <3>1, <3>2
      <4> QED
        BY <2>1, <3>1, <3>2, <4>1 DEF Ordered
    <3>3. CASE i = k
      BY <2>1, <3>1, <3>3 DEF Fits
    <3>4. CASE i > k
      <4>1. i - 1 \in 1..L /\ i - 1 < j - 1 /\ ~(i < k) /\ i # k
        BY <1>3, <3>4
      <4> QED
        BY <2>1, <3>1, <4>1 DEF Ordered
    <3> QED
      BY <3>2, <3>3, <3>4
  <2> QED
    BY <2>2, <2>3, <2>4
<1> QED
  BY <1>1, <1>3 DEF Ordered

LEMMA FittingIsNew ==
  ASSUME NEW q, NEW H, H \subseteq Nodes, NEW L \in Nat, NEW r, Listed(r, q, H, L), NEW n \in Nodes,
         NEW k \in Int, Fits(r, L, k, n), unique
  PROVE  n \notin H
<1>1. ASSUME n \in H PROVE FALSE
  <2>1. q[n] \in 1..L /\ r[q[n]] = n
    BY <1>1, ListedNumbers
  <2>2. ~Precedes(n, n)
    BY PrecedesIs
  <2>3. q[n] < k \/ q[n] >= k
    BY <2>1
  <2> QED
    BY <2>1, <2>2, <2>3 DEF Fits
<1> QED
  BY <1>1

\* Where a set of numbers that is closed upwards begins.
LEMMA Threshold ==
  ASSUME NEW L \in Nat, NEW B, \A i, j \in 1..L : i < j /\ i \in B => j \in B
  PROVE  \E p \in 0..L : \A i \in 1..L : i \in B <=> i > p
<1>1. PICK S : S = {n \in Nat : n <= L => \E p \in 0..n : \A i \in 1..n : i \in B <=> i > p}
  OBVIOUS
<1>2. 0 \in S
  <2>1. \A i \in 1..0 : i \in B <=> i > 0
    OBVIOUS
  <2>2. 0 \in 0..0
    OBVIOUS
  <2> QED
    BY <1>1, <2>1, <2>2
<1>3. ASSUME NEW n \in Nat, n \in S PROVE n + 1 \in S
  <2>1. ASSUME n + 1 <= L PROVE \E p \in 0..(n + 1) : \A i \in 1..(n + 1) : i \in B <=> i > p
    <3>1. PICK p \in 0..n : \A i \in 1..n : i \in B <=> i > p
      BY <1>1, <1>3, <2>1
    <3>2. CASE n + 1 \in B
      <4>1. p \in 0..(n + 1) /\ \A i \in 1..(n + 1) : i \in B <=> i > p
        BY <3>1, <3>2
      <4> QED
        BY <4>1
    <3>3. CASE n + 1 \notin B
      <4>1. \A i \in 1..n : i \notin B
        <5>1. ASSUME NEW i \in 1..n, i \in B PROVE FALSE
          <6>1. i \in 1..L /\ n + 1 \in 1..L /\ i < n + 1
            BY <2>1
          <6> QED
            BY <3>3, <5>1, <6>1
        <5> QED
          BY <5>1
      <4>2. \A i \in 1..(n + 1) : i \notin B /\ ~(i > n + 1)
        BY <3>3, <4>1
      <4>3. n + 1 \in 0..(n + 1)
        OBVIOUS
      <4> QED
        BY <4>2, <4>3
    <3> QED
      BY <3>2, <3>3
  <2> QED
    BY <1>1, <2>1
<1>4. L \in S
  BY <1>2, <1>3, SetInduction
<1> QED
  BY <1>1, <1>4

\* Where a key is among the items.
LEMMA KeysPlace ==
  ASSUME NEW q, NEW H, H \subseteq Nodes, NEW L \in Nat, NEW r, Listed(r, q, H, L), Ordered(r, L), NEW key \in Nodes
  PROVE  /\ \E p \in 0..L : \A x \in H : ~Less(x, key) <=> q[x] > p
         /\ \E p \in 0..L : \A x \in H : Less(key, x) <=> q[x] > p
<1>1. /\ \A x \in H : q[x] \in 1..L /\ r[q[x]] = x
      /\ \A i \in 1..L : r[i] \in H /\ q[r[i]] = i
  BY ListedNumbers
<1>2. ASSUME NEW i \in 1..L, NEW j \in 1..L, i < j
      PROVE  (~Less(r[i], key) => ~Less(r[j], key)) /\ (Less(key, r[i]) => Less(key, r[j]))
  <2>1. Precedes(r[i], r[j]) /\ r[i] \in Nodes /\ r[j] \in Nodes
    BY <1>1, <1>2 DEF Ordered
  <2>2. (Precedes(r[i], r[j]) /\ Less(key, r[i]) => Less(key, r[j])) /\ (Precedes(r[i], r[j]) /\ Less(r[j], key) => Less(r[i], key))
    BY <2>1, PrecedesIs
  <2> QED
    BY <2>1, <2>2
<1>3. \E p \in 0..L : \A x \in H : ~Less(x, key) <=> q[x] > p
  <2>1. PICK B : B = {i \in 1..L : ~Less(r[i], key)}
    OBVIOUS
  <2>2. \A i, j \in 1..L : i < j /\ i \in B => j \in B
    BY <1>2, <2>1
  <2>3. PICK p \in 0..L : \A i \in 1..L : i \in B <=> i > p
    BY <2>2, Threshold
  <2>4. \A x \in H : ~Less(x, key) <=> q[x] > p
    BY <1>1, <2>1, <2>3
  <2> QED
    BY <2>4
<1>4. \E p \in 0..L : \A x \in H : Less(key, x) <=> q[x] > p
  <2>1. PICK B : B = {i \in 1..L : Less(key, r[i])}
    OBVIOUS
  <2>2. \A i, j \in 1..L : i < j /\ i \in B => j \in B
    BY <1>2, <2>1
  <2>3. PICK p \in 0..L : \A i \in 1..L : i \in B <=> i > p
    BY <2>2, Threshold
  <2>4. \A x \in H : Less(key, x) <=> q[x] > p
    BY <1>1, <2>1, <2>3
  <2> QED
    BY <2>4
<1> QED
  BY <1>3, <1>4

(* Insertion.                                                                *)
LEMMA CountedIsSound ==
  ASSUME NEW t, NEW H, NEW r, NEW L, Sound(t, H, r, L), NEW u, u = [t EXCEPT !.mnSize = @ + 1]
  PROVE  Sound(u, H, r, L) /\ u.mnSize = t.mnSize + 1
<1>1. PICK q, e, b : Arranged(t, H, r, q, e, b, L)
  BY DEF Sound
<1>2. t \in Trees /\ H \subseteq Nodes
  BY <1>1, ArrangedIsWalkable
<1>3. u \in Trees /\ u.child = t.child /\ u.parent = t.parent /\ u.red = t.red /\ u.mnSize = t.mnSize + 1
  BY <1>2 DEF Trees
<1>4. AlikeIn(t, u, H)
  BY <1>3 DEF AlikeIn, Root
<1>5. Level(t, H, q, e, b, L) /\ Listed(r, q, H, L) /\ Ends(t, H, q, L) /\ Clean(t, H)
  BY <1>1 DEF Arranged, Level
<1>6. Level(u, H, q, e, b, L)
  BY <1>4, <1>5, AlikeIsLevel
<1>7. Ends(u, H, q, L) /\ Clean(u, H)
  BY <1>3, <1>5 DEF Ends, Clean, Apart
<1>8. Arranged(u, H, r, q, e, b, L)
  BY <1>5, <1>6, <1>7 DEF Arranged, Level
<1> QED
  BY <1>3, <1>8 DEF Sound

\* u holds the items r and n among them, new, in the k-th place, where it may be.
JoinsAt(u, H, r, L, n, k) ==
  /\ n \notin H /\ k \in 1..(L + 1) /\ Fits(r, L, k, n)
  /\ Sound(u, H \cup {n}, Inserted(r, L, k, n), L + 1) /\ u.mnSize = L + 1

\* u is t with n among its items behind all those of its key, if it was not yet.
JoinsLast(t, u, H, r, L, n) ==
  \/ u = t /\ n \in H
  \/ \E k : JoinsAt(u, H, r, L, n, k) /\ upper_bound(t, n) = At(r, L, k)

\* The side on which DoInsertValueImpl attaches n to p.
InsertSide(n, p, forceToLeft) == IF forceToLeft \/ p = mAnchor \/ Less(n, p) THEN "left" ELSE "right"

LEMMA InsertBelowIs ==
  ASSUME NEW t, NEW H, NEW r, NEW L, Sound(t, H, r, L), t.mnSize = L, NEW n \in Nodes \ H,
         NEW k \in 1..(L + 1), Fits(r, L, k, n), NEW p, NEW s, Gap(t, r, L, k, p, s),
         NEW forceToLeft, s = InsertSide(n, p, forceToLeft)
  PROVE  JoinsAt(InsertBelow(t, n, p, forceToLeft), H, r, L, n, k)
<1>1. PICK v : v = RBTreeInsert(t, n, p, s)
  OBVIOUS
<1>2. Sound(v, H \cup {n}, Inserted(r, L, k, n), L + 1) /\ v.mnSize = t.mnSize
  BY <1>1, RBTreeInsertIs
<1>3. PICK u : u = [v EXCEPT !.mnSize = @ + 1]
  OBVIOUS
<1>4. InsertBelow(t, n, p, forceToLeft) = u
  BY <1>1, <1>3 DEF InsertBelow, InsertSide
<1>5. Sound(u, H \cup {n}, Inserted(r, L, k, n), L + 1) /\ u.mnSize = v.mnSize + 1
  BY <1>2, <1>3, CountedIsSound
<1> QED
  BY <1>2, <1>4, <1>5 DEF JoinsAt

FootAt(H, q, L, p, m, s) ==
  IF H = {} THEN m = mAnchor /\ L = 0 ELSE m \in H /\ q[m] = IF s = "left" THEN p + 1 ELSE p

\* The place that DoGetKeyInsertionPositionNonuniqueKeys finds.
LEMMA FootIsGap ==
  ASSUME NEW t, NEW H, NEW r, NEW q, NEW e, NEW L, Walkable(t, H, r, q, e, L), NEW p \in 0..L,
         NEW n, \A x \in H : Less(n, x) <=> q[x] > p, NEW m, Foot(t, H, q, L, p, m),
         NEW s, s = InsertSide(n, m, FALSE)
  PROVE  Gap(t, r, L, p + 1, m, s) /\ FootAt(H, q, L, p, m, s)
<1>0. s = IF m = mAnchor \/ Less(n, m) THEN "left" ELSE "right"
  BY DEF InsertSide
<1>1. Listed(r, q, H, L) /\ L \in Nat /\ H \subseteq Nodes
  BY DEF Walkable, Placed
<1>2. \A x \in H : q[x] \in 1..L /\ r[q[x]] = x
  BY <1>1, ListedNumbers
<1>3. CASE H = {}
  <2>1. m = mAnchor
    BY <1>3 DEF Foot
  <2>2. L = 0
    <3>1. ~(1 \in 1..L)
      BY <1>1, <1>3 DEF Listed
    <3> QED
      BY <1>1, <3>1
  <2>3. p + 1 = 1 /\ s = "left"
    BY ONLY <1>0, <2>1, <2>2
  <2> QED
    BY <1>3, <2>1, <2>2, <2>3 DEF Gap, FootAt
<1>4. CASE H # {}
  <2>1. m \in H /\ m # mAnchor
    BY <1>1, <1>4, SpotsAreNumbers DEF Foot
  <2>2. q[m] \in 1..L /\ r[q[m]] = m /\ (Less(n, m) <=> q[m] > p)
    BY <1>2, <2>1
  <2>3. CASE q[m] = p + 1 /\ t.child["left"][m] = NULL
    <3>1. Less(n, m) /\ s = "left"
      BY ONLY <1>0, <2>2, <2>3, p \in 0..L
    <3> QED
      BY <1>4, <2>1, <2>2, <2>3, <3>1 DEF Gap, FootAt
  <2>4. CASE q[m] = p /\ t.child["right"][m] = NULL
    <3>1. ~Less(n, m) /\ s = "right"
      BY ONLY <1>0, <2>1, <2>2, <2>4, p \in 0..L
    <3>2. p + 1 \in 2..(L + 1) /\ (p + 1) - 1 = p
      BY ONLY <1>1, <2>2, <2>4
    <3> QED
      BY <1>4, <2>1, <2>2, <2>4, <3>1, <3>2 DEF Gap, FootAt
  <2> QED
    BY <1>4, <2>3, <2>4 DEF Foot
<1> QED
  BY <1>3, <1>4

LEMMA DoInsertItemIs ==
  ASSUME NEW t, NEW H, NEW r, NEW L, Sound(t, H, r, L), t.mnSize = L, Ordered(r, L), unique \in BOOLEAN,
         NEW n \in Nodes, unique \/ n \notin H
  PROVE  JoinsLast(t, DoInsertItem(t, n), H, r, L, n)
<1>1. PICK q, e, b : Arranged(t, H, r, q, e, b, L)
  BY DEF Sound
<1>2. Walkable(t, H, r, q, e, L) /\ L \in Nat /\ H \subseteq Nodes /\ r \in [1..L -> H]
  BY <1>1, ArrangedIsWalkable
<1>3. Listed(r, q, H, L) /\ Ends(t, H, q, L)
  BY <1>2 DEF Walkable
<1>4. /\ \A x \in H : q[x] \in 1..L /\ r[q[x]] = x
      /\ \A i \in 1..L : r[i] \in H /\ q[r[i]] = i
  BY <1>3, ListedNumbers
<1>5. PICK p \in 0..L : \A x \in H : Less(n, x) <=> q[x] > p
  <2>1. H \subseteq Nodes /\ L \in Nat /\ Listed(r, q, H, L) /\ Ordered(r, L) /\ n \in Nodes
    BY <1>2, <1>3
  <2> QED
    BY ONLY <2>1, KeysPlace
<1>6. PICK last : last = PositionNonunique(t, n)
  OBVIOUS
<1>7. Foot(t, H, q, L, p, last) /\ upper_bound(t, n) = At(r, L, p + 1)
  BY <1>2, <1>5, <1>6, UpperBoundIs
<1>8. PICK s : s = InsertSide(n, last, FALSE)
  OBVIOUS
<1>9. /\ Gap(t, r, L, p + 1, last, s)
      /\ FootAt(H, q, L, p, last, s)
  BY ONLY <1>2, <1>5, <1>7, <1>8, FootIsGap
<1>10. p + 1 \in 1..(L + 1)
  BY <1>2
<1>11. Fits(r, L, p + 1, n) /\ n \notin H => JoinsLast(t, InsertBelow(t, n, last, FALSE), H, r, L, n)
  <2>1. ASSUME Fits(r, L, p + 1, n), n \notin H PROVE JoinsLast(t, InsertBelow(t, n, last, FALSE), H, r, L, n)
    <3>1. n \in Nodes \ H /\ Sound(t, H, r, L) /\ t.mnSize = L
      BY <2>1
    <3>2. JoinsAt(InsertBelow(t, n, last, FALSE), H, r, L, n, p + 1)
      BY ONLY <1>8, <1>9, <1>10, <2>1, <3>1, InsertBelowIs
    <3> QED
      BY <1>7, <3>2 DEF JoinsLast
  <2> QED
    BY <2>1
\* Those from the p-th on that may not be before n.
<1>12. ASSUME NEW i \in 1..L, i >= p + 1 PROVE Precedes(n, r[i])
  <2>1. r[i] \in H /\ q[r[i]] > p
    BY <1>4, <1>12
  <2>2. Less(n, r[i]) /\ r[i] \in Nodes
    BY <1>2, <1>5, <2>1
  <2> QED
    BY <2>2, PrecedesIs
<1>13. ASSUME NEW i \in 1..L, i < p + 1 PROVE ~Less(n, r[i]) /\ r[i] \in Nodes
  <2>1. r[i] \in H /\ ~(q[r[i]] > p)
    BY <1>4, <1>13
  <2> QED
    BY <1>2, <1>5, <2>1
<1>14. CASE ~unique
  <2>1. DoInsertItem(t, n) = InsertBelow(t, n, last, FALSE)
    BY <1>6, <1>14 DEF DoInsertItem
  <2>2. Fits(r, L, p + 1, n)
    BY <1>12, <1>13, <1>14 DEF Fits, Precedes
  <2> QED
    BY <1>11, <1>14, <2>1, <2>2
<1>15. CASE unique
  <2>1. PICK left, below : /\ left \in BOOLEAN /\ (left <=> last = mAnchor \/ Less(n, last))
                           /\ below = IF left THEN RBTreeDecrement(t, last) ELSE last
    BY Zenon
  <2>2. PICK u : u = PositionUnique(t, n)
    OBVIOUS
  <2>3. u = IF (left /\ last = t.child["left"][mAnchor]) \/ Less(below, n)
            THEN [canInsert |-> TRUE, node |-> last] ELSE [canInsert |-> FALSE, node |-> below]
    BY <1>6, <2>1, <2>2 DEF PositionUnique
  <2>4. DoInsertItem(t, n) = IF u.canInsert THEN InsertBelow(t, n, u.node, FALSE) ELSE t
    BY <1>15, <2>2 DEF DoInsertItem
  <2>5. CASE ~((left /\ last = t.child["left"][mAnchor]) \/ Less(below, n))
    <3>1. ~u.canInsert
      BY <2>3, <2>5
    <3>2. left <=> s = "left"
      BY <1>8, <2>1 DEF InsertSide
    <3>3. H # {} /\ p \in 1..L /\ below = r[p]
      <4>1. CASE left
        <5>1. last # t.child["left"][mAnchor] /\ ~Less(below, n)
          BY <2>5, <4>1
        <5>2. H # {}
          <6>1. H = {} => last = mAnchor
            BY <1>9 DEF FootAt
          <6>2. H = {} => t.child["left"][mAnchor] = mAnchor
            BY <1>3 DEF Ends, Sides
          <6> QED
            BY <5>1, <6>1, <6>2
        <5>3. last \in H /\ q[last] = p + 1
          BY <1>9, <3>2, <4>1, <5>2 DEF FootAt
        <5>4. t.child["left"][mAnchor] \in H /\ q[t.child["left"][mAnchor]] = 1
          BY <1>3, <5>2 DEF Ends
        <5>5. p # 0
          <6>1. q[last] # 1
            BY <1>4, <5>1, <5>3, <5>4
          <6> QED
            BY <5>3, <6>1
        <5>6. q[last] > 1 /\ q[last] - 1 = p /\ p \in 1..L
          BY <5>3, <5>5
        <5>7. RBTreeDecrement(t, last) = r[q[last] - 1]
          BY <1>2, <5>3, <5>6, DecrementIs
        <5> QED
          BY <2>1, <4>1, <5>2, <5>6, <5>7
      <4>2. CASE ~left
        <5>1. H # {} /\ last \in H /\ q[last] = p
          BY <1>9, <2>1, <3>2, <4>2 DEF FootAt
        <5> QED
          BY <1>4, <2>1, <4>2, <5>1
      <4> QED
        BY <4>1, <4>2
    <3>4. below \in H /\ below \in Nodes /\ ~Less(n, below)
      BY <1>2, <1>4, <1>13, <3>3
    <3>5. ~Less(below, n)
      BY <2>5
    <3>6. n = below
      <4>1. Less(below, n) \/ Less(n, below) \/ below = n
        BY ONLY <1>15, <3>4, n \in Nodes, LessIs
      <4> QED
        BY <3>4, <3>5, <4>1
    <3> QED
      BY <2>4, <3>1, <3>4, <3>6 DEF JoinsLast
  <2>6. CASE (left /\ last = t.child["left"][mAnchor]) \/ Less(below, n)
    <3>1. u.canInsert /\ u.node = last
      BY <2>3, <2>6
    <3>2. DoInsertItem(t, n) = InsertBelow(t, n, last, FALSE)
      BY <2>4, <3>1
    <3>3. left <=> s = "left"
      BY <1>8, <2>1 DEF InsertSide
    <3>4. ASSUME NEW i \in 1..L, i < p + 1 PROVE Less(r[i], n)
      <4>1. H # {} /\ p \in 1..L
        BY <1>4, <3>4
      <4>2. last \in H /\ q[last] = IF left THEN p + 1 ELSE p
        BY <1>9, <3>3, <4>1 DEF FootAt
      <4>3. ~(left /\ last = t.child["left"][mAnchor])
        <5>1. q[t.child["left"][mAnchor]] = 1
          BY <1>3, <4>1 DEF Ends
        <5> QED
          BY <4>1, <4>2, <5>1
      <4>4. Less(below, n)
        BY <2>6, <4>3
      <4>5. below = r[p]
        <5>1. CASE left
          <6>1. q[last] = p + 1 /\ q[last] > 1 /\ (p + 1) - 1 = p
            BY <4>1, <4>2, <5>1
          <6>2. RBTreeDecrement(t, last) = r[q[last] - 1]
            BY <1>2, <4>2, <6>1, DecrementIs
          <6> QED
            BY <2>1, <5>1, <6>1, <6>2
        <5>2. CASE ~left
          BY <1>4, <2>1, <4>2, <5>2
        <5> QED
          BY <5>1, <5>2
      <4>6. i = p \/ i < p
        BY <3>4, <4>1
      <4>7. CASE i < p
        <5>1. Precedes(r[i], r[p])
          BY <4>1, <4>7 DEF Ordered
        <5>2. r[i] \in Nodes /\ r[p] \in Nodes
          BY <1>2, <1>4, <4>1
        <5> QED
          BY <4>4, <4>5, <5>1, <5>2, PrecedesIs
      <4> QED
        BY <4>4, <4>5, <4>6, <4>7
    <3>5. Fits(r, L, p + 1, n)
      BY <1>12, <1>15, <3>4 DEF Fits, Precedes
    <3>6. n \notin H
      <4>1. p + 1 \in Int
        BY <1>10
      <4> QED
        BY <1>2, <1>3, <1>15, <3>5, <4>1, FittingIsNew
    <3> QED
      BY <1>11, <3>2, <3>5, <3>6
  <2> QED
    BY <2>5, <2>6
<1> QED
  BY <1>14, <1>15

\* What is on the right of an item is behind it.
LEMMA RightOf ==
  ASSUME NEW t, NEW H, NEW r, NEW q, NEW e, NEW L, Walkable(t, H, r, q, e, L), NEW i \in 1..L
  PROVE  /\ t.child["right"][r[i]] # NULL => i < L /\ t.child["left"][r[i + 1]] = NULL
         /\ i = L => t.child["right"][r[i]] = NULL
<1>1. Placed(t, H, q, e, L) /\ Listed(r, q, H, L) /\ Clean(t, H)
  BY DEF Walkable
<1>2. r[i] \in H /\ q[r[i]] = i /\ L \in Nat /\ H \subseteq Nodes
  BY <1>1, ListedNumbers DEF Placed
<1>3. ASSUME t.child["right"][r[i]] # NULL PROVE i < L /\ t.child["left"][r[i + 1]] = NULL
  <2>1. PICK x, c : x = r[i] /\ c = t.child["right"][r[i]]
    OBVIOUS
  <2>2. "right" \in Sides /\ "left" \in Sides /\ Other("right") = "left" /\ Dir("right") = 1
    BY DEF Sides, Other, Dir
  <2>3. c \in H /\ e["left"][c] = i + 1
    <3>1. t.child["right"][x] \in H /\ e[Other("right")][t.child["right"][x]] = q[x] + Dir("right")
      BY <1>1, <1>2, <1>3, <2>1, <2>2, ChildIsSmaller
    <3> QED
      BY <1>2, <2>1, <2>2, <3>1
  <2>4. e["left"][c] \in 1..L
    BY <1>1, <2>3, PlacesAreNumbers
  <2>5. LeadsIn(t, H, "left")
    BY <1>1, <2>2, WalkableLeadsIn
  <2>6. t.child["left"][r[e["left"][c]]] = NULL
    BY <1>1, <2>2, <2>3, <2>5, OutermostIs
  <2> QED
    BY <1>2, <2>3, <2>4, <2>6
<1> QED
  BY <1>2, <1>3

\* What becomes of a hint.
ByHint(t, position, n, rightmost, next) ==
  IF position \notin {rightmost, mAnchor}
  THEN IF ~(Precedes(position, n) /\ Precedes(n, next)) THEN DoInsertItem(t, n)
       ELSE IF t.child["right"][position] # NULL
       THEN IF next = NULL THEN DoInsertItem(t, n) ELSE InsertBelow(t, n, next, TRUE)
       ELSE IF position = NULL THEN DoInsertItem(t, n) ELSE InsertBelow(t, n, position, FALSE)
  ELSE IF t.mnSize > 0 /\ Precedes(rightmost, n)
       THEN IF rightmost = NULL THEN DoInsertItem(t, n) ELSE InsertBelow(t, n, rightmost, FALSE)
       ELSE DoInsertItem(t, n)

LEMMA HintIs ==
  ASSUME NEW t, NEW position, NEW n, NEW rightmost, rightmost = t.child["right"][mAnchor],
         NEW next, next = RBTreeIncrement(t, position)
  PROVE  InsertByHint(t, position, n) = ByHint(t, position, n, rightmost, next)
<1>1. PICK p : p = PositionHint(t, position, n)
  OBVIOUS
<1>2. p = IF position \notin {rightmost, mAnchor}
          THEN IF ~(Precedes(position, n) /\ Precedes(n, next)) THEN [node |-> NULL, left |-> FALSE]
               ELSE IF t.child["right"][position] # NULL THEN [node |-> next, left |-> TRUE]
               ELSE [node |-> position, left |-> FALSE]
          ELSE IF t.mnSize > 0 /\ Precedes(rightmost, n) THEN [node |-> rightmost, left |-> FALSE]
          ELSE [node |-> NULL, left |-> FALSE]
  BY <1>1 DEF PositionHint, Precedes
<1>3. InsertByHint(t, position, n) = IF p.node = NULL THEN DoInsertItem(t, n) ELSE InsertBelow(t, n, p.node, p.left)
  BY <1>1 DEF InsertByHint
<1> QED
  BY ONLY <1>2, <1>3 DEF ByHint

\* n may be right behind the i-th item.
MayFollow(r, L, n, i) == Precedes(r[i], n) /\ (i < L => Precedes(n, r[i + 1]))

\* u is t with n right behind the hint if it may be there, and else as without it.
JoinsByHint(t, u, H, r, L, n, position) ==
  \/ \E i \in 1..L : /\ position = r[i] \/ (position = mAnchor /\ i = L)
                     /\ MayFollow(r, L, n, i) /\ JoinsAt(u, H, r, L, n, i + 1)
  \/ u = DoInsertItem(t, n) /\ \A i \in 1..L : position = r[i] => ~MayFollow(r, L, n, i)

LEMMA HintedIs ==
  ASSUME NEW t, NEW H, NEW r, NEW L, Sound(t, H, r, L), t.mnSize = L, Ordered(r, L), unique \in BOOLEAN,
         NEW n \in Nodes, unique \/ n \notin H, NEW position \in H \cup {mAnchor}
  PROVE  JoinsByHint(t, InsertByHint(t, position, n), H, r, L, n, position)
<1>1. PICK q, e, b : Arranged(t, H, r, q, e, b, L)
  BY DEF Sound
<1>2. Walkable(t, H, r, q, e, L) /\ L \in Nat /\ H \subseteq Nodes /\ r \in [1..L -> H]
  BY <1>1, ArrangedIsWalkable
<1>3. Listed(r, q, H, L) /\ Ends(t, H, q, L)
  BY <1>2 DEF Walkable
<1>4. /\ \A x \in H : q[x] \in 1..L /\ r[q[x]] = x
      /\ \A i \in 1..L : r[i] \in H /\ q[r[i]] = i
  BY <1>3, ListedNumbers
<1>5. NULL \notin H /\ mAnchor \notin H /\ NULL # mAnchor
  <2>1. NULL \notin Spots /\ mAnchor \notin Nodes /\ mAnchor \in Spots /\ Nodes \subseteq Spots
    BY SpotsAreNumbers DEF Spots
  <2> QED
    BY <1>2, <2>1
<1>6. (\A i \in 1..L : position = r[i] => ~MayFollow(r, L, n, i)) =>
        JoinsByHint(t, DoInsertItem(t, n), H, r, L, n, position)
  BY DEF JoinsByHint
<1>7. PICK rightmost, next : rightmost = t.child["right"][mAnchor] /\ next = RBTreeIncrement(t, position)
  OBVIOUS
<1>8. ASSUME NEW k \in 1..(L + 1), Fits(r, L, k, n), NEW p, NEW left \in BOOLEAN, Gap(t, r, L, k, p, InsertSide(n, p, left))
      PROVE  JoinsAt(InsertBelow(t, n, p, left), H, r, L, n, k)
  <2>1. n \notin H
    <3>1. k \in Int
      BY <1>8, <1>2
    <3>2. unique => n \notin H
      BY ONLY <1>2, <1>3, <1>8, <3>1, n \in Nodes, FittingIsNew
    <3> QED
      BY <3>2
  <2>2. n \in Nodes \ H /\ Sound(t, H, r, L) /\ t.mnSize = L
    BY <2>1
  <2>3. PICK s : s = InsertSide(n, p, left)
    OBVIOUS
  <2>4. Gap(t, r, L, k, p, s)
    BY <1>8, <2>3
  <2> QED
    BY ONLY <1>8, <2>2, <2>3, <2>4, InsertBelowIs
\* Behind the i-th item.
<1>9. ASSUME NEW i \in 1..L, MayFollow(r, L, n, i) PROVE Fits(r, L, i + 1, n)
  <2>0. Precedes(r[i], n) /\ (i < L => Precedes(n, r[i + 1]))
    BY <1>9 DEF MayFollow
  <2>1. ASSUME NEW j \in 1..L, j < i + 1 PROVE Precedes(r[j], n)
    <3>1. j = i \/ j < i
      BY <1>2, <2>1
    <3>2. CASE j < i
      <4>1. Precedes(r[j], r[i]) /\ r[j] \in Nodes /\ r[i] \in Nodes
        BY <1>2, <1>4, <3>2 DEF Ordered
      <4>2. Precedes(r[j], r[i]) /\ Precedes(r[i], n) => Precedes(r[j], n)
        BY ONLY <4>1, n \in Nodes, PrecedesIs
      <4> QED
        BY <2>0, <4>1, <4>2
    <3> QED
      BY <2>0, <3>1, <3>2
  <2>2. ASSUME NEW j \in 1..L, j >= i + 1 PROVE Precedes(n, r[j])
    <3>1. i < L /\ i + 1 \in 1..L /\ (j = i + 1 \/ i + 1 < j)
      BY <1>2, <2>2
    <3>2. CASE i + 1 < j
      <4>1. Precedes(r[i + 1], r[j]) /\ r[j] \in Nodes /\ r[i + 1] \in Nodes
        BY <1>2, <1>4, <3>1, <3>2 DEF Ordered
      <4>2. Precedes(n, r[i + 1]) /\ Precedes(r[i + 1], r[j]) => Precedes(n, r[j])
        BY ONLY <4>1, n \in Nodes, PrecedesIs
      <4> QED
        BY <2>0, <3>1, <4>1, <4>2
    <3> QED
      BY <2>0, <3>1, <3>2
  <2> QED
    BY <2>1, <2>2 DEF Fits
\* As its right child.
<1>10. ASSUME NEW i \in 1..L, Precedes(r[i], n), t.child["right"][r[i]] = NULL
       PROVE  Gap(t, r, L, i + 1, r[i], InsertSide(n, r[i], FALSE))
  <2>1. r[i] # mAnchor /\ r[i] \in Nodes
    BY <1>2, <1>4, <1>5
  <2>2. Precedes(r[i], n) => ~Less(n, r[i])
    BY ONLY <2>1, n \in Nodes, PrecedesIs
  <2>3. InsertSide(n, r[i], FALSE) = "right"
    BY <1>10, <2>1, <2>2 DEF InsertSide
  <2>4. i + 1 \in 2..(L + 1) /\ (i + 1) - 1 = i
    BY <1>2
  <2> QED
    BY <1>10, <2>3, <2>4 DEF Gap
<1>11. \A i \in 1..L : i + 1 \in 1..(L + 1) /\ (i + 1 <= L => i + 1 \in 1..L)
  BY <1>2
<1>12. H # {} => L \in 1..L /\ rightmost = r[L]
  <2>1. ASSUME H # {} PROVE L \in 1..L /\ rightmost = r[L]
    <3>1. rightmost \in H /\ q[rightmost] = L
      BY <1>3, <1>7, <2>1 DEF Ends
    <3> QED
      BY <1>4, <3>1
  <2> QED
    BY <2>1
<1>13. InsertByHint(t, position, n) =
         IF position \notin {rightmost, mAnchor}
         THEN IF ~(Precedes(position, n) /\ Precedes(n, next)) THEN DoInsertItem(t, n)
              ELSE IF t.child["right"][position] # NULL
              THEN IF next = NULL THEN DoInsertItem(t, n) ELSE InsertBelow(t, n, next, TRUE)
              ELSE IF position = NULL THEN DoInsertItem(t, n) ELSE InsertBelow(t, n, position, FALSE)
         ELSE IF t.mnSize > 0 /\ Precedes(rightmost, n)
              THEN IF rightmost = NULL THEN DoInsertItem(t, n) ELSE InsertBelow(t, n, rightmost, FALSE)
              ELSE DoInsertItem(t, n)
  <2>1. InsertByHint(t, position, n) = ByHint(t, position, n, rightmost, next)
    BY ONLY <1>7, HintIs
  <2> QED
    BY ONLY <2>1, Zenon DEF ByHint
<1>14. CASE position \notin {rightmost, mAnchor}
  <2>1. PICK i : i \in 1..L /\ i = q[position] /\ position = r[i] /\ position \in H
    BY <1>4, <1>14
  <2>2. i < L
    BY <1>2, <1>12, <1>14, <2>1
  <2>3. next = r[i + 1] /\ i + 1 \in 1..L
    <3>1. RBTreeIncrement(t, position) = IF q[position] < L THEN r[q[position] + 1] ELSE mAnchor
      BY <1>2, <2>1, IncrementIs
    <3> QED
      BY <1>7, <1>11, <2>1, <2>2, <3>1, <1>2
  <2>6. ASSUME NEW j \in 1..L, position = r[j] PROVE j = i
    BY <1>4, <2>1, <2>6
  <2>4. CASE ~(Precedes(position, n) /\ Precedes(n, next))
    <3>1. \A j \in 1..L : position = r[j] => ~MayFollow(r, L, n, j)
      BY <2>1, <2>2, <2>3, <2>4, <2>6 DEF MayFollow
    <3>2. InsertByHint(t, position, n) = DoInsertItem(t, n)
      BY ONLY <1>13, <1>14, <2>4
    <3> QED
      BY <1>6, <3>1, <3>2
  <2>5. CASE Precedes(position, n) /\ Precedes(n, next)
    <3>0. MayFollow(r, L, n, i)
      BY <2>1, <2>3, <2>5 DEF MayFollow
    <3>1. Fits(r, L, i + 1, n)
      BY <1>9, <2>1, <3>0
    <3>4. ASSUME JoinsAt(InsertByHint(t, position, n), H, r, L, n, i + 1)
          PROVE  JoinsByHint(t, InsertByHint(t, position, n), H, r, L, n, position)
      BY <2>1, <3>0, <3>4 DEF JoinsByHint
    <3>2. CASE t.child["right"][position] # NULL
      <4>1. t.child["left"][r[i + 1]] = NULL
        BY <1>2, <2>1, <3>2, RightOf, SMTT(60)
      <4>2. InsertSide(n, next, TRUE) = "left"
        BY DEF InsertSide
      <4>3. Gap(t, r, L, i + 1, next, InsertSide(n, next, TRUE))
        BY <2>3, <4>1, <4>2 DEF Gap
      <4>4. JoinsAt(InsertBelow(t, n, next, TRUE), H, r, L, n, i + 1)
        BY <1>8, <1>11, <2>1, <3>1, <4>3
      <4>5. next # NULL
        BY <1>4, <1>5, <2>3
      <4>6. InsertByHint(t, position, n) = InsertBelow(t, n, next, TRUE)
        BY ONLY <1>13, <1>14, <2>5, <3>2, <4>5
      <4> QED
        BY <3>4, <4>4, <4>6
    <3>3. CASE t.child["right"][position] = NULL
      <4>1. Gap(t, r, L, i + 1, position, InsertSide(n, position, FALSE))
        BY <1>10, <2>1, <2>5, <3>3
      <4>2. JoinsAt(InsertBelow(t, n, position, FALSE), H, r, L, n, i + 1)
        BY <1>8, <1>11, <2>1, <3>1, <4>1
      <4>3. position # NULL
        BY <1>5, <2>1
      <4>4. InsertByHint(t, position, n) = InsertBelow(t, n, position, FALSE)
        BY ONLY <1>13, <1>14, <2>5, <3>3, <4>3
      <4> QED
        BY <3>4, <4>2, <4>4
    <3> QED
      BY <3>2, <3>3
  <2> QED
    BY <2>4, <2>5
<1>15. CASE ~(position \notin {rightmost, mAnchor})
  <2>1. CASE t.mnSize > 0 /\ Precedes(rightmost, n)
    <3>1. H # {}
      BY <1>2, <2>1
    <3>2. L \in 1..L /\ rightmost = r[L]
      BY <1>12, <3>1
    <3>7. MayFollow(r, L, n, L)
      BY <1>2, <2>1, <3>2 DEF MayFollow
    <3>3. Fits(r, L, L + 1, n)
      BY <1>9, <3>2, <3>7
    <3>4. t.child["right"][r[L]] = NULL
      BY <1>2, <3>2, RightOf
    <3>5. Gap(t, r, L, L + 1, rightmost, InsertSide(n, rightmost, FALSE))
      BY <1>10, <2>1, <3>2, <3>4
    <3>6. JoinsAt(InsertBelow(t, n, rightmost, FALSE), H, r, L, n, L + 1)
      BY <1>8, <1>11, <3>2, <3>3, <3>5
    <3>8. rightmost # NULL
      BY <1>4, <1>5, <3>2
    <3>9. InsertByHint(t, position, n) = InsertBelow(t, n, rightmost, FALSE)
      BY ONLY <1>13, <1>15, <2>1, <3>8
    <3>10. position = r[L] \/ (position = mAnchor /\ L = L)
      BY <1>15, <3>2
    <3> QED
      BY <3>2, <3>6, <3>7, <3>9, <3>10 DEF JoinsByHint
  <2>2. CASE ~(t.mnSize > 0 /\ Precedes(rightmost, n))
    <3>1. InsertByHint(t, position, n) = DoInsertItem(t, n)
      BY ONLY <1>13, <1>15, <2>2
    <3>2. ASSUME NEW i \in 1..L, position = r[i] PROVE ~MayFollow(r, L, n, i)
      <4>1. r[i] \in H /\ H # {} /\ t.mnSize > 0
        BY <1>2, <1>4, <3>2
      <4>2. L \in 1..L /\ rightmost = r[L] /\ position = r[L]
        BY <1>5, <1>12, <1>15, <3>2, <4>1
      <4>3. i = L
        BY <1>4, <3>2, <4>2
      <4> QED
        BY <2>2, <4>1, <4>2, <4>3 DEF MayFollow
    <3> QED
      BY <1>6, <3>1, <3>2
  <2> QED
    BY <2>1, <2>2
<1> QED
  BY <1>14, <1>15

(* The items as a sequence.                                                  *)
LEMMA InsertedIsJoined ==
  ASSUME NEW S, NEW s \in Seq(S), NEW n \in S, NEW k \in 1..(Len(s) + 1)
  PROVE  Inserted(s, Len(s), k, n) = SubSeq(s, 1, k - 1) \o <<n>> \o SubSeq(s, (k - 1) + 1, Len(s))
<1>1. PICK L, a, b, c : L = Len(s) /\ a = SubSeq(s, 1, k - 1) /\ b = <<n>> /\ c = SubSeq(s, (k - 1) + 1, Len(s))
  OBVIOUS
<1>2. L \in Nat /\ k - 1 \in 0..L /\ (k - 1) + 1 = k /\ k \in 1..(L + 1)
  BY <1>1
<1>3. a \in Seq(S) /\ Len(a) = k - 1 /\ \A i \in 1..(k - 1) : a[i] = s[i]
  <2>1. \A i \in 1..(k - 1) : i \in 1..Len(s)
    BY <1>1, <1>2
  <2> QED
    BY <1>1, <1>2, <2>1, SubSeqProperties
<1>4. c \in Seq(S) /\ Len(c) = (L - k) + 1 /\ \A i \in 1..((L - k) + 1) : c[i] = s[(k + i) - 1]
  <2>1. \A i \in k..L : i \in 1..Len(s)
    BY <1>1, <1>2
  <2>2. c = SubSeq(s, k, L)
    BY <1>1, <1>2
  <2>3. k = L + 1 \/ k <= L
    BY <1>2
  <2> QED
    BY <1>1, <1>2, <2>1, <2>2, <2>3, SubSeqProperties
<1>5. b \in Seq(S) /\ Len(b) = 1 /\ b[1] = n
  BY <1>1
<1>6. PICK d : d = a \o b
  OBVIOUS
<1>7. d \in Seq(S) /\ Len(d) = k /\ \A i \in 1..k : d[i] = IF i <= k - 1 THEN a[i] ELSE b[i - (k - 1)]
  <2>1. a \o b \in Seq(S) /\ Len(a \o b) = Len(a) + Len(b)
        /\ \A i \in 1..(Len(a) + Len(b)) : (a \o b)[i] = IF i <= Len(a) THEN a[i] ELSE b[i - Len(a)]
    BY <1>3, <1>5, ConcatProperties
  <2>2. Len(a) + Len(b) = k
    BY <1>2, <1>3, <1>5
  <2> QED
    BY <1>3, <1>6, <2>1, <2>2
<1>8. PICK f : f = d \o c
  OBVIOUS
<1>9. f \in Seq(S) /\ Len(f) = L + 1 /\ \A i \in 1..(L + 1) : f[i] = IF i <= k THEN d[i] ELSE c[i - k]
  <2>1. d \o c \in Seq(S) /\ Len(d \o c) = Len(d) + Len(c)
        /\ \A i \in 1..(Len(d) + Len(c)) : (d \o c)[i] = IF i <= Len(d) THEN d[i] ELSE c[i - Len(d)]
    BY <1>4, <1>7, ConcatProperties
  <2>2. Len(d) + Len(c) = L + 1
    BY <1>2, <1>4, <1>7
  <2> QED
    BY <1>7, <1>8, <2>1, <2>2
<1>10. ASSUME NEW i \in 1..(L + 1) PROVE f[i] = IF i < k THEN s[i] ELSE IF i = k THEN n ELSE s[i - 1]
  <2>1. CASE i < k
    <3>1. i \in 1..(k - 1) /\ i \in 1..k /\ i <= k /\ i <= k - 1
      BY <1>2, <2>1
    <3> QED
      BY <1>3, <1>7, <1>9, <2>1, <3>1
  <2>2. CASE i = k
    <3>1. i \in 1..k /\ i <= k /\ ~(i <= k - 1) /\ i - (k - 1) = 1 /\ ~(i < k)
      BY <1>2, <2>2
    <3> QED
      BY <1>5, <1>7, <1>9, <2>2, <3>1
  <2>3. CASE i > k
    <3>1. ~(i <= k) /\ i - k \in 1..((L - k) + 1) /\ (k + (i - k)) - 1 = i - 1 /\ ~(i < k) /\ i # k
      BY <1>2, <2>3
    <3> QED
      BY <1>4, <1>9, <3>1
  <2> QED
    BY <1>2, <2>1, <2>2, <2>3
<1>11. f = [i \in 1..(L + 1) |-> f[i]]
  BY <1>2, <1>9
<1>12. f = Inserted(s, L, k, n)
  BY <1>10, <1>11 DEF Inserted
<1> QED
  BY <1>1, <1>6, <1>8, <1>12

LEMMA CutIsLeft ==
  ASSUME NEW S, NEW s \in Seq(S), NEW i \in 1..(Len(s) + 1), NEW m \in Nat, i + m <= Len(s) + 1
  PROVE  CutRun(s, Len(s), i, m) = SubSeq(s, 1, i - 1) \o SubSeq(s, ((i - 1) + m) + 1, Len(s))
<1>1. PICK L, a, c : L = Len(s) /\ a = SubSeq(s, 1, i - 1) /\ c = SubSeq(s, ((i - 1) + m) + 1, Len(s))
  OBVIOUS
<1>2. L \in Nat /\ i - 1 \in 0..L /\ ((i - 1) + m) + 1 = i + m /\ i + m \in 1..(L + 1) /\ L - m \in Nat
  BY <1>1
<1>3. a \in Seq(S) /\ Len(a) = i - 1 /\ \A k \in 1..(i - 1) : a[k] = s[k]
  <2>1. \A k \in 1..(i - 1) : k \in 1..Len(s)
    BY <1>1, <1>2
  <2> QED
    BY <1>1, <1>2, <2>1, SubSeqProperties
<1>4. c \in Seq(S) /\ Len(c) = (L - (i + m)) + 1 /\ \A k \in 1..((L - (i + m)) + 1) : c[k] = s[((i + m) + k) - 1]
  <2>1. PICK j : j = i + m
    OBVIOUS
  <2>2. j \in 1..(L + 1) /\ (j = L + 1 \/ j <= L) /\ c = SubSeq(s, j, L)
    BY <1>1, <1>2, <2>1
  <2>3. \A k \in j..L : s[k] \in S
    BY <1>1, <1>2, <2>2
  <2>4. L \in Nat /\ j \in Nat /\ (L - j) + 1 = IF j <= L THEN (L - j) + 1 ELSE 0
    BY <1>2, <2>2
  <2>5. SubSeq(s, j, L) \in Seq(S) /\ Len(SubSeq(s, j, L)) = (IF j <= L THEN (L - j) + 1 ELSE 0)
        /\ \A k \in 1..((L - j) + 1) : SubSeq(s, j, L)[k] = s[(j + k) - 1]
    BY <1>1, <2>2, <2>3, <2>4, SubSeqProperties
  <2> QED
    BY <2>1, <2>2, <2>4, <2>5
<1>5. PICK f : f = a \o c
  OBVIOUS
<1>6. f \in Seq(S) /\ Len(f) = L - m /\ \A k \in 1..(L - m) : f[k] = IF k <= i - 1 THEN a[k] ELSE c[k - (i - 1)]
  <2>1. a \o c \in Seq(S) /\ Len(a \o c) = Len(a) + Len(c)
        /\ \A k \in 1..(Len(a) + Len(c)) : (a \o c)[k] = IF k <= Len(a) THEN a[k] ELSE c[k - Len(a)]
    BY <1>3, <1>4, ConcatProperties
  <2>2. Len(a) + Len(c) = L - m
    BY <1>2, <1>3, <1>4
  <2> QED
    BY <1>3, <1>5, <2>1, <2>2
<1>7. ASSUME NEW k \in 1..(L - m) PROVE f[k] = IF k < i THEN s[k] ELSE s[k + m]
  <2>1. CASE k < i
    <3>1. k \in 1..(i - 1) /\ k <= i - 1
      BY <2>1
    <3> QED
      BY <1>3, <1>6, <2>1, <3>1
  <2>2. CASE ~(k < i)
    <3>1. ~(k <= i - 1) /\ k - (i - 1) \in 1..((L - (i + m)) + 1) /\ ((i + m) + (k - (i - 1))) - 1 = k + m
      BY <1>2, <2>2
    <3> QED
      BY <1>4, <1>6, <2>2, <3>1
  <2> QED
    BY <2>1, <2>2
<1>8. f = [k \in 1..(L - m) |-> f[k]]
  BY <1>2, <1>6
<1>9. f = CutRun(s, L, i, m)
  BY <1>7, <1>8 DEF CutRun
<1> QED
  BY <1>1, <1>5, <1>9

(* t is a red-black tree of the items s, in order, and counts them.          *)
Holding(t, H, s) ==
  /\ Sound(t, H, s, Len(s)) /\ t.mnSize = Len(s) /\ Ordered(s, Len(s))
  /\ s \in Seq(Nodes) /\ H \subseteq Nodes

LEMMA HoldingIs ==
  ASSUME NEW t, NEW H, NEW r, NEW L, Sound(t, H, r, L), t.mnSize = L, Ordered(r, L)
  PROVE  Holding(t, H, r) /\ InOrder(t) = r /\ Len(r) = L /\ Held(t) = H
<1>1. PICK q, e, b : Arranged(t, H, r, q, e, b, L)
  BY DEF Sound
<1>2. Walkable(t, H, r, q, e, L) /\ L \in Nat /\ H \subseteq Nodes /\ r \in [1..L -> H]
  BY <1>1, ArrangedIsWalkable
<1>3. Suffix(r, L, 1) = r /\ r \in Seq(H) /\ Len(r) = L
  BY <1>2, WholeSuffix
<1>4. InOrder(t) = Suffix(r, L, 1)
  BY ONLY <1>2, InOrderIs
<1>5. Held(t) = H
  <2>1. Placed(t, H, q, e, L) /\ Clean(t, H)
    BY <1>1 DEF Arranged
  <2> QED
    BY ONLY <2>1, HeldIs
<1>6. r \in Seq(Nodes)
  <2>1. r \in [1..L -> Nodes]
    BY <1>2
  <2> QED
    BY ONLY <2>1, <1>2, WholeSuffix
<1> QED
  BY <1>2, <1>3, <1>4, <1>5, <1>6 DEF Holding

LEMMA SortedIs ==
  ASSUME NEW s \in Seq(Nodes), Ordered(s, Len(s)), unique \in BOOLEAN
  PROVE  Abstract!Sorted(s)
<1>1. ASSUME NEW i \in 1..Len(s), NEW j \in 1..Len(s), i < j
      PROVE  /\ KeyOf(unique, s[i]) <= KeyOf(unique, s[j])
             /\ unique => KeyOf(unique, s[i]) # KeyOf(unique, s[j])
  <2>1. Precedes(s[i], s[j]) /\ s[i] \in Nodes /\ s[j] \in Nodes
    BY <1>1 DEF Ordered
  <2>2. PICK a, b : a = KeyOf(unique, s[i]) /\ b = KeyOf(unique, s[j])
    OBVIOUS
  <2>3. a \in Int /\ b \in Int
    BY <2>1, <2>2, KeysAreNumbers
  <2>4. IF unique THEN a < b ELSE ~(b < a)
    BY <2>1, <2>2 DEF Precedes, Less
  <2> QED
    BY <2>2, <2>3, <2>4
<1> QED
  BY <1>1 DEF Abstract!Sorted

LEMMA CutIsOrdered ==
  ASSUME NEW r, NEW L \in Nat, Ordered(r, L), NEW i \in 1..(L + 1), NEW m \in Nat, i + m <= L + 1
  PROVE  Ordered(CutRun(r, L, i, m), L - m)
<1>1. ASSUME NEW j \in 1..(L - m), NEW k \in 1..(L - m), j < k
      PROVE  Precedes(CutRun(r, L, i, m)[j], CutRun(r, L, i, m)[k])
  <2>1. PICK jj, kk : jj = (IF j < i THEN j ELSE j + m) /\ kk = (IF k < i THEN k ELSE k + m)
    OBVIOUS
  <2>2. jj \in 1..L /\ kk \in 1..L /\ jj < kk
    BY <1>1, <2>1
  <2>3. CutRun(r, L, i, m)[j] = r[jj] /\ CutRun(r, L, i, m)[k] = r[kk]
    BY <2>1 DEF CutRun
  <2> QED
    BY <2>2, <2>3 DEF Ordered
<1> QED
  BY <1>1 DEF Ordered

(* What the operations do to the items.                                      *)
Grows(s, u) ==
  \E n \in Nodes : \E G : Holding(u, G, InOrder(u)) /\ Abstract!Joins(n, s, InOrder(u))

Shrinks(s, u) == \E G : Holding(u, G, InOrder(u)) /\ (InOrder(u) = s \/ Abstract!Leaves(s, InOrder(u)))

\* u holds s with n in the k-th place.
Gains(s, u, n, k) ==
  /\ Grows(s, u) /\ k \in 1..(Len(s) + 1)
  /\ InOrder(u) = SubSeq(s, 1, k - 1) \o <<n>> \o SubSeq(s, (k - 1) + 1, Len(s))

LEMMA JoinsAtGains ==
  ASSUME NEW t, NEW H, NEW s, Holding(t, H, s), unique \in BOOLEAN, NEW n \in Nodes,
         NEW u, NEW k, JoinsAt(u, H, s, Len(s), n, k)
  PROVE  Gains(s, u, n, k)
<1>1. PICK L : L = Len(s)
  OBVIOUS
<1>2. L \in Nat /\ Sound(t, H, s, L) /\ Ordered(s, L) /\ s \in Seq(Nodes) /\ H \subseteq Nodes
  BY <1>1 DEF Holding
<1>3. /\ n \notin H /\ k \in 1..(L + 1) /\ Fits(s, L, k, n)
      /\ Sound(u, H \cup {n}, Inserted(s, L, k, n), L + 1) /\ u.mnSize = L + 1
  BY <1>1 DEF JoinsAt
<1>4. s \in [1..L -> H]
  BY <1>2, Zenon DEF Sound, Arranged, Listed
<1>5. Ordered(Inserted(s, L, k, n), L + 1)
  BY ONLY <1>2, <1>3, <1>4, n \in Nodes, InsertedIsOrdered
<1>6. PICK w : w = Inserted(s, L, k, n)
  OBVIOUS
<1>7. Sound(u, H \cup {n}, w, L + 1) /\ u.mnSize = L + 1 /\ Ordered(w, L + 1)
  BY <1>3, <1>5, <1>6
<1>8. Holding(u, H \cup {n}, w) /\ InOrder(u) = w
  BY ONLY <1>7, HoldingIs
<1>9. w \in Seq(Nodes) /\ Ordered(w, Len(w))
  BY ONLY <1>8 DEF Holding
<1>10. Abstract!Sorted(w)
  BY ONLY <1>9, SortedIs, unique \in BOOLEAN
<1>11. w = SubSeq(s, 1, k - 1) \o <<n>> \o SubSeq(s, (k - 1) + 1, Len(s))
  BY <1>1, <1>2, <1>3, <1>6, InsertedIsJoined
<1>12. k - 1 \in 0..Len(s)
  BY <1>1, <1>2, <1>3
<1>13. \A j \in DOMAIN s : s[j] # n
  BY <1>3, <1>4
<1>14. Abstract!Joins(n, s, w)
  BY <1>10, <1>11, <1>12, <1>13 DEF Abstract!Joins
<1>15. Grows(s, u)
  BY <1>8, <1>14 DEF Grows
<1> QED
  BY <1>1, <1>3, <1>8, <1>11, <1>15 DEF Gains

\* u holds s without the m items from the i-th on.
Loses(s, u, i, m) ==
  Shrinks(s, u) /\ InOrder(u) = SubSeq(s, 1, i - 1) \o SubSeq(s, ((i - 1) + m) + 1, Len(s))

LEMMA CutShrinks ==
  ASSUME NEW H, NEW t, NEW s, Holding(t, H, s), NEW i \in 1..(Len(s) + 1), NEW m \in Nat, i + m <= Len(s) + 1,
         NEW u, NEW G, Sound(u, G, CutRun(s, Len(s), i, m), Len(s) - m), u.mnSize = Len(s) - m
  PROVE  Loses(s, u, i, m)
<1>1. PICK L, w : L = Len(s) /\ w = CutRun(s, L, i, m)
  OBVIOUS
<1>2. L \in Nat /\ Ordered(s, L) /\ s \in Seq(Nodes) /\ i \in 1..(L + 1) /\ i + m <= L + 1
  BY <1>1 DEF Holding
<1>3. Sound(u, G, w, L - m) /\ u.mnSize = L - m
  BY <1>1
<1>4. Ordered(w, L - m)
  BY ONLY <1>1, <1>2, m \in Nat, CutIsOrdered
<1>5. Holding(u, G, w) /\ InOrder(u) = w
  BY ONLY <1>3, <1>4, HoldingIs
<1>6. w = SubSeq(s, 1, i - 1) \o SubSeq(s, ((i - 1) + m) + 1, Len(s))
  BY <1>1, <1>2, CutIsLeft
<1>7. w = s \/ Abstract!Leaves(s, w)
  <2>1. CASE m = 0
    <3>1. s = [k \in 1..L |-> s[k]]
      BY <1>1, <1>2
    <3>2. w = [k \in 1..L |-> s[k]]
      BY <1>1, <1>2, <2>1 DEF CutRun
    <3> QED
      BY <3>1, <3>2
  <2>2. CASE m # 0
    <3>1. i - 1 \in 0..Len(s) /\ (i - 1) + m \in 1..Len(s) /\ i - 1 < (i - 1) + m
      BY <1>1, <1>2, <2>2
    <3> QED
      BY <1>6, <3>1 DEF Abstract!Leaves
  <2> QED
    BY <2>1, <2>2
<1> QED
  BY <1>5, <1>6, <1>7 DEF Shrinks, Loses

\* erase(position)
LEMMA EraseItemShrinks ==
  ASSUME NEW t, NEW H, NEW s, Holding(t, H, s), NEW n \in H
  PROVE  \E i \in 1..Len(s) : n = s[i] /\ Loses(s, EraseItem(t, n), i, 1)
<1>1. PICK L : L = Len(s)
  OBVIOUS
<1>2. L \in Nat /\ Sound(t, H, s, L) /\ t.mnSize = L
  BY <1>1 DEF Holding
<1>3. PICK q, e, b : Arranged(t, H, s, q, e, b, L)
  BY <1>2 DEF Sound
<1>4. PICK i : i \in 1..L /\ n = s[i]
  <2>1. Listed(s, q, H, L)
    BY <1>3 DEF Arranged
  <2> QED
    BY ONLY <2>1, n \in H, ListedNumbers
<1>5. Sound(EraseItem(t, n), H \ {n}, Removed(s, L, i), L - 1) /\ EraseItem(t, n).mnSize = L - 1
  BY ONLY <1>2, <1>4, EraseItemIs
<1>6. Removed(s, L, i) = CutRun(s, L, i, 1)
  BY DEF Removed, CutRun
<1>7. i \in 1..(Len(s) + 1) /\ i + 1 <= Len(s) + 1 /\ 1 \in Nat
  BY <1>1, <1>2, <1>4
<1>8. Sound(EraseItem(t, n), H \ {n}, CutRun(s, Len(s), i, 1), Len(s) - 1) /\ EraseItem(t, n).mnSize = Len(s) - 1
  BY <1>1, <1>5, <1>6
<1>9. Holding(t, H, s)
  OBVIOUS
<1>10. Loses(s, EraseItem(t, n), i, 1)
  BY ONLY <1>7, <1>8, <1>9, CutShrinks
<1> QED
  BY <1>1, <1>4, <1>10

\* The items of a key are those from the (p + 1)-th to the p2-th.
KeyRange(t, H, s, key, q, e, L, p, p2) ==
  /\ L \in Nat /\ p \in 0..L /\ p2 \in p..L /\ H \subseteq Nodes /\ Walkable(t, H, s, q, e, L)
  /\ \A i \in 1..L : /\ s[i] \in H /\ (~Less(s[i], key) <=> p < i) /\ (Less(key, s[i]) <=> p2 < i)
  /\ lower_bound(t, key) = At(s, L, p + 1) /\ upper_bound(t, key) = At(s, L, p2 + 1)

LEMMA KeyRangeExists ==
  ASSUME NEW t, NEW H, NEW s, NEW L, Sound(t, H, s, L), Ordered(s, L), NEW key \in Nodes
  PROVE  \E q, e, p, p2 : KeyRange(t, H, s, key, q, e, L, p, p2)
<1>1. PICK q, e, b : Arranged(t, H, s, q, e, b, L)
  BY DEF Sound
<1>2. Walkable(t, H, s, q, e, L) /\ L \in Nat /\ H \subseteq Nodes
  BY <1>1, ArrangedIsWalkable
<1>3. Listed(s, q, H, L)
  BY <1>2 DEF Walkable
<1>4. H \subseteq Nodes /\ L \in Nat /\ Listed(s, q, H, L) /\ Ordered(s, L) /\ key \in Nodes
  BY <1>2, <1>3
<1>5. PICK p \in 0..L : \A x \in H : ~Less(x, key) <=> q[x] > p
  BY ONLY <1>4, KeysPlace
<1>6. PICK p2 \in 0..L : \A x \in H : Less(key, x) <=> q[x] > p2
  BY ONLY <1>4, KeysPlace
<1>7. lower_bound(t, key) = At(s, L, p + 1)
  BY ONLY <1>2, <1>5, LowerBoundIs
<1>8. upper_bound(t, key) = At(s, L, p2 + 1)
  BY ONLY <1>2, <1>6, UpperBoundIs
<1>9. \A i \in 1..L : s[i] \in H /\ q[s[i]] = i
  BY ONLY <1>3, ListedNumbers
<1>10. \A i \in 1..L : (~Less(s[i], key) <=> p < i) /\ (Less(key, s[i]) <=> p2 < i)
  BY <1>5, <1>6, <1>9
<1>11. p <= p2
  <2>1. SUFFICES ASSUME p2 < p PROVE FALSE
    BY <1>5, <1>6
  <2>2. p \in 1..L
    BY <1>2, <1>5, <1>6, <2>1
  <2>3. Less(key, s[p]) /\ Less(s[p], key) /\ s[p] \in Nodes
    BY <1>2, <1>9, <1>10, <2>1, <2>2
  <2> QED
    BY <2>3, LessIs
<1>12. p2 \in p..L
  BY <1>2, <1>5, <1>6, <1>11
<1>13. KeyRange(t, H, s, key, q, e, L, p, p2)
  BY <1>2, <1>5, <1>7, <1>8, <1>9, <1>10, <1>12 DEF KeyRange
<1> QED
  BY <1>13

\* erase(first, last)
LEMMA EraseRunShrinks ==
  ASSUME NEW t, NEW H, NEW s, Holding(t, H, s), NEW L, L = Len(s),
         NEW i \in 1..(L + 1), NEW j \in i..(L + 1), NEW first, first = At(s, L, i), NEW last, last = At(s, L, j)
  PROVE  Loses(s, EraseRun(t, first, last), i, j - i)
<1>1. Sound(t, H, s, L) /\ t.mnSize = L
  BY DEF Holding
<1>2. L \in Nat
  BY DEF Holding
<1>3. PICK u : u = EraseRun(t, first, last)
  OBVIOUS
<1>4. i \in 1..(L + 1) /\ j \in i..(L + 1) /\ first = At(s, L, i) /\ last = At(s, L, j)
  OBVIOUS
<1>5. j - i \in Nat /\ i + (j - i) <= L + 1
  BY <1>2
<1>6. WithoutRun(u, s, L, i, j - i)
  BY ONLY <1>1, <1>3, <1>4, EraseRunIs
<1>7. PICK G : Sound(u, G, CutRun(s, L, i, j - i), L - (j - i)) /\ u.mnSize = L - (j - i)
  BY <1>6 DEF WithoutRun
<1>8. /\ i \in 1..(Len(s) + 1) /\ j - i \in Nat /\ i + (j - i) <= Len(s) + 1
      /\ Sound(u, G, CutRun(s, Len(s), i, j - i), Len(s) - (j - i)) /\ u.mnSize = Len(s) - (j - i)
  BY <1>5, <1>7
<1>9. Holding(t, H, s)
  OBVIOUS
<1>10. Loses(s, u, i, j - i)
  BY ONLY <1>8, <1>9, CutShrinks
<1> QED
  BY <1>3, <1>10

\* erase(key)
LEMMA EraseEqualShrinks ==
  ASSUME NEW t, NEW H, NEW s, Holding(t, H, s), NEW n \in Nodes
  PROVE  Shrinks(s, EraseRun(t, lower_bound(t, n), upper_bound(t, n)))
<1>1. PICK L : L = Len(s)
  OBVIOUS
<1>2. Sound(t, H, s, L) /\ Ordered(s, L)
  BY <1>1 DEF Holding
<1>3. PICK q, e, p, p2 : KeyRange(t, H, s, n, q, e, L, p, p2)
  BY ONLY <1>2, n \in Nodes, KeyRangeExists
<1>4. L \in Nat /\ p \in 0..L /\ p2 \in p..L
  BY <1>3 DEF KeyRange
<1>5. PICK i, j, first, last :
         i = p + 1 /\ j = p2 + 1 /\ first = lower_bound(t, n) /\ last = upper_bound(t, n)
  OBVIOUS
<1>6. first = At(s, L, i) /\ last = At(s, L, j)
  BY <1>3, <1>5 DEF KeyRange
<1>7. i \in 1..(L + 1) /\ j \in i..(L + 1)
  BY <1>4, <1>5
<1>8. Holding(t, H, s)
  OBVIOUS
<1>9. Loses(s, EraseRun(t, first, last), i, j - i)
  BY ONLY <1>1, <1>6, <1>7, <1>8, EraseRunShrinks
<1> QED
  BY <1>5, <1>9 DEF Loses

\* n goes behind all those of its key, unless it was there.
GainsLast(t, H, s, u, n) ==
  IF n \in H THEN u = t ELSE \E k : Gains(s, u, n, k) /\ upper_bound(t, n) = At(s, Len(s), k)

\* n goes behind the hint, if it may be there, and else as without it.
GainsByHint(t, H, s, u, n, position) ==
  \/ \E i \in 1..Len(s) : /\ n \notin H /\ (position = s[i] \/ (position = mAnchor /\ i = Len(s)))
                          /\ MayFollow(s, Len(s), n, i) /\ Gains(s, u, n, i + 1)
  \/ u = DoInsertItem(t, n) /\ \A i \in 1..Len(s) : position = s[i] => ~MayFollow(s, Len(s), n, i)

\* insert(value) and insert(position, value)
LEMMA InsertGrows ==
  ASSUME NEW t, NEW H, NEW s, Holding(t, H, s), unique \in BOOLEAN, NEW n \in Nodes, unique \/ n \notin H
  PROVE  /\ GainsLast(t, H, s, DoInsertItem(t, n), n)
         /\ \A position \in H \cup {mAnchor} : GainsByHint(t, H, s, InsertByHint(t, position, n), n, position)
<1>1. Sound(t, H, s, Len(s)) /\ t.mnSize = Len(s) /\ Ordered(s, Len(s))
  BY DEF Holding
<1>2. Holding(t, H, s) /\ unique \in BOOLEAN /\ n \in Nodes /\ (unique \/ n \notin H)
  OBVIOUS
<1>3. ASSUME NEW u, NEW k, JoinsAt(u, H, s, Len(s), n, k) PROVE Gains(s, u, n, k) /\ n \notin H
  <2>1. Gains(s, u, n, k)
    BY ONLY <1>2, <1>3, JoinsAtGains
  <2> QED
    BY <1>3, <2>1 DEF JoinsAt
<1>4. GainsLast(t, H, s, DoInsertItem(t, n), n)
  <2>1. JoinsLast(t, DoInsertItem(t, n), H, s, Len(s), n)
    BY ONLY <1>1, <1>2, DoInsertItemIs
  <2> QED
    BY <1>3, <2>1, Zenon DEF JoinsLast, GainsLast
<1>5. ASSUME NEW position \in H \cup {mAnchor}
      PROVE  GainsByHint(t, H, s, InsertByHint(t, position, n), n, position)
  <2>1. JoinsByHint(t, InsertByHint(t, position, n), H, s, Len(s), n, position)
    BY ONLY <1>1, <1>2, <1>5, HintedIs
  <2> QED
    BY <1>3, <2>1, Zenon DEF JoinsByHint, GainsByHint
<1> QED
  BY <1>4, <1>5

\* Either way the items grow or stay as they are.
LEMMA GainsGrow ==
  ASSUME NEW t, NEW H, NEW s, NEW n, GainsLast(t, H, s, DoInsertItem(t, n), n), NEW position,
         NEW u, u = DoInsertItem(t, n) \/ GainsByHint(t, H, s, u, n, position)
  PROVE  u = t \/ Grows(s, u)
BY Zenon DEF GainsLast, GainsByHint, Gains

(* The inductive invariant: the tree is a red-black tree of what a walk       *)
(* through it meets.                                                         *)
TreeInv == unique \in BOOLEAN /\ \E H : Holding(tree, H, InOrder(tree))

LEMMA TreeInvHolds ==
  ASSUME TreeInv
  PROVE  Holding(tree, Held(tree), InOrder(tree)) /\ unique \in BOOLEAN
<1>1. PICK H : Holding(tree, H, InOrder(tree))
  BY DEF TreeInv
<1>2. PICK t, r, L : t = tree /\ r = InOrder(tree) /\ L = Len(r)
  OBVIOUS
<1>3. Sound(t, H, r, L) /\ t.mnSize = L /\ Ordered(r, L)
  BY <1>1, <1>2 DEF Holding
<1>4. Held(t) = H
  BY ONLY <1>3, HoldingIs
<1> QED
  BY <1>1, <1>2, <1>4 DEF TreeInv

LEMMA TreeBegins ==
  ASSUME TreeInit
  PROVE  TreeInv /\ Abstract!Init
<1>1. PICK t, r : t = Empty /\ r = [i \in 1..0 |-> 0]
  OBVIOUS
<1>2. Sound(t, {}, r, 0) /\ t.mnSize = 0
  <2>1. r \in [1..0 -> {}]
    BY <1>1
  <2> QED
    BY <1>1, <2>1, EmptyIsSound
<1>3. Ordered(r, 0)
  BY DEF Ordered
<1>4. Holding(t, {}, r) /\ InOrder(t) = r /\ Len(r) = 0
  BY ONLY <1>2, <1>3, HoldingIs
<1>5. r = <<>>
  <2>1. r \in Seq(Nodes)
    BY <1>4 DEF Holding
  <2> QED
    BY <1>4, <2>1
<1>6. tree = t /\ unique \in BOOLEAN
  BY <1>1 DEF TreeInit
<1> QED
  BY <1>4, <1>5, <1>6 DEF TreeInv, Abstract!Init

\* A step changes the items as an abstract step does, or not at all.
LEMMA TreeStep ==
  ASSUME TreeInv, TreeNext
  PROVE  /\ unique' = unique
         /\ tree' = tree \/ Shrinks(InOrder(tree), tree') \/ Grows(InOrder(tree), tree')
<1>1. PICK t, u, s, H : t = tree /\ u = tree' /\ s = InOrder(tree) /\ H = Held(tree)
  OBVIOUS
<1>2. Holding(t, H, s) /\ unique \in BOOLEAN
  BY <1>1, TreeInvHolds
<1>3. \A n \in Insertable : unique \/ n \notin H
  BY <1>1 DEF Insertable
<1>4. CASE \E n \in Nodes : Insert(n)
  <2>1. PICK n \in Nodes : Insert(n)
    BY <1>4
  <2>2. (unique \/ n \notin H) /\ u = DoInsertItem(t, n) /\ unique' = unique
    BY <1>1, <1>3, <2>1 DEF Insert
  <2>3. GainsLast(t, H, s, u, n)
    BY ONLY <1>2, <2>2, n \in Nodes, InsertGrows
  <2>4. u = t \/ Grows(s, u)
    BY <2>2, <2>3, GainsGrow
  <2> QED
    BY <1>1, <2>2, <2>4
<1>5. CASE \E n \in Nodes : EraseAt(n)
  <2>1. PICK n \in Nodes : EraseAt(n)
    BY <1>5
  <2>2. n \in H /\ u = EraseItem(t, n) /\ unique' = unique
    BY <1>1, <2>1 DEF EraseAt
  <2>3. Shrinks(s, u)
    <3>1. \E i \in 1..Len(s) : n = s[i] /\ Loses(s, u, i, 1)
      BY ONLY <1>2, <2>2, EraseItemShrinks
    <3> QED
      BY <3>1 DEF Loses
  <2> QED
    BY <1>1, <2>2, <2>3
<1>6. CASE \E n \in Nodes : EraseEqual(n)
  <2>1. PICK n \in Nodes : EraseEqual(n)
    BY <1>6
  <2>2. u = EraseRun(t, lower_bound(t, n), upper_bound(t, n)) /\ unique' = unique
    BY <1>1, <2>1 DEF EraseEqual
  <2>3. Shrinks(s, u)
    BY ONLY <1>2, <2>2, n \in Nodes, EraseEqualShrinks
  <2> QED
    BY <1>1, <2>2, <2>3
<1>7. CASE \E n \in Nodes : \E position \in Nodes \cup {mAnchor} : InsertHint(position, n)
  <2>1. PICK n \in Nodes, position \in Nodes \cup {mAnchor} : InsertHint(position, n)
    BY <1>7
  <2>2. (unique \/ n \notin H) /\ position \in H \cup {mAnchor} /\ unique' = unique
    BY <1>1, <1>3, <2>1 DEF InsertHint
  <2>3. u = InsertByHint(t, position, n)
    BY <1>1, <2>1, Zenon DEF InsertHint
  <2>4. GainsLast(t, H, s, DoInsertItem(t, n), n) /\ GainsByHint(t, H, s, u, n, position)
    BY ONLY <1>2, <2>2, <2>3, n \in Nodes, InsertGrows
  <2>5. u = t \/ Grows(s, u)
    BY <2>4, GainsGrow
  <2> QED
    BY <1>1, <2>2, <2>5
<1>8. CASE \E i, j \in 1..(Len(InOrder(tree)) + 1) : EraseRange(i, j)
  <2>1. PICK i, j \in 1..(Len(InOrder(tree)) + 1) : EraseRange(i, j)
    BY <1>8
  <2>2. PICK L, first, last : L = Len(s) /\ first = IteratorAt(s, i) /\ last = IteratorAt(s, j)
    OBVIOUS
  <2>3. i <= j /\ u = EraseRun(t, first, last) /\ unique' = unique
    BY <1>1, <2>1, <2>2 DEF EraseRange
  <2>4. L \in Nat
    BY <1>2, <2>2 DEF Holding
  <2>5. i \in 1..(L + 1) /\ j \in i..(L + 1)
    BY <1>1, <2>1, <2>2, <2>3, <2>4
  <2>6. first = At(s, L, i) /\ last = At(s, L, j)
    BY <2>2, <2>4, <2>5 DEF At, IteratorAt
  <2>7. L = Len(s)
    BY <2>2
  <2>8. Loses(s, u, i, j - i)
    BY ONLY <1>2, <2>3, <2>5, <2>6, <2>7, EraseRunShrinks
  <2> QED
    BY <1>1, <2>3, <2>8 DEF Loses
<1> QED
  BY <1>4, <1>5, <1>6, <1>7, <1>8 DEF TreeNext

LEMMA TreeInvKept ==
  ASSUME TreeInv, [TreeNext]_treeVars
  PROVE  TreeInv'
<1>1. unique' = unique
  BY TreeStep DEF treeVars
<1>2. unique' \in BOOLEAN
  BY <1>1 DEF TreeInv
<1>3. \E G : Holding(tree', G, InOrder(tree'))
  <2>1. CASE tree' = tree
    BY <2>1 DEF TreeInv
  <2>2. CASE tree' # tree
    <3>1. Shrinks(InOrder(tree), tree') \/ Grows(InOrder(tree), tree')
      BY <2>2, TreeStep DEF treeVars
    <3> QED
      BY <3>1 DEF Shrinks, Grows
  <2> QED
    BY <2>1, <2>2
<1>4. PICK G : Holding(tree', G, InOrder(tree'))
  BY <1>3
<1>5. /\ Sound(tree', G, InOrder(tree'), Len(InOrder(tree'))) /\ tree'.mnSize = Len(InOrder(tree'))
      /\ InOrder(tree') \in Seq(Nodes) /\ G \subseteq Nodes
      /\ \A i, j \in 1..Len(InOrder(tree')) : i < j => Precedes(InOrder(tree')[i], InOrder(tree')[j])
  BY <1>4 DEF Holding, Ordered
<1>6. \A m, n : Precedes(m, n)' <=> Precedes(m, n)
  BY <1>1 DEF Precedes, Less
<1>7. Ordered(InOrder(tree), Len(InOrder(tree)))'
  BY <1>5, <1>6 DEF Ordered
<1>8. Holding(tree, G, InOrder(tree))'
  BY <1>5, <1>7 DEF Holding
<1> QED
  BY <1>2, <1>8 DEF TreeInv

(* What is said of the tree follows.                                         *)
LEMMA Backwards == ASSUME TreeInv PROVE IterationReverses
<1>1. PICK t, H, s, L : t = tree /\ s = InOrder(tree) /\ L = Len(s) /\ Holding(t, H, s)
  BY DEF TreeInv
<1>2. PICK q, e, b : Arranged(t, H, s, q, e, b, L)
  BY <1>1 DEF Holding, Sound
<1>3. Walkable(t, H, s, q, e, L) /\ L \in Nat
  BY <1>2, ArrangedIsWalkable
<1>4. \A i \in 1..L : s[i] \in H /\ q[s[i]] = i
  <2>1. Listed(s, q, H, L)
    BY <1>3 DEF Walkable
  <2> QED
    BY ONLY <2>1, ListedNumbers
<1>5. ASSUME NEW i \in 1..L PROVE RBTreeDecrement(t, IF i = L THEN mAnchor ELSE s[i + 1]) = s[i]
  <2>1. CASE i = L
    <3>1. H # {}
      BY <1>4, <1>5
    <3>2. RBTreeDecrement(t, mAnchor) = s[L]
      BY ONLY <1>3, <3>1, DecrementAnchor
    <3> QED
      BY <2>1, <3>2
  <2>2. CASE i # L
    <3>1. i + 1 \in 1..L /\ (i + 1) - 1 = i /\ i + 1 > 1
      BY <1>3, <1>5, <2>2
    <3>2. PICK n : n = s[i + 1]
      OBVIOUS
    <3>3. n \in H /\ q[n] = i + 1 /\ q[n] > 1
      BY <1>4, <3>1, <3>2
    <3>4. RBTreeDecrement(t, n) = s[q[n] - 1]
      BY ONLY <1>3, <3>3, DecrementIs
    <3> QED
      BY <2>2, <3>1, <3>2, <3>3, <3>4
  <2> QED
    BY <2>1, <2>2
<1> QED
  BY <1>1, <1>5 DEF IterationReverses

\* The first item at one of the positions.
FirstIn(found) == CHOOSE i \in found : \A j \in found : i <= j
FirstOf(s, found) == IF found = {} THEN mAnchor ELSE s[FirstIn(found)]

LEMMA FirstIs ==
  ASSUME NEW s, NEW L \in Nat, NEW p \in 0..L, NEW p2 \in p..L, NEW found, found = {i \in 1..L : p < i /\ i <= p2}
  PROVE  FirstOf(s, found) = IF p < p2 THEN s[p + 1] ELSE mAnchor
<1>1. CASE p < p2
  <2>1. p + 1 \in found
    BY <1>1
  <2>2. \A j \in found : j \in Int /\ p + 1 <= j
    OBVIOUS
  <2>3. p + 1 = FirstIn(found)
    <3>1. PICK i : i = FirstIn(found)
      OBVIOUS
    <3>2. i \in found /\ \A j \in found : i <= j
      BY <2>1, <2>2, <3>1 DEF FirstIn
    <3>3. i = p + 1
      BY <2>1, <2>2, <3>2
    <3> QED
      BY <3>1, <3>3
  <2>4. found # {}
    BY <2>1
  <2> QED
    BY <1>1, <2>3, <2>4 DEF FirstOf
<1>2. CASE ~(p < p2)
  <2>1. found = {}
    BY <1>2
  <2> QED
    BY <1>2, <2>1 DEF FirstOf
<1> QED
  BY <1>1, <1>2

SearchAgrees(t, s, key) ==
  /\ lower_bound(t, key) = FirstOf(s, {i \in DOMAIN s : ~Less(s[i], key)})
  /\ upper_bound(t, key) = FirstOf(s, {i \in DOMAIN s : Less(key, s[i])})
  /\ find(t, key) = FirstOf(s, {i \in DOMAIN s : ~Less(key, s[i]) /\ ~Less(s[i], key)})

LEMMA SearchesAgreeWith ==
  ASSUME NEW t, NEW H, NEW s, Holding(t, H, s), NEW key \in Nodes
  PROVE  SearchAgrees(t, s, key)
<1>1. PICK L : L = Len(s)
  OBVIOUS
<1>2. Sound(t, H, s, L) /\ Ordered(s, L) /\ DOMAIN s = 1..L
  BY <1>1 DEF Holding
<1>3. PICK q, e, p, p2 : KeyRange(t, H, s, key, q, e, L, p, p2)
  BY ONLY <1>2, key \in Nodes, KeyRangeExists
<1>4. /\ L \in Nat /\ p \in 0..L /\ p2 \in p..L /\ H \subseteq Nodes
      /\ \A i \in 1..L : /\ s[i] \in H /\ (~Less(s[i], key) <=> p < i) /\ (Less(key, s[i]) <=> p2 < i)
  BY <1>3 DEF KeyRange
<1>5. lower_bound(t, key) = At(s, L, p + 1) /\ upper_bound(t, key) = At(s, L, p2 + 1)
  BY <1>3 DEF KeyRange
<1>6. ASSUME NEW pp \in {p, p2}, NEW found, found = {i \in 1..L : pp < i /\ i <= L}
      PROVE  FirstOf(s, found) = At(s, L, pp + 1)
  <2>1. pp \in 0..L /\ L \in pp..L /\ L \in Nat /\ (pp < L <=> pp + 1 \in 1..L)
    BY <1>4
  <2>2. FirstOf(s, found) = IF pp < L THEN s[pp + 1] ELSE mAnchor
    BY ONLY <1>6, <2>1, FirstIs
  <2> QED
    BY <2>1, <2>2 DEF At
<1>7. lower_bound(t, key) = FirstOf(s, {i \in DOMAIN s : ~Less(s[i], key)})
  <2>1. {i \in DOMAIN s : ~Less(s[i], key)} = {i \in 1..L : p < i /\ i <= L}
    BY <1>2, <1>4
  <2> QED
    BY <1>5, <1>6, <2>1
<1>8. upper_bound(t, key) = FirstOf(s, {i \in DOMAIN s : Less(key, s[i])})
  <2>1. {i \in DOMAIN s : Less(key, s[i])} = {i \in 1..L : p2 < i /\ i <= L}
    BY <1>2, <1>4
  <2> QED
    BY <1>5, <1>6, <2>1
<1>9. find(t, key) = FirstOf(s, {i \in DOMAIN s : ~Less(key, s[i]) /\ ~Less(s[i], key)})
  <2>1. PICK found : found = {i \in DOMAIN s : ~Less(key, s[i]) /\ ~Less(s[i], key)}
    OBVIOUS
  <2>2. found = {i \in 1..L : p < i /\ i <= p2}
    BY <1>2, <1>4, <2>1
  <2>3. FirstOf(s, found) = IF p < p2 THEN s[p + 1] ELSE mAnchor
    <3>1. L \in Nat /\ p \in 0..L /\ p2 \in p..L
      BY <1>4
    <3> QED
      BY ONLY <3>1, <2>2, FirstIs
  <2>4. PICK n : n = lower_bound(t, key)
    OBVIOUS
  <2>5. find(t, key) = IF n # mAnchor /\ ~Less(key, n) THEN n ELSE mAnchor
    BY <2>4 DEF find
  <2>6. n = At(s, L, p + 1)
    BY <1>5, <2>4
  <2>7. CASE p + 1 \in 1..L
    <3>1. n = s[p + 1] /\ n \in H
      BY <1>4, <2>6, <2>7 DEF At
    <3>2. n # mAnchor
      BY <1>4, <3>1, SpotsAreNumbers
    <3>3. Less(key, n) <=> p2 < p + 1
      BY <1>4, <2>7, <3>1
    <3>4. ~Less(key, n) <=> p < p2
      BY <1>4, <3>3
    <3> QED
      BY <2>1, <2>3, <2>5, <3>1, <3>2, <3>4
  <2>8. CASE p + 1 \notin 1..L
    <3>1. n = mAnchor /\ ~(p < p2)
      BY <1>4, <2>6, <2>8 DEF At
    <3> QED
      BY <2>1, <2>3, <2>5, <3>1
  <2> QED
    BY <2>7, <2>8
<1> QED
  BY <1>7, <1>8, <1>9 DEF SearchAgrees

LEMMA Searches == ASSUME TreeInv PROVE SearchesAgree
<1>1. \A key \in Nodes : SearchAgrees(tree, InOrder(tree), key)
  <2>1. PICK t, H, s : t = tree /\ s = InOrder(tree) /\ Holding(t, H, s)
    BY DEF TreeInv
  <2>2. \A key \in Nodes : SearchAgrees(t, s, key)
    BY ONLY <2>1, SearchesAgreeWith
  <2> QED
    BY <2>1, <2>2
<1> QED
  BY <1>1, Zenon DEF SearchesAgree, SearchAgrees, FirstOf, FirstIn

(* The calls do what they say.                                                *)
LEMMA ItemsDiffer ==
  ASSUME NEW t, NEW H, NEW s, Holding(t, H, s)
  PROVE  /\ Len(s) \in Nat /\ H \subseteq Nodes
         /\ \A i \in 1..Len(s) : s[i] \in H /\ s[i] # mAnchor
         /\ \A i, j \in 1..Len(s) : s[i] = s[j] => i = j
<1>1. PICK L : L = Len(s)
  OBVIOUS
<1>2. L \in Nat /\ Sound(t, H, s, L) /\ H \subseteq Nodes
  BY <1>1 DEF Holding
<1>3. PICK q, e, b : Arranged(t, H, s, q, e, b, L)
  BY <1>2 DEF Sound
<1>4. \A i \in 1..L : s[i] \in H /\ q[s[i]] = i
  <2>1. Listed(s, q, H, L)
    BY <1>3 DEF Arranged
  <2> QED
    BY ONLY <2>1, ListedNumbers
<1>5. mAnchor \notin H
  BY <1>2, SpotsAreNumbers
<1> QED
  BY <1>1, <1>2, <1>4, <1>5

\* What is asked of the erasures.
ErasesAsAsked(t, s, L) ==
  /\ \A i, j \in 1..(L + 1) :
       i <= j => InOrder(EraseRun(t, IteratorAt(s, i), IteratorAt(s, j))) = SubSeq(s, 1, i - 1) \o SubSeq(s, j, L)
  /\ \A i \in 1..L : InOrder(EraseItem(t, s[i])) = SubSeq(s, 1, i - 1) \o SubSeq(s, i + 1, L)

LEMMA ErasuresAre ==
  ASSUME NEW t, NEW H, NEW s, Holding(t, H, s), NEW L, L = Len(s)
  PROVE  ErasesAsAsked(t, s, L)
<1>1. /\ L \in Nat /\ H \subseteq Nodes
      /\ \A i \in 1..L : s[i] \in H /\ s[i] # mAnchor
      /\ \A i, j \in 1..L : s[i] = s[j] => i = j
  BY ItemsDiffer
<1>2. Holding(t, H, s) /\ L = Len(s)
  OBVIOUS
<1>3. ASSUME NEW i \in 1..(L + 1), NEW j \in 1..(L + 1), i <= j
      PROVE  InOrder(EraseRun(t, IteratorAt(s, i), IteratorAt(s, j))) = SubSeq(s, 1, i - 1) \o SubSeq(s, j, L)
  <2>1. PICK first, last : first = IteratorAt(s, i) /\ last = IteratorAt(s, j)
    OBVIOUS
  <2>2. j \in i..(L + 1) /\ ((i - 1) + (j - i)) + 1 = j
    BY <1>1, <1>3
  <2>3. first = At(s, L, i) /\ last = At(s, L, j)
    BY <1>1, <2>1 DEF At, IteratorAt
  <2>4. Loses(s, EraseRun(t, first, last), i, j - i)
    BY ONLY <1>2, <2>2, <2>3, i \in 1..(L + 1), EraseRunShrinks
  <2> QED
    BY <2>1, <2>2, <2>4 DEF Loses
<1>4. ASSUME NEW i \in 1..L
      PROVE  InOrder(EraseItem(t, s[i])) = SubSeq(s, 1, i - 1) \o SubSeq(s, i + 1, L)
  <2>1. PICK n : n = s[i] /\ n \in H
    BY <1>1
  <2>2. \E j \in 1..Len(s) : n = s[j] /\ Loses(s, EraseItem(t, n), j, 1)
    BY ONLY <1>2, <2>1, EraseItemShrinks
  <2>3. Loses(s, EraseItem(t, n), i, 1)
    BY <1>1, <2>1, <2>2
  <2>4. ((i - 1) + 1) + 1 = i + 1
    BY <1>1
  <2> QED
    BY <2>1, <2>3, <2>4 DEF Loses
<1> QED
  BY <1>3, <1>4 DEF ErasesAsAsked

\* An item that may be right behind the last one is put at the end.
LEMMA LastIsUpper ==
  ASSUME NEW t, NEW H, NEW s, Holding(t, H, s), NEW n \in Nodes, NEW L, L = Len(s), L \in 1..L, MayFollow(s, L, n, L)
  PROVE  upper_bound(t, n) = mAnchor
<1>1. /\ L \in Nat /\ H \subseteq Nodes /\ \A i \in 1..L : s[i] \in H
  BY ItemsDiffer
<1>2. Sound(t, H, s, L) /\ Ordered(s, L)
  BY DEF Holding
<1>3. PICK q, e, p, p2 : KeyRange(t, H, s, n, q, e, L, p, p2)
  BY ONLY <1>2, n \in Nodes, KeyRangeExists
<1>4. /\ p \in 0..L /\ p2 \in p..L /\ upper_bound(t, n) = At(s, L, p2 + 1)
      /\ \A i \in 1..L : Less(n, s[i]) <=> p2 < i
  BY <1>3 DEF KeyRange
<1>5. ~Less(n, s[L])
  <2>1. Precedes(s[L], n) /\ s[L] \in Nodes
    BY <1>1 DEF MayFollow
  <2> QED
    BY ONLY <2>1, n \in Nodes, PrecedesIs
<1>6. p2 = L
  BY <1>1, <1>4, <1>5
<1> QED
  BY <1>1, <1>4, <1>6 DEF At

\* What is asked of the insertion of n.
InsertsAsAsked(t, H, s, L, n) ==
  IF n \in H
  THEN \A position \in H \cup {mAnchor} : DoInsertItem(t, n) = t /\ InsertByHint(t, position, n) = t
  ELSE /\ \E i \in 1..(L + 1) :
            /\ IteratorAt(s, i) = upper_bound(t, n)
            /\ InOrder(DoInsertItem(t, n)) = SubSeq(s, 1, i - 1) \o <<n>> \o SubSeq(s, i, L)
            /\ InOrder(InsertByHint(t, mAnchor, n)) = SubSeq(s, 1, i - 1) \o <<n>> \o SubSeq(s, i, L)
       /\ \A i \in 1..L :
            IF ~Less(n, s[i]) /\ (i < L => ~Less(s[i + 1], n))
            THEN InOrder(InsertByHint(t, s[i], n)) = SubSeq(s, 1, (i + 1) - 1) \o <<n>> \o SubSeq(s, i + 1, L)
            ELSE InsertByHint(t, s[i], n) = DoInsertItem(t, n)

LEMMA InsertionsAre ==
  ASSUME NEW t, NEW H, NEW s, Holding(t, H, s), unique \in BOOLEAN, NEW n \in Nodes, unique \/ n \notin H,
         NEW L, L = Len(s)
  PROVE  InsertsAsAsked(t, H, s, L, n)
<1>1. /\ L \in Nat /\ H \subseteq Nodes
      /\ \A i \in 1..L : s[i] \in H /\ s[i] # mAnchor
      /\ \A i, j \in 1..L : s[i] = s[j] => i = j
  BY ItemsDiffer
<1>2. Holding(t, H, s) /\ unique \in BOOLEAN /\ (unique \/ n \notin H)
  OBVIOUS
<1>3. /\ GainsLast(t, H, s, DoInsertItem(t, n), n)
      /\ \A position \in H \cup {mAnchor} : GainsByHint(t, H, s, InsertByHint(t, position, n), n, position)
  BY ONLY <1>2, n \in Nodes, InsertGrows
<1>4. CASE n \in H
  <2>1. DoInsertItem(t, n) = t
    BY <1>3, <1>4 DEF GainsLast
  <2>2. ASSUME NEW position \in H \cup {mAnchor} PROVE InsertByHint(t, position, n) = t
    BY <1>3, <1>4, <2>1 DEF GainsByHint
  <2> QED
    BY <1>4, <2>1, <2>2 DEF InsertsAsAsked
<1>5. CASE n \notin H
  <2>1. PICK k : Gains(s, DoInsertItem(t, n), n, k) /\ upper_bound(t, n) = At(s, L, k)
    BY <1>3, <1>5 DEF GainsLast
  <2>2. k \in 1..(L + 1) /\ InOrder(DoInsertItem(t, n)) = SubSeq(s, 1, k - 1) \o <<n>> \o SubSeq(s, (k - 1) + 1, L)
    BY <2>1 DEF Gains
  <2>3. (k - 1) + 1 = k
    BY <1>1, <2>2
  <2>4. IteratorAt(s, k) = upper_bound(t, n)
    BY <1>1, <2>1, <2>2 DEF At, IteratorAt
  <2>5. InOrder(InsertByHint(t, mAnchor, n)) = SubSeq(s, 1, k - 1) \o <<n>> \o SubSeq(s, k, L)
    <3>1. PICK u : u = InsertByHint(t, mAnchor, n)
      OBVIOUS
    <3>2. GainsByHint(t, H, s, u, n, mAnchor)
      BY <1>3, <3>1
    <3>3. CASE u = DoInsertItem(t, n)
      BY <2>2, <2>3, <3>1, <3>3
    <3>4. CASE u # DoInsertItem(t, n)
      <4>1. PICK i \in 1..L : /\ mAnchor = s[i] \/ i = L
                              /\ MayFollow(s, L, n, i) /\ Gains(s, u, n, i + 1)
        BY <3>2, <3>4 DEF GainsByHint
      <4>2. i = L
        BY <1>1, <4>1
      <4>3. upper_bound(t, n) = mAnchor
        BY ONLY <1>2, <4>1, <4>2, n \in Nodes, L = Len(s), LastIsUpper
      <4>4. k = L + 1
        <5>1. ~(k \in 1..L)
          BY <1>1, <2>1, <4>3 DEF At
        <5> QED
          BY <1>1, <2>2, <5>1
      <4>5. Gains(s, u, n, k)
        BY <4>1, <4>2, <4>4
      <4> QED
        BY <2>3, <3>1, <4>5 DEF Gains
    <3> QED
      BY <3>3, <3>4
  <2>6. ASSUME NEW i \in 1..L
        PROVE  IF ~Less(n, s[i]) /\ (i < L => ~Less(s[i + 1], n))
               THEN InOrder(InsertByHint(t, s[i], n)) = SubSeq(s, 1, (i + 1) - 1) \o <<n>> \o SubSeq(s, i + 1, L)
               ELSE InsertByHint(t, s[i], n) = DoInsertItem(t, n)
    <3>1. PICK u, position : position = s[i] /\ u = InsertByHint(t, position, n) /\ position \in H
      BY <1>1
    <3>2. GainsByHint(t, H, s, u, n, position)
      BY <1>3, <3>1
    <3>3. ASSUME NEW m \in H PROVE (Precedes(m, n) <=> ~Less(n, m)) /\ (Precedes(n, m) <=> ~Less(m, n))
      <4>1. m \in Nodes /\ m # n
        BY <1>1, <1>5
      <4>2. /\ (Less(m, n) => ~Less(n, m)) /\ (Less(n, m) => ~Less(m, n))
            /\ (unique => Less(m, n) \/ Less(n, m) \/ m = n)
        BY ONLY <4>1, n \in Nodes, LessIs
      <4> QED
        BY <4>1, <4>2 DEF Precedes
    <3>4. MayFollow(s, L, n, i) <=> ~Less(n, s[i]) /\ (i < L => ~Less(s[i + 1], n))
      <4>1. s[i] \in H /\ (i < L => s[i + 1] \in H)
        BY <1>1
      <4> QED
        BY <3>3, <4>1 DEF MayFollow
    <3>5. CASE MayFollow(s, L, n, i)
      <4>1. ~(\A j \in 1..L : position = s[j] => ~MayFollow(s, L, n, j))
        BY <3>1, <3>5
      <4>2. PICK j \in 1..L : (position = s[j] \/ position = mAnchor) /\ Gains(s, u, n, j + 1)
        BY <3>2, <4>1 DEF GainsByHint
      <4>3. j = i
        BY <1>1, <3>1, <4>2
      <4>4. ((i + 1) - 1) + 1 = i + 1
        BY <1>1
      <4> QED
        BY <3>1, <3>4, <3>5, <4>2, <4>3, <4>4 DEF Gains
    <3>6. CASE ~MayFollow(s, L, n, i)
      <4>1. ASSUME NEW j \in 1..L, position = s[j] \/ position = mAnchor, MayFollow(s, L, n, j) PROVE FALSE
        BY <1>1, <3>1, <3>6, <4>1
      <4>2. u = DoInsertItem(t, n)
        BY <3>2, <4>1 DEF GainsByHint
      <4> QED
        BY <3>1, <3>4, <3>6, <4>2
    <3> QED
      BY <3>5, <3>6
  <2>7. InOrder(DoInsertItem(t, n)) = SubSeq(s, 1, k - 1) \o <<n>> \o SubSeq(s, k, L)
    BY <2>2, <2>3
  <2>8. \E i \in 1..(L + 1) :
          /\ IteratorAt(s, i) = upper_bound(t, n)
          /\ InOrder(DoInsertItem(t, n)) = SubSeq(s, 1, i - 1) \o <<n>> \o SubSeq(s, i, L)
          /\ InOrder(InsertByHint(t, mAnchor, n)) = SubSeq(s, 1, i - 1) \o <<n>> \o SubSeq(s, i, L)
    BY <2>2, <2>4, <2>5, <2>7
  <2> QED
    BY <1>5, <2>6, <2>8 DEF InsertsAsAsked
<1> QED
  BY <1>4, <1>5

LEMMA ChangesAre == ASSUME TreeInv PROVE ChangesAsAsked
<1>1. PICK t, H, s, L : t = tree /\ H = Held(tree) /\ s = InOrder(tree) /\ L = Len(s)
  OBVIOUS
<1>2. Holding(t, H, s) /\ unique \in BOOLEAN
  BY <1>1, TreeInvHolds
<1>3. L = Len(s)
  BY <1>1
<1>4. ErasesAsAsked(t, s, L)
  BY ONLY <1>2, <1>3, ErasuresAre
<1>5. ASSUME NEW n \in Insertable PROVE InsertsAsAsked(t, H, s, L, n)
  <2>1. n \in Nodes /\ (unique \/ n \notin H)
    BY <1>1 DEF Insertable
  <2> QED
    BY ONLY <1>2, <1>3, <2>1, InsertionsAre
<1> QED
  BY <1>1, <1>4, <1>5, Zenon DEF ChangesAsAsked, ErasesAsAsked, InsertsAsAsked

(* The black heights that validate() looks at are those of a red-black tree. *)
HeightsIn(t, f, m) ==
  {h + IF IsRed(t, m) THEN 0 ELSE 1 : h \in f[t.child["left"][m]] \cup f[t.child["right"][m]]}

HeightsOf(t, f) == f = [m \in Nodes \cup {NULL} |-> IF m = NULL THEN {0} ELSE HeightsIn(t, f, m)]

LEMMA OneHeight ==
  ASSUME NEW t, NEW f, NEW m, NEW h \in Nat, f[t.child["left"][m]] = {h}, f[t.child["right"][m]] = {h}
  PROVE  HeightsIn(t, f, m) = {h + Weight(t, m)}
<1>1. PICK w : w = IF IsRed(t, m) THEN 0 ELSE 1
  OBVIOUS
<1>2. f[t.child["left"][m]] \cup f[t.child["right"][m]] = {h}
  OBVIOUS
<1>3. HeightsIn(t, f, m) = {k + w : k \in {h}}
  BY <1>1, <1>2 DEF HeightsIn
<1>4. w = Weight(t, m)
  BY <1>1 DEF IsRed, Weight
<1> QED
  BY <1>3, <1>4

LEMMA HeightsExist ==
  ASSUME NEW t, NEW H, NEW q, NEW e, NEW L, Placed(t, H, q, e, L), Clean(t, H),
         NEW b, Heights(t, H, b, mAnchor, "left")
  PROVE  \E f : HeightsOf(t, f)
<1>1. H \subseteq Nodes /\ NULL \notin Nodes
  BY SpotsAreNumbers DEF Placed, Spots
<1>2. b[NULL] = 0 /\ \A x \in H \cup {NULL} : b[x] \in Nat
  BY DEF Heights
<1>3. PICK g : g = [m \in Nodes \cup {NULL} |-> IF m \in H \cup {NULL} THEN {b[m]} ELSE {1}]
  OBVIOUS
<1>4. "left" \in Sides /\ "right" \in Sides
  BY DEF Sides
<1>5. ASSUME NEW m \in Nodes PROVE g[m] = HeightsIn(t, g, m)
  <2>1. CASE m \in H
    <3>1. \A sd \in Sides : t.child[sd][m] \in H \cup {NULL}
      BY <2>1, ChildIsHeld
    <3>2. \A sd \in Sides : b[m] = b[t.child[sd][m]] + Weight(t, m)
      BY <1>1, <2>1, <3>1, NothingLacks
    <3>3. PICK c, d, w : c = b[t.child["left"][m]] /\ d = b[t.child["right"][m]] /\ w = Weight(t, m)
      OBVIOUS
    <3>4. c \in Nat /\ d \in Nat /\ w \in Nat
      BY <1>2, <1>4, <3>1, <3>3 DEF Weight
    <3>5. b[m] = c + w /\ b[m] = d + w
      BY <1>4, <3>2, <3>3
    <3>6. c = d
      BY <3>4, <3>5
    <3>7. g[t.child["left"][m]] = {c} /\ g[t.child["right"][m]] = {c}
      BY <1>1, <1>3, <1>4, <3>1, <3>3, <3>6
    <3>8. HeightsIn(t, g, m) = {c + w}
      BY <3>3, <3>4, <3>7, OneHeight
    <3>9. g[m] = {b[m]}
      BY <1>3, <2>1
    <3> QED
      BY <3>5, <3>8, <3>9
  <2>2. CASE m \notin H
    <3>1. Apart(t, m)
      BY <2>2 DEF Clean
    <3>2. t.child["left"][m] = NULL /\ t.child["right"][m] = NULL /\ Weight(t, m) = 1
      BY <1>4, <3>1 DEF Apart, Weight
    <3>3. g[NULL] = {0} /\ g[m] = {1}
      BY <1>1, <1>2, <1>3, <2>2
    <3>4. HeightsIn(t, g, m) = {0 + 1}
      BY <3>2, <3>3, OneHeight
    <3> QED
      BY <3>3, <3>4
  <2> QED
    BY <2>1, <2>2
<1>6. g[NULL] = {0}
  BY <1>2, <1>3
<1>7. \A m \in Nodes \cup {NULL} : g[m] = IF m = NULL THEN {0} ELSE HeightsIn(t, g, m)
  BY <1>5, <1>6
<1>8. g = [m \in Nodes \cup {NULL} |-> g[m]]
  BY <1>3
<1>9. g = [m \in Nodes \cup {NULL} |-> IF m = NULL THEN {0} ELSE HeightsIn(t, g, m)]
  BY <1>7, <1>8
<1> QED
  BY <1>9 DEF HeightsOf

LEMMA HeightsAre ==
  ASSUME NEW t, NEW H, NEW q, NEW e, NEW L, Placed(t, H, q, e, L),
         NEW b, Heights(t, H, b, mAnchor, "left"), NEW f, HeightsOf(t, f)
  PROVE  \A x \in H \cup {NULL} : f[x] = {b[x]}
<1>1. H \subseteq Nodes /\ NULL \notin Nodes
  BY SpotsAreNumbers DEF Placed, Spots
<1>2. b[NULL] = 0 /\ \A x \in H \cup {NULL} : b[x] \in Nat
  BY DEF Heights
<1>3. \A m \in Nodes \cup {NULL} : f[m] = IF m = NULL THEN {0} ELSE HeightsIn(t, f, m)
  BY Zenon DEF HeightsOf
<1>4. f[NULL] = {b[NULL]}
  BY <1>2, <1>3
<1>5. \A x \in H : Size(e, x) \in Nat
  <2>1. ASSUME NEW x \in H PROVE Size(e, x) \in Nat
    <3>1. /\ q[x] \in 1..L /\ e["left"][x] \in 1..L /\ e["right"][x] \in 1..L
          /\ e["left"][x] <= q[x] /\ q[x] <= e["right"][x]
      BY PlacesAreNumbers
    <3> QED
      BY <3>1 DEF Size
  <2> QED
    BY <2>1
<1> DEFINE I == {k \in Nat : \A x \in H : Size(e, x) < k => f[x] = {b[x]}}
<1>6. 0 \in I
  BY <1>5
<1>7. ASSUME NEW k \in Nat, k \in I PROVE k + 1 \in I
  <2>1. ASSUME NEW x \in H, Size(e, x) < k + 1 PROVE f[x] = {b[x]}
    <3>1. ASSUME NEW sd \in Sides PROVE f[t.child[sd][x]] = {b[t.child[sd][x]]} /\ b[x] = b[t.child[sd][x]] + Weight(t, x)
      <4>1. t.child[sd][x] \in H \cup {NULL}
        BY ChildIsHeld
      <4>2. b[x] = b[t.child[sd][x]] + Weight(t, x)
        BY <1>1, <4>1, NothingLacks
      <4>3. ASSUME t.child[sd][x] # NULL PROVE f[t.child[sd][x]] = {b[t.child[sd][x]]}
        <5>1. t.child[sd][x] \in H /\ Size(e, t.child[sd][x]) < Size(e, x)
          BY <4>3, ChildIsSmaller
        <5>2. Size(e, t.child[sd][x]) < k
          BY <1>5, <2>1, <5>1
        <5> QED
          BY <1>7, <5>1, <5>2
      <4> QED
        BY <1>4, <4>2, <4>3
    <3>2. "left" \in Sides /\ "right" \in Sides
      BY DEF Sides
    <3>3. PICK c, d, w : c = b[t.child["left"][x]] /\ d = b[t.child["right"][x]] /\ w = Weight(t, x)
      OBVIOUS
    <3>4. c \in Nat /\ d \in Nat /\ w \in Nat
      <4>1. \A sd \in Sides : t.child[sd][x] \in H \cup {NULL}
        BY ChildIsHeld
      <4> QED
        BY <1>2, <3>2, <3>3, <4>1 DEF Weight
    <3>5. b[x] = c + w /\ b[x] = d + w /\ f[t.child["left"][x]] = {c} /\ f[t.child["right"][x]] = {d}
      BY <3>1, <3>2, <3>3
    <3>6. c = d
      BY <3>4, <3>5
    <3>7. HeightsIn(t, f, x) = {c + w}
      BY <3>3, <3>4, <3>5, <3>6, OneHeight
    <3>8. f[x] = HeightsIn(t, f, x)
      BY <1>1, <1>3
    <3> QED
      BY <3>5, <3>7, <3>8
  <2> QED
    BY <2>1
<1>8. \A k \in Nat : k \in I
  <2> HIDE DEF I
  <2> QED
    BY <1>6, <1>7, SetInduction
<1>9. ASSUME NEW x \in H PROVE f[x] = {b[x]}
  <2>1. Size(e, x) + 1 \in I /\ Size(e, x) < Size(e, x) + 1
    BY <1>5, <1>8
  <2> QED
    BY <2>1
<1> QED
  BY <1>4, <1>9

LEMMA TreeIsValid == ASSUME TreeInv PROVE Valid
<1>1. PICK t, H, s, L : t = tree /\ s = InOrder(tree) /\ L = Len(s) /\ Holding(t, H, s)
  BY DEF TreeInv
<1>2. Sound(t, H, s, L) /\ t.mnSize = L /\ Ordered(s, L)
  BY <1>1 DEF Holding
<1>3. Held(t) = H
  BY ONLY <1>2, HoldingIs
<1>4. PICK q, e, b : Arranged(t, H, s, q, e, b, L)
  BY <1>2 DEF Sound
<1>5. /\ Placed(t, H, q, e, L) /\ Clean(t, H) /\ Heights(t, H, b, mAnchor, "left")
      /\ NoRedRed(t, H, NULL) /\ Root(t) \notin t.red
  BY <1>4 DEF Arranged
<1>6. ASSUME NEW n \in H, NEW sd \in Sides, t.child[sd][n] # NULL
      PROVE  t.parent[t.child[sd][n]] = n /\ ~(IsRed(t, n) /\ IsRed(t, t.child[sd][n]))
  <2>1. t.parent[t.child[sd][n]] = n
    BY <1>5, <1>6, ChildIsHeld
  <2>2. n # NULL
    BY <1>5, PlacesAreNumbers
  <2>3. Fine(t, n, t.child[sd][n], NULL)
    BY <1>5 DEF NoRedRed
  <2> QED
    BY <1>6, <2>1, <2>2, <2>3 DEF Fine, IsRed
<1>7. ~IsRed(t, Root(t)) /\ IsRed(t, mAnchor)
  BY <1>5 DEF IsRed, Clean
<1>8. \A h, k \in BlackHeights(t, Root(t)) : h = k
  <2>1. PICK f : f = CHOOSE w : HeightsOf(t, w)
    OBVIOUS
  <2>2. BlackHeights(t, Root(t)) = f[Root(t)]
    BY <2>1, Zenon DEF BlackHeights, HeightsOf, HeightsIn
  <2>3. HeightsOf(t, f)
    <3>1. \E g : HeightsOf(t, g)
      BY ONLY <1>5, HeightsExist
    <3> QED
      BY <2>1, <3>1, Zenon
  <2>4. \A x \in H \cup {NULL} : f[x] = {b[x]}
    BY ONLY <1>5, <2>3, HeightsAre
  <2>5. Root(t) \in H \cup {NULL}
    BY <1>5 DEF Placed
  <2> QED
    BY <2>2, <2>4, <2>5
<1> QED
  BY <1>1, <1>2, <1>3, <1>6, <1>7, <1>8 DEF Valid

-----------------------------------------------------------------------------
(* The theorems.                                                             *)

(* Whatever is inserted, with whatever hint, and whatever is erased, the tree *)
(* is a red-black tree of what a walk through it meets.                      *)
THEOREM TreeIsRedBlack == TreeSpec => []TreeInv
<1>1. TreeInit => TreeInv
  BY TreeBegins
<1>2. TreeInv /\ [TreeNext]_treeVars => TreeInv'
  BY TreeInvKept
<1> QED
  BY <1>1, <1>2, PTL DEF TreeSpec

(* After every sequence of insertions and erasures what validate() looks for  *)
(* holds, decrementing reverses incrementing, and the searches find what a   *)
(* walk through the items finds.                                             *)
THEOREM TreeIsSound == TreeSpec => []TreeSound
<1>1. TreeInv => TreeSound
  BY TreeIsValid, Backwards, Searches, ChangesAre DEF TreeSound
<1> QED
  BY <1>1, TreeIsRedBlack, PTL

(* An rbtree is a sorted sequence: every insertion and every erasure of the   *)
(* tree is a step of SortedItems on what a walk through it meets.            *)
THEOREM TreeImplementsSortedItems == TreeSpec => ImplementsSortedItems
<1>1. TreeInit => Abstract!Init
  BY TreeBegins
<1>2. TreeInv /\ [TreeNext]_treeVars => [Abstract!Next]_<<InOrder(tree), unique>>
  <2>1. SUFFICES ASSUME TreeInv, [TreeNext]_treeVars PROVE [Abstract!Next]_<<InOrder(tree), unique>>
    OBVIOUS
  <2>2. unique' = unique
    BY <2>1, TreeStep DEF treeVars
  <2>3. \/ tree' = tree \/ Shrinks(InOrder(tree), tree') \/ Grows(InOrder(tree), tree')
    BY <2>1, TreeStep DEF treeVars
  <2>4. CASE InOrder(tree') = InOrder(tree)
    BY <2>2, <2>4
  <2>5. CASE InOrder(tree') # InOrder(tree)
    <3>1. Abstract!Changes(InOrder(tree), InOrder(tree'))
      BY <2>3, <2>5, Zenon DEF Shrinks, Grows, Abstract!Changes
    <3> QED
      BY <2>2, <3>1 DEF Abstract!Next
  <2> QED
    BY <2>4, <2>5
<1> QED
  BY <1>1, <1>2, TreeIsRedBlack, PTL DEF TreeSpec, ImplementsSortedItems, Abstract!Spec
=============================================================================
