-------------------------- MODULE ContainerProofs ---------------------------
(* Proofs about the containers.                                              *)
(*                                                                           *)
(* Deque, for every size of a subarray, of the array of pointers and of the  *)
(* deque: the subarrays are those the elements need after every call, and    *)
(* every call does to the elements what it promises.  Layout is the inductive *)
(* part.  Effect says of a call, place by place, what the deque holds after   *)
(* it: each operation is shown to have one, and one lemma takes an effect to  *)
(* the contents.  Move is recursive over the number of elements, and what it  *)
(* does is proved by induction.                                              *)
(*                                                                           *)
(* Hashtable, for every number of items and every list of primes with         *)
(* PrimesSuffice: a table is sound and loses no item.  A list is Tidy when it *)
(* has no item twice and equal items next to each other; buckets are Placed   *)
(* when each is tidy and holds items of its hash; a table is Formed when its  *)
(* buckets are placed, its count is that of the items they hold, and the one  *)
(* bucket without memory is empty with mnNextResize 0.  Placed buckets have a *)
(* tidy walk (FlattenWalks), a tidy walk is dealt out to placed buckets       *)
(* (DistributedPlaced), and every call keeps a table formed (StepIsLegal),    *)
(* from which both properties follow.                                        *)
EXTENDS Deque, Hashtable, SequenceTheorems, FiniteSetTheorems, WellFoundedInduction, TLAPS

\* Induction over the numbers, for the functions that Move, FlattenSeq and
\* Distributed are defined by: a set with 0 and the successors of its members
\* holds every number, as the numbers without it have no least member.
LEMMA SetInduction ==
  ASSUME NEW S, 0 \in S, \A n \in Nat : n \in S => n + 1 \in S
  PROVE  \A n \in Nat : n \in S
<1> DEFINE R == {ss \in Nat \X Nat : ss[1] < ss[2]}
           T == Nat \ S
<1>1. SUFFICES ASSUME T # {} PROVE FALSE
  OBVIOUS
<1>2. \E x \in T : \A y \in T : ~(<<y, x>> \in R)
  <2>1. IsWellFoundedOn(R, Nat) BY NatLessThanWellFounded DEF OpToRel
  <2>2. T \subseteq Nat OBVIOUS
  <2> HIDE DEF R, T
  <2> QED BY <1>1, <2>1, <2>2, WFMin, Zenon
<1>3. PICK x \in T : \A y \in T : ~(<<y, x>> \in R) BY <1>2
<1>4. x # 0 /\ x \in Nat /\ x - 1 \in Nat OBVIOUS
<1>5. <<x - 1, x>> \in R BY <1>4
<1>6. x - 1 \in S BY <1>3, <1>4, <1>5
<1> QED BY <1>4, <1>6

LEMMA MaxOfTwo ==
  ASSUME NEW a \in Int, NEW b \in Int
  PROVE  Max({a, b}) = IF a <= b THEN b ELSE a
  BY DEF Max

-----------------------------------------------------------------------------
(* Deque.                                                                   *)

\* The first and the last place of a subarray.
FirstPlace(s) == s * SubarraySize
LastPlace(s) == s * SubarraySize + SubarraySize - 1

\* First places are multiples of the subarray size, in the order of their subarrays.
LEMMA Multiples ==
  ASSUME DequeAssumption, NEW a \in Int, NEW b \in Int
  PROVE  /\ FirstPlace(a) \in Int /\ FirstPlace(a + b) = FirstPlace(a) + FirstPlace(b)
         /\ FirstPlace(-a) = -FirstPlace(a) /\ FirstPlace(0) = 0
         /\ a <= b <=> FirstPlace(a) <= FirstPlace(b)
         /\ a < b <=> LastPlace(a) < FirstPlace(b)
  <1>1. FirstPlace(a) \in Int /\ FirstPlace(a + b) = FirstPlace(a) + FirstPlace(b) /\ FirstPlace(-a) = -FirstPlace(a) /\ FirstPlace(0) = 0
    BY DEF FirstPlace, DequeAssumption
  <1>2. a <= b <=> FirstPlace(a) <= FirstPlace(b)
    BY DEF FirstPlace, DequeAssumption
  <1>3. a < b <=> LastPlace(a) < FirstPlace(b)
    BY DEF FirstPlace, LastPlace, DequeAssumption
  <1> QED BY <1>1, <1>2, <1>3

\* The division by which an iterator finds its subarray and its cell in it.
LEMMA DivMod ==
  ASSUME DequeAssumption, NEW p \in Int
  PROVE  Slot(p) \in Int /\ Offset(p) \in 0..(SubarraySize - 1) /\ p = FirstPlace(Slot(p)) + Offset(p)
  BY DEF Slot, Offset, FirstPlace, DequeAssumption

\* A place between the first and the last one of a subarray is in that subarray.
LEMMA SlotUnique ==
  ASSUME DequeAssumption, NEW p \in Int, NEW s \in Int, FirstPlace(s) <= p, p <= LastPlace(s)
  PROVE  Slot(p) = s
  <1>1. Slot(p) \in Int /\ FirstPlace(Slot(p)) <= p /\ p <= LastPlace(Slot(p))
    BY DivMod DEF LastPlace, FirstPlace, DequeAssumption
  <1>2. ~(Slot(p) < s) BY <1>1, Multiples DEF FirstPlace, LastPlace, DequeAssumption
  <1>3. ~(s < Slot(p)) BY <1>1, Multiples DEF FirstPlace, LastPlace, DequeAssumption
  <1> QED BY <1>1, <1>2, <1>3

\* Neighbouring subarrays are an interval of places.
LEMMA PlacesOfSlots ==
  ASSUME DequeAssumption, NEW a \in Int, NEW b \in Int
  PROVE  PlacesOf(a..b) = FirstPlace(a)..LastPlace(b)
  <1>1. ASSUME NEW p \in PlacesOf(a..b) PROVE p \in FirstPlace(a)..LastPlace(b)
    <2>1. PICK s \in a..b, i \in 0..(SubarraySize - 1) : p = FirstPlace(s) + i
      BY <1>1 DEF PlacesOf, FirstPlace
    <2>2. FirstPlace(a) <= FirstPlace(s) /\ FirstPlace(s) <= FirstPlace(b) BY <2>1, Multiples
    <2> QED BY <2>1, <2>2, Multiples DEF LastPlace, FirstPlace, DequeAssumption
  <1>2. ASSUME NEW p \in FirstPlace(a)..LastPlace(b) PROVE p \in PlacesOf(a..b)
    <2>1. p \in Int /\ FirstPlace(a) <= p /\ p <= LastPlace(b) BY <1>2, Multiples DEF LastPlace, FirstPlace, DequeAssumption
    <2>2. Slot(p) \in Int /\ Offset(p) \in 0..(SubarraySize - 1) /\ p = FirstPlace(Slot(p)) + Offset(p) BY <2>1, DivMod
    <2>3. ~(Slot(p) < a) /\ ~(b < Slot(p)) BY <2>1, <2>2, Multiples DEF LastPlace, FirstPlace, DequeAssumption
    <2>4. Slot(p) \in a..b BY <2>2, <2>3
    <2> QED BY <2>2, <2>4 DEF PlacesOf, FirstPlace
  <1> QED BY <1>1, <1>2

\* g is the function that Move defines, as far as k.
Moves(cell, first, n, to, backward, k, g) ==
  LET step(j) == IF backward THEN n - j ELSE j - 1
  IN  g = [j \in 0..k |->
        IF j = 0 THEN cell
        ELSE [g[j - 1] EXCEPT ![to + step(j)] = g[j - 1][first + step(j)],
                              ![first + step(j)] = IF to = first THEN @ ELSE Moved]]

\* Move is the last value of a function that satisfies its recursion.
LEMMA MoveUnfolds ==
  ASSUME NEW cell, NEW first \in Int, NEW to \in Int, NEW n \in Nat, NEW backward \in BOOLEAN
  PROVE  \E f : Moves(cell, first, n, to, backward, n, f) /\ Move(cell, first, n, to, backward) = f[n]
<1> DEFINE S == {k \in Nat : \E g : Moves(cell, first, n, to, backward, k, g)}
<1>1. 0 \in S
  <2>1. Moves(cell, first, n, to, backward, 0, [j \in 0..0 |-> cell])
    BY DEF Moves
  <2> QED BY <2>1
<1>2. ASSUME NEW k \in Nat, k \in S PROVE k + 1 \in S
  <2>1. PICK g : Moves(cell, first, n, to, backward, k, g) BY <1>2
  <2> DEFINE step(j) == IF backward THEN n - j ELSE j - 1
             D(v, j) == [v EXCEPT ![to + step(j)] = v[first + step(j)],
                                  ![first + step(j)] = IF to = first THEN @ ELSE Moved]
             h == [j \in 0..(k + 1) |-> IF j = k + 1 THEN D(g[k], k + 1) ELSE g[j]]
  <2>2. g = [j \in 0..k |-> IF j = 0 THEN cell ELSE D(g[j - 1], j)]
    BY <2>1 DEF Moves
  <2>3. h = [j \in 0..(k + 1) |-> IF j = 0 THEN cell ELSE D(h[j - 1], j)]
    <3> HIDE DEF D
    <3>1. ASSUME NEW j \in 0..(k + 1) PROVE h[j] = IF j = 0 THEN cell ELSE D(h[j - 1], j)
      <4>1. CASE j = k + 1 
        <5>1. j # 0 /\ j - 1 = k /\ k \in 0..(k+1) /\ k # k + 1 BY <4>1
        <5>2. h[j] = D(g[k], k + 1) BY <4>1
        <5>3. h[k] = g[k] BY <5>1
        <5> QED BY <4>1, <5>1, <5>2, <5>3
      <4>2. CASE j # k + 1
        <5>1. j \in 0..k BY <4>2
        <5>2. h[j] = g[j] BY <4>2
        <5>3. j # 0 => j - 1 \in 0..k /\ j - 1 \in 0..(k+1) /\ j - 1 # k + 1 BY <5>1
        <5>4. j # 0 => h[j - 1] = g[j - 1] BY <5>3
        <5>5. g[j] = IF j = 0 THEN cell ELSE D(g[j - 1], j) BY <2>2, <5>1
        <5> QED BY <5>2, <5>4, <5>5
      <4> QED BY <4>1, <4>2
    <3>2. h = [j \in 0..(k + 1) |-> h[j]] OBVIOUS
    <3> HIDE DEF h
    <3> QED BY <3>1, <3>2
  <2>4. Moves(cell, first, n, to, backward, k + 1, h)
    <3> HIDE DEF h
    <3> QED BY <2>3 DEF Moves
  <2> HIDE DEF h
  <2> QED BY <2>4
<1>3. n \in S
  <2> HIDE DEF S
  <2> QED BY <1>1, <1>2, SetInduction
<1>4. \E g : Moves(cell, first, n, to, backward, n, g) BY <1>3
<1> DEFINE f == CHOOSE g : Moves(cell, first, n, to, backward, n, g)
<1>5. Moves(cell, first, n, to, backward, n, f) BY <1>4
<1>6. Move(cell, first, n, to, backward) = f[n] BY DEF Move, Moves
<1> QED BY <1>5, <1>6

\* cell after the n cells from first on have gone to the cells from to on.
AfterMove(cell, first, n, to) ==
  [p \in DOMAIN cell |->
     IF p \in to..(to + n - 1) THEN cell[p - to + first]
     ELSE IF p \in first..(first + n - 1) THEN Moved
     ELSE cell[p]]

\* The first element first is right when the elements move towards the front ...
LEMMA MoveForward ==
  ASSUME NEW cell, NEW first \in Int, NEW to \in Int, NEW n \in Nat,
         cell = [p \in DOMAIN cell |-> cell[p]],
         first..(first + n - 1) \subseteq DOMAIN cell, to..(to + n - 1) \subseteq DOMAIN cell,
         to <= first
  PROVE  Move(cell, first, n, to, FALSE) = AfterMove(cell, first, n, to)
<1>1. PICK f : Moves(cell, first, n, to, FALSE, n, f) /\ Move(cell, first, n, to, FALSE) = f[n]
  BY MoveUnfolds
<1> DEFINE S == {k \in Nat : k <= n => f[k] = AfterMove(cell, first, k, to)}
<1>2. 0 \in S
  BY <1>1 DEF Moves, AfterMove
<1>3. ASSUME NEW k \in Nat, k \in S PROVE k + 1 \in S
  <2>1. SUFFICES ASSUME k + 1 <= n PROVE f[k + 1] = AfterMove(cell, first, k + 1, to)
    OBVIOUS
  <2>2. f[k] = AfterMove(cell, first, k, to) /\ k \in 0..n /\ k + 1 \in 0..n
    BY <1>3, <2>1
  <2>3. f[k + 1] = [f[k] EXCEPT ![to + k] = f[k][first + k],
                                ![first + k] = IF to = first THEN @ ELSE Moved]
    <3>1. (k + 1) - 1 = k /\ k + 1 # 0
      OBVIOUS
    <3>2. f[k + 1] = [f[(k + 1) - 1] EXCEPT
            ![to + ((k + 1) - 1)] = f[(k + 1) - 1][first + ((k + 1) - 1)],
            ![first + ((k + 1) - 1)] = IF to = first THEN @ ELSE Moved]
      BY <1>1, <2>2, <3>1, Zenon DEF Moves
    <3> QED
      BY <3>1, <3>2
  <2>4. first + k \in DOMAIN cell /\ to + k \in DOMAIN cell
    BY <2>2
  <2> QED BY <2>2, <2>3, <2>4 DEF AfterMove
<1>4. n \in S
  <2> HIDE DEF S
  <2> QED BY <1>2, <1>3, SetInduction
<1>5. f[n] = AfterMove(cell, first, n, to)
  BY <1>4
<1> QED BY <1>1, <1>5

\* ... and the last element first when they move towards the back.
LEMMA MoveBackward ==
  ASSUME NEW cell, NEW first \in Int, NEW to \in Int, NEW n \in Nat,
         cell = [p \in DOMAIN cell |-> cell[p]],
         first..(first + n - 1) \subseteq DOMAIN cell, to..(to + n - 1) \subseteq DOMAIN cell,
         first <= to
  PROVE  Move(cell, first, n, to, TRUE) = AfterMove(cell, first, n, to)
<1>1. PICK f : Moves(cell, first, n, to, TRUE, n, f) /\ Move(cell, first, n, to, TRUE) = f[n]
  BY MoveUnfolds
<1> DEFINE S == {k \in Nat : k <= n => f[k] = AfterMove(cell, first + n - k, k, to + n - k)}
<1>2. 0 \in S
  BY <1>1 DEF Moves, AfterMove
<1>3. ASSUME NEW k \in Nat, k \in S PROVE k + 1 \in S
  <2>1. SUFFICES ASSUME k + 1 <= n
                 PROVE f[k + 1] = AfterMove(cell, first + n - (k + 1), k + 1, to + n - (k + 1))
    OBVIOUS
  <2>2. f[k] = AfterMove(cell, first + n - k, k, to + n - k) /\ k \in 0..n /\ k + 1 \in 0..n
    BY <1>3, <2>1
  <2>3. f[k + 1] = [f[k] EXCEPT ![to + (n - (k + 1))] = f[k][first + (n - (k + 1))],
                                ![first + (n - (k + 1))] = IF to = first THEN @ ELSE Moved]
    <3>1. (k + 1) - 1 = k /\ k + 1 # 0
      OBVIOUS
    <3>2. f[k + 1] = [f[(k + 1) - 1] EXCEPT
            ![to + (n - (k + 1))] = f[(k + 1) - 1][first + (n - (k + 1))],
            ![first + (n - (k + 1))] = IF to = first THEN @ ELSE Moved]
      BY <1>1, <2>2, <3>1, Zenon DEF Moves
    <3> QED
      BY <3>1, <3>2
  <2> DEFINE a == first + (n - (k + 1))
             b == to + (n - (k + 1))
  <2>4. a \in DOMAIN cell /\ b \in DOMAIN cell /\ a \in Int /\ b \in Int /\ a <= b
    BY <2>2
  <2>5. /\ first + n - k = a + 1 /\ to + n - k = b + 1
        /\ first + n - (k + 1) = a /\ to + n - (k + 1) = b
        /\ to = first <=> b = a
    OBVIOUS
  <2> HIDE DEF a, b
  <2>6. f[k] = AfterMove(cell, a + 1, k, b + 1)
    BY <2>2, <2>5
  <2>7. f[k + 1] = [f[k] EXCEPT ![b] = f[k][a], ![a] = IF b = a THEN @ ELSE Moved]
    BY <2>3, <2>5 DEF a, b
  <2>8. f[k + 1] = AfterMove(cell, a, k + 1, b)
    BY <2>4, <2>6, <2>7 DEF AfterMove
  <2> QED BY <2>5, <2>8
<1>4. n \in S
  <2> HIDE DEF S
  <2> QED BY <1>2, <1>3, SetInduction
<1>5. f[n] = AfterMove(cell, first + n - n, n, to + n - n)
  BY <1>4
<1>6. first + n - n = first /\ to + n - n = to
  OBVIOUS
<1> QED BY <1>1, <1>5, <1>6

-----------------------------------------------------------------------------

\* A deque is a record.
Fields(d) == d = [size |-> d.size, begin |-> d.begin, end |-> d.end, cell |-> d.cell]

\* The subarrays in use are those from begin to end, within the array of
\* pointers, and no cell outside the elements holds an object.
Layout(d) ==
  /\ Fields(d)
  /\ d.size \in Int /\ d.begin \in Int /\ d.end \in Int /\ d.begin <= d.end
  /\ 0 <= Slot(d.begin) /\ Slot(d.end) < d.size
  /\ d.cell = [p \in FirstPlace(Slot(d.begin))..LastPlace(Slot(d.end)) |-> d.cell[p]]
  /\ \A p \in DOMAIN d.cell : p \notin d.begin..(d.end - 1) => d.cell[p] = Raw

\* A place lies in its subarray.
LEMMA SlotBounds ==
  ASSUME DequeAssumption, NEW p \in Int
  PROVE  /\ Slot(p) \in Int /\ FirstPlace(Slot(p)) \in Int /\ LastPlace(Slot(p)) \in Int
         /\ FirstPlace(Slot(p)) <= p /\ p <= LastPlace(Slot(p))
<1>1. Slot(p) \in Int /\ Offset(p) \in 0..(SubarraySize - 1) /\ p = FirstPlace(Slot(p)) + Offset(p)
  BY DivMod
<1>2. FirstPlace(Slot(p)) \in Int /\ SubarraySize \in Int
  BY <1>1, Multiples DEF DequeAssumption
<1>3. LastPlace(Slot(p)) = FirstPlace(Slot(p)) + SubarraySize - 1
  BY DEF LastPlace, FirstPlace
<1> QED
  BY <1>1, <1>2, <1>3

\* Subarrays are ordered as their places are.
LEMMA SlotsInOrder ==
  ASSUME DequeAssumption, NEW p \in Int, NEW q \in Int, p <= q
  PROVE  /\ Slot(p) \in Int /\ Slot(q) \in Int /\ Slot(p) <= Slot(q)
         /\ FirstPlace(Slot(p)) \in Int /\ LastPlace(Slot(p)) \in Int
         /\ FirstPlace(Slot(p)) <= p /\ p <= LastPlace(Slot(p))
         /\ FirstPlace(Slot(p)) <= FirstPlace(Slot(q)) /\ LastPlace(Slot(p)) <= LastPlace(Slot(q))
<1>1. /\ Slot(p) \in Int /\ FirstPlace(Slot(p)) <= p /\ p <= LastPlace(Slot(p))
      /\ Slot(q) \in Int /\ FirstPlace(Slot(q)) <= q /\ q <= LastPlace(Slot(q))
  BY SlotBounds
<1>2. /\ FirstPlace(Slot(p)) \in Int /\ FirstPlace(Slot(q)) \in Int /\ SubarraySize \in Int
      /\ LastPlace(Slot(p)) \in Int
  BY SlotBounds DEF DequeAssumption
<1>3. ~(Slot(q) < Slot(p))
  BY <1>1, <1>2, Multiples DEF LastPlace, FirstPlace
<1>4. Slot(p) <= Slot(q)
  BY <1>1, <1>3
<1>5. FirstPlace(Slot(p)) <= FirstPlace(Slot(q))
  BY <1>1, <1>4, Multiples
<1> QED
  BY <1>1, <1>2, <1>4, <1>5 DEF LastPlace, FirstPlace

\* A shift of the pointers shifts the subarrays.
LEMMA SlotShifted ==
  ASSUME DequeAssumption, NEW p \in Int, NEW k \in Int
  PROVE  Slot(p + FirstPlace(k)) = Slot(p) + k /\ FirstPlace(k) \in Int
<1>1. Slot(p) \in Int /\ FirstPlace(Slot(p)) <= p /\ p <= LastPlace(Slot(p)) /\ FirstPlace(k) \in Int
  BY SlotsInOrder, Multiples
<1>2. FirstPlace(Slot(p) + k) = FirstPlace(Slot(p)) + FirstPlace(k)
  BY <1>1, Multiples
<1>3. LastPlace(Slot(p) + k) = LastPlace(Slot(p)) + FirstPlace(k)
  BY <1>1, <1>2 DEF LastPlace, FirstPlace, DequeAssumption
<1>4. FirstPlace(Slot(p)) \in Int /\ LastPlace(Slot(p)) \in Int
  BY SlotsInOrder
<1> QED
  BY <1>1, <1>2, <1>3, <1>4, SlotUnique

\* Moving the pointers (DoReallocPtrArray) moves the deque with them.
LEMMA ShiftKeepsLayout ==
  ASSUME DequeAssumption, NEW d, Layout(d), NEW k \in Int, NEW size \in Int,
         0 <= Slot(d.begin) + k, Slot(d.end) + k < size
  PROVE  /\ Layout(Shift(d, k, size)) /\ Shift(d, k, size).size = size
         /\ Shift(d, k, size).begin = d.begin + FirstPlace(k) /\ Shift(d, k, size).end = d.end + FirstPlace(k)
         /\ Slot(Shift(d, k, size).begin) = Slot(d.begin) + k
         /\ Slot(Shift(d, k, size).end) = Slot(d.end) + k
         /\ \A p \in d.begin..(d.end - 1) : Shift(d, k, size).cell[p + FirstPlace(k)] = d.cell[p]
<1> DEFINE e == Shift(d, k, size)
           lo == FirstPlace(Slot(d.begin))
           hi == LastPlace(Slot(d.end))
           by == FirstPlace(k)
<1>1. d.begin \in Int /\ d.end \in Int /\ d.begin <= d.end /\ by \in Int /\ lo \in Int /\ hi \in Int
      /\ lo <= d.begin /\ d.end <= hi
  <2>1. d.begin \in Int /\ d.end \in Int /\ d.begin <= d.end
    BY DEF Layout
  <2> QED
    BY <2>1, SlotBounds, Multiples
<1>2. Slot(d.begin + by) = Slot(d.begin) + k /\ Slot(d.end + by) = Slot(d.end) + k
  BY <1>1, SlotShifted
<1>3. FirstPlace(Slot(d.begin) + k) = lo + by /\ LastPlace(Slot(d.end) + k) = hi + by
  <2>1. Slot(d.begin) \in Int /\ Slot(d.end) \in Int
    BY <1>1, SlotBounds
  <2>2. FirstPlace(Slot(d.begin) + k) = FirstPlace(Slot(d.begin)) + FirstPlace(k)
        /\ FirstPlace(Slot(d.end) + k) = FirstPlace(Slot(d.end)) + FirstPlace(k)
        /\ FirstPlace(Slot(d.end)) \in Int /\ FirstPlace(k) \in Int
    BY <2>1, Multiples
  <2>3. LastPlace(Slot(d.end) + k) = FirstPlace(Slot(d.end) + k) + SubarraySize - 1
        /\ LastPlace(Slot(d.end)) = FirstPlace(Slot(d.end)) + SubarraySize - 1
    BY DEF LastPlace, FirstPlace
  <2> QED
    BY <2>2, <2>3 DEF DequeAssumption
<1>4. e = [size |-> size, begin |-> d.begin + by, end |-> d.end + by,
           cell |-> [p \in {q + by : q \in lo..hi} |-> d.cell[p - by]]]
  BY DEF Shift, Layout, FirstPlace
<1>5. {q + by : q \in lo..hi} = (lo + by)..(hi + by)
  <2>1. ASSUME NEW p \in (lo + by)..(hi + by) PROVE p \in {q + by : q \in lo..hi}
    <3>1. p - by \in lo..hi /\ p = (p - by) + by
      BY <1>1
    <3> QED BY <3>1
  <2> QED BY <1>1, <2>1
<1> HIDE DEF lo, hi, by, e
<1>6. Fields(e) /\ e.size = size /\ e.begin = d.begin + by /\ e.end = d.end + by
      /\ e.cell = [p \in (lo + by)..(hi + by) |-> d.cell[p - by]]
  BY <1>4, <1>5 DEF Fields
<1>7. \A p \in DOMAIN e.cell : p \notin e.begin..(e.end - 1) => e.cell[p] = Raw
  <2>1. \A q \in lo..hi : q \notin d.begin..(d.end - 1) => d.cell[q] = Raw
    BY DEF Layout, lo, hi
  <2>2. \A p \in (lo + by)..(hi + by) : p - by \in lo..hi /\
          (p \notin e.begin..(e.end - 1) => p - by \notin d.begin..(d.end - 1))
    BY <1>1, <1>6, SMTT(30)
  <2> QED
    BY <1>6, <2>1, <2>2
<1>8. \A p \in d.begin..(d.end - 1) : e.cell[p + by] = d.cell[p]
  BY <1>1, <1>6, SMTT(30)
<1>9. Layout(e)
  <2>1. FirstPlace(Slot(e.begin)) = lo + by /\ LastPlace(Slot(e.end)) = hi + by
    BY <1>2, <1>3, <1>6
  <2>2. e.cell = [p \in FirstPlace(Slot(e.begin))..LastPlace(Slot(e.end)) |-> e.cell[p]]
    BY <2>1, <1>6
  <2>3. 0 <= Slot(e.begin) /\ Slot(e.end) < e.size
    BY <1>2, <1>6
  <2>4. e.size \in Int /\ e.begin \in Int /\ e.end \in Int /\ e.begin <= e.end
    BY <1>1, <1>6
  <2> QED
    BY <1>6, <1>7, <2>2, <2>3, <2>4 DEF Layout
<1> QED
  BY <1>2, <1>6, <1>8, <1>9 DEF e, by

\* The subarray of a place given by a subarray and a distance.
LEMMA SlotOfSum ==
  ASSUME DequeAssumption, NEW s \in Int, NEW x \in Int
  PROVE  /\ Slot(FirstPlace(s) + x) = s + Slot(x)
         /\ Slot(-x) = -Slot(x + SubarraySize - 1)
<1>1. /\ Slot(x) \in Int /\ FirstPlace(Slot(x)) \in Int /\ FirstPlace(s) \in Int
      /\ FirstPlace(Slot(x)) <= x /\ x <= LastPlace(Slot(x))
      /\ FirstPlace(s + Slot(x)) = FirstPlace(s) + FirstPlace(Slot(x))
  BY SlotBounds, Multiples
<1>2. SubarraySize \in Int /\ \A t : LastPlace(t) = FirstPlace(t) + SubarraySize - 1
  BY DEF LastPlace, FirstPlace, DequeAssumption
<1>3. FirstPlace(s + Slot(x)) <= FirstPlace(s) + x /\ FirstPlace(s) + x <= LastPlace(s + Slot(x))
  BY <1>1, <1>2
<1>4. Slot(FirstPlace(s) + x) = s + Slot(x)
  BY <1>1, <1>3, SlotUnique
<1> DEFINE y == x + SubarraySize - 1
<1>5. y \in Int /\ Slot(y) \in Int /\ -Slot(y) \in Int /\ FirstPlace(Slot(y)) \in Int
      /\ FirstPlace(Slot(y)) <= y /\ y <= LastPlace(Slot(y))
      /\ FirstPlace(-Slot(y)) = -FirstPlace(Slot(y))
  BY <1>2, SlotBounds, Multiples
<1>6. FirstPlace(-Slot(y)) <= -x /\ -x <= LastPlace(-Slot(y))
  BY <1>2, <1>5
<1>7. Slot(-x) = -Slot(y)
  BY <1>5, <1>6, SlotUnique
<1> QED
  BY <1>4, <1>7

\* DoReallocPtrArray is a shift that leaves n pointers free on the side asked for.
LEMMA PtrArrayHasRoom ==
  ASSUME DequeAssumption, NEW d, Layout(d), NEW n \in Nat \ {0}, NEW side \in {"front", "back"}
  PROVE  \E k, size \in Int :
           /\ DoReallocPtrArray(d, n, side) = Shift(d, k, size)
           /\ 0 <= Slot(d.begin) + k /\ Slot(d.end) + k < size
           /\ IF side = "front" THEN n <= k ELSE d.size + k + n <= size
<1> DEFINE front == Slot(d.begin)
           back == d.size - 1 - Slot(d.end)
<1>1. front \in Nat /\ back \in Nat /\ d.size \in Int /\ Slot(d.end) \in Int /\ front <= Slot(d.end)
  <2>1. d.begin \in Int /\ d.end \in Int /\ d.begin <= d.end /\ d.size \in Int
        /\ 0 <= front /\ Slot(d.end) < d.size
    BY DEF Layout
  <2>2. front \in Int /\ Slot(d.end) \in Int /\ front <= Slot(d.end)
    BY <2>1, SlotsInOrder
  <2> QED
    BY <2>1, <2>2
<1>2. CASE side = "back" /\ n <= front
  <2> DEFINE k == -Max({n, front \div 2})
  <2>1. front \div 2 \in Int /\ front \div 2 <= front
    BY <1>1
  <2>2. k \in Int /\ -k >= n /\ -k <= front
    BY <1>1, <1>2, <2>1, MaxOfTwo
  <2>3. DoReallocPtrArray(d, n, side) = Shift(d, k, d.size)
    BY <1>2 DEF DoReallocPtrArray
  <2> HIDE DEF k
  <2> QED
    BY <1>1, <1>2, <2>2, <2>3
<1>3. CASE side = "front" /\ n <= back
  <2> DEFINE k == Max({n, back \div 2})
  <2>1. back \div 2 \in Int /\ back \div 2 <= back
    BY <1>1
  <2>2. k \in Int /\ k >= n /\ k <= back
    BY <1>1, <1>3, <2>1, MaxOfTwo
  <2>3. DoReallocPtrArray(d, n, side) = Shift(d, k, d.size)
    BY <1>3 DEF DoReallocPtrArray
  <2> HIDE DEF k
  <2> QED
    BY <1>1, <1>3, <2>2, <2>3
<1>4. CASE ~(side = "back" /\ n <= front) /\ ~(side = "front" /\ n <= back)
  <2> DEFINE k == IF side = "front" THEN n ELSE 0
             size == d.size + Max({d.size, n}) + 2
  <2>1. k \in Int /\ size \in Int /\ size >= d.size + n
    BY <1>1, MaxOfTwo
  <2>2. DoReallocPtrArray(d, n, side) = Shift(d, k, size)
    BY <1>4 DEF DoReallocPtrArray
  <2> HIDE DEF size
  <2> QED
    BY <1>1, <1>4, <2>1, <2>2
<1> QED
  BY <1>2, <1>3, <1>4

\* e is d with places for f more elements in front and b more behind.
Room(d, e, f, b) ==
  /\ Fields(e)
  /\ e.size \in Int /\ e.begin \in Int /\ e.end \in Int /\ e.end - e.begin = d.end - d.begin
  /\ 0 <= Slot(e.begin - f) /\ Slot(e.end + b) < e.size
  /\ e.cell = [p \in FirstPlace(Slot(e.begin - f))..LastPlace(Slot(e.end + b)) |->
                 IF p \in e.begin..(e.end - 1) THEN d.cell[p - e.begin + d.begin] ELSE Raw]

\* DoReallocSubarray has the pointers it needs, reallocated or not.
LEMMA PointersSuffice ==
  ASSUME DequeAssumption, NEW d, Layout(d), NEW more \in Nat, NEW side \in {"front", "back"},
         NEW have, have = IF side = "front" THEN Slot(d.begin) ELSE d.size - Slot(d.end) - 1,
         NEW e, e = IF more > have THEN DoReallocPtrArray(d, more - have, side) ELSE d
  PROVE  \E k \in Int :
           /\ Layout(e) /\ e.begin = d.begin + FirstPlace(k) /\ e.end = d.end + FirstPlace(k)
           /\ Slot(e.begin) = Slot(d.begin) + k /\ Slot(e.end) = Slot(d.end) + k
           /\ IF side = "front" THEN more <= Slot(e.begin) ELSE Slot(e.end) + more < e.size
           /\ \A p \in e.begin..(e.end - 1) : e.cell[p] = d.cell[p - e.begin + d.begin]
<1> DEFINE Good(k) ==
             /\ Layout(e) /\ e.begin = d.begin + FirstPlace(k) /\ e.end = d.end + FirstPlace(k)
             /\ Slot(e.begin) = Slot(d.begin) + k /\ Slot(e.end) = Slot(d.end) + k
             /\ IF side = "front" THEN more <= Slot(e.begin) ELSE Slot(e.end) + more < e.size
             /\ \A p \in e.begin..(e.end - 1) : e.cell[p] = d.cell[p - e.begin + d.begin]
<1>1. /\ d.begin \in Int /\ d.end \in Int /\ d.size \in Int /\ Slot(d.begin) \in Int /\ Slot(d.end) \in Int
      /\ 0 <= Slot(d.begin) /\ Slot(d.end) < d.size
  <2>1. d.begin \in Int /\ d.end \in Int /\ d.size \in Int /\ 0 <= Slot(d.begin) /\ Slot(d.end) < d.size
    BY DEF Layout
  <2> QED
    BY <2>1, SlotBounds
<1>2. have \in Nat
  BY <1>1
<1>3. ASSUME ~(more > have) PROVE \E k \in Int : Good(k)
  <2>11. e = d
    BY <1>3, Zenon
  <2>12. FirstPlace(0) = 0
    BY Multiples
  <2>1. e = d /\ FirstPlace(0) = 0
    BY <2>11, <2>12
  <2>2. \A p \in d.begin..(d.end - 1) : p - d.begin + d.begin = p
    BY <1>1
  <2>3. IF side = "front" THEN more <= Slot(e.begin) ELSE Slot(e.end) + more < e.size
    BY <1>1, <1>2, <1>3, <2>1
  <2>4. /\ Slot(e.begin) = Slot(d.begin) + 0 /\ Slot(e.end) = Slot(d.end) + 0
        /\ e.begin = d.begin + FirstPlace(0) /\ e.end = d.end + FirstPlace(0)
    BY <1>1, <2>1
  <2>5. Good(0)
    BY <2>1, <2>2, <2>3, <2>4
  <2> HIDE DEF Good
  <2> QED
    BY <2>5
<1>4. ASSUME more > have PROVE \E k \in Int : Good(k)
  <2>1. more - have \in Nat \ {0}
    BY <1>2, <1>4
  <2>2. PICK k, size \in Int :
          /\ DoReallocPtrArray(d, more - have, side) = Shift(d, k, size)
          /\ 0 <= Slot(d.begin) + k /\ Slot(d.end) + k < size
          /\ IF side = "front" THEN more - have <= k ELSE d.size + k + (more - have) <= size
    BY <2>1, PtrArrayHasRoom
  <2>3. e = Shift(d, k, size)
    BY <1>4, <2>2
  <2>4. /\ Layout(e) /\ e.size = size
        /\ e.begin = d.begin + FirstPlace(k) /\ e.end = d.end + FirstPlace(k)
        /\ Slot(e.begin) = Slot(d.begin) + k /\ Slot(e.end) = Slot(d.end) + k
        /\ \A p \in d.begin..(d.end - 1) : e.cell[p + FirstPlace(k)] = d.cell[p]
    BY <2>2, <2>3, ShiftKeepsLayout
  <2>5. IF side = "front" THEN more <= Slot(e.begin) ELSE Slot(e.end) + more < e.size
    BY <1>1, <1>2, <2>2, <2>4
  <2>6. ASSUME NEW p \in e.begin..(e.end - 1) PROVE e.cell[p] = d.cell[p - e.begin + d.begin]
    <3>1. FirstPlace(k) \in Int
      BY Multiples
    <3>2. p - FirstPlace(k) \in d.begin..(d.end - 1) /\ p - FirstPlace(k) + FirstPlace(k) = p
          /\ p - FirstPlace(k) = p - e.begin + d.begin
      BY <1>1, <2>4, <3>1
    <3> QED
      BY <2>4, <3>2
  <2>7. Good(k)
    BY <2>4, <2>5, <2>6
  <2> HIDE DEF Good
  <2> QED
    BY <2>7
<1> QED
  BY <1>3, <1>4

\* The new subarrays are next to the old ones.
LEMMA AllocateMakesRoom ==
  ASSUME DequeAssumption, NEW d, NEW e, Layout(e), NEW f \in Nat, NEW b \in Nat, NEW slots,
         e.begin - d.begin \in Int, e.end - e.begin = d.end - d.begin,
         \A p \in e.begin..(e.end - 1) : e.cell[p] = d.cell[p - e.begin + d.begin],
         0 <= Slot(e.begin - f), Slot(e.end + b) < e.size,
         PlacesOf(slots) = (FirstPlace(Slot(e.begin - f))..LastPlace(Slot(e.end + b)))
                             \ (FirstPlace(Slot(e.begin))..LastPlace(Slot(e.end)))
  PROVE  Room(d, Allocate(e, slots), f, b)
<1> DEFINE lo == FirstPlace(Slot(e.begin))
           hi == LastPlace(Slot(e.end))
           low == FirstPlace(Slot(e.begin - f))
           high == LastPlace(Slot(e.end + b))
           r == Allocate(e, slots)
<1>1. /\ Fields(e) /\ e.begin \in Int /\ e.end \in Int /\ e.begin <= e.end /\ e.size \in Int
      /\ e.cell = [p \in lo..hi |-> e.cell[p]]
      /\ \A p \in lo..hi : p \notin e.begin..(e.end - 1) => e.cell[p] = Raw
  BY DEF Layout
<1>2. /\ e.begin - f \in Int /\ e.end + b \in Int /\ e.begin - f <= e.begin /\ e.end <= e.end + b
  BY <1>1
<1>3. /\ lo \in Int /\ hi \in Int /\ low \in Int /\ high \in Int
      /\ low <= lo /\ lo <= e.begin /\ e.end <= hi /\ hi <= high
  BY <1>1, <1>2, SlotBounds, SlotsInOrder
<1>4. r = [e EXCEPT !.cell = Fill(@, (low..high) \ (lo..hi), Raw)]
  BY DEF Allocate
<1>5. Fill(e.cell, (low..high) \ (lo..hi), Raw)
       = [p \in low..high |-> IF p \in e.begin..(e.end - 1) THEN d.cell[p - e.begin + d.begin] ELSE Raw]
  <2> HIDE DEF lo, hi, low, high
  <2>1. DOMAIN e.cell = lo..hi
    BY <1>1
  <2>2. ((low..high) \ (lo..hi)) \cup (lo..hi) = low..high
    BY <1>3
  <2>3. \A p \in (low..high) \ (lo..hi) : p \notin e.begin..(e.end - 1)
    BY <1>1, <1>3
  <2>4. Fill(e.cell, (low..high) \ (lo..hi), Raw)
         = [p \in ((low..high) \ (lo..hi)) \cup (lo..hi) |->
              IF p \in (low..high) \ (lo..hi) THEN Raw ELSE e.cell[p]]
    BY <2>1 DEF Fill
  <2>5. \A p \in low..high : (p \in (low..high) \ (lo..hi)) \/ (p \in lo..hi /\ p \notin (low..high) \ (lo..hi))
    OBVIOUS
  <2>6. \A p \in low..high :
          (IF p \in (low..high) \ (lo..hi) THEN Raw ELSE e.cell[p])
            = (IF p \in e.begin..(e.end - 1) THEN d.cell[p - e.begin + d.begin] ELSE Raw)
    BY <1>1, <2>3, <2>5
  <2> QED
    BY <2>2, <2>4, <2>6
<1>6. r = [size |-> e.size, begin |-> e.begin, end |-> e.end,
           cell |-> [p \in low..high |->
                       IF p \in e.begin..(e.end - 1) THEN d.cell[p - e.begin + d.begin] ELSE Raw]]
  <2> HIDE DEF lo, hi, low, high, r
  <2> QED
    BY <1>1, <1>4, <1>5 DEF Fields
<1> HIDE DEF r
<1>7. /\ r.size = e.size /\ r.begin = e.begin /\ r.end = e.end
      /\ r.cell = [p \in low..high |->
                     IF p \in e.begin..(e.end - 1) THEN d.cell[p - e.begin + d.begin] ELSE Raw]
  BY <1>6
<1>8. Fields(r)
  BY <1>6, <1>7, Zenon DEF Fields
<1>9. Room(d, r, f, b)
  BY <1>1, <1>7, <1>8 DEF Room
<1> QED
  BY <1>9 DEF r

\* DoReallocSubarray at the back: places for n elements behind the last one.
LEMMA RoomBehind ==
  ASSUME DequeAssumption, NEW d, Layout(d), NEW n \in Nat
  PROVE  Room(d, DoReallocSubarray(d, n, "back"), 0, n)
<1> DEFINE room == SubarraySize - 1 - Offset(d.end)
           more == IF room < n THEN (n - room + SubarraySize - 1) \div SubarraySize ELSE 0
           have == d.size - Slot(d.end) - 1
           e == IF more > have THEN DoReallocPtrArray(d, more - have, "back") ELSE d
<1>0. d.begin \in Int /\ d.end \in Int /\ d.size \in Int /\ SubarraySize \in Nat \ {0}
  BY DEF Layout, DequeAssumption
<1>1. more \in Nat /\ Slot(d.end + n) = Slot(d.end) + more
  <2>1. /\ Slot(d.end) \in Int /\ Offset(d.end) \in 0..(SubarraySize - 1)
        /\ d.end = FirstPlace(Slot(d.end)) + Offset(d.end) /\ FirstPlace(Slot(d.end)) \in Int
    BY <1>0, DivMod, Multiples
  <2>2. Slot(FirstPlace(Slot(d.end)) + (Offset(d.end) + n)) = Slot(d.end) + Slot(Offset(d.end) + n)
    BY <1>0, <2>1, SlotOfSum
  <2>3. FirstPlace(Slot(d.end)) + (Offset(d.end) + n) = d.end + n
    BY <1>0, <2>1
  <2>4. CASE room < n
    <3>1. n - room + SubarraySize - 1 = Offset(d.end) + n
      BY <1>0, <2>1
    <3>2. more = Slot(Offset(d.end) + n)
      BY <2>4, <3>1 DEF Slot
    <3>3. Slot(Offset(d.end) + n) \in Nat
      BY <1>0, <2>1 DEF Slot
    <3> QED
      BY <2>2, <2>3, <3>2, <3>3
  <2>5. CASE ~(room < n)
    <3>1. 0 <= Offset(d.end) + n /\ Offset(d.end) + n <= SubarraySize - 1
      BY <1>0, <2>1, <2>5
    <3>2. Slot(Offset(d.end) + n) = 0
      <4>1. FirstPlace(0) = 0 /\ LastPlace(0) = SubarraySize - 1
        BY <1>0 DEF FirstPlace, LastPlace
      <4> QED
        BY <1>0, <2>1, <3>1, <4>1, SlotUnique
    <3> QED
      BY <2>1, <2>2, <2>3, <2>5, <3>2
  <2> QED
    BY <2>4, <2>5
<1> HIDE DEF more
<1>2. PICK k \in Int :
        /\ Layout(e) /\ e.begin = d.begin + FirstPlace(k) /\ e.end = d.end + FirstPlace(k)
        /\ Slot(e.begin) = Slot(d.begin) + k /\ Slot(e.end) = Slot(d.end) + k
        /\ Slot(e.end) + more < e.size
        /\ \A p \in e.begin..(e.end - 1) : e.cell[p] = d.cell[p - e.begin + d.begin]
  BY <1>1, PointersSuffice
<1> DEFINE slots == (Slot(e.end) + 1)..(Slot(e.end) + more)
<1>3. DoReallocSubarray(d, n, "back") = Allocate(e, slots)
  BY DEF DoReallocSubarray, more
<1> HIDE DEF e
<1>4. e.begin \in Int /\ e.end \in Int /\ e.begin <= e.end /\ 0 <= Slot(e.begin) /\ FirstPlace(k) \in Int
  BY <1>2, Multiples DEF Layout
<1>5. Slot(e.end + n) = Slot(e.end) + more
  <2>1. e.end + n = (d.end + n) + FirstPlace(k) /\ d.end + n \in Int
    BY <1>0, <1>2, <1>4
  <2>2. Slot(e.end + n) = Slot(d.end + n) + k
    BY <2>1, SlotShifted
  <2>3. Slot(d.end) \in Int
    BY <1>0, SlotBounds
  <2> QED
    BY <1>1, <1>2, <2>2, <2>3
<1>6. PlacesOf(slots) = (LastPlace(Slot(e.end)) + 1)..LastPlace(Slot(e.end + n))
  <2>1. Slot(e.end) \in Int
    BY <1>4, SlotBounds
  <2>2. FirstPlace(Slot(e.end) + 1) = LastPlace(Slot(e.end)) + 1
    BY <1>0, <2>1 DEF FirstPlace, LastPlace
  <2> QED
    BY <1>1, <1>5, <2>1, <2>2, PlacesOfSlots
<1>7. 0 \in Nat /\
      PlacesOf(slots) = (FirstPlace(Slot(e.begin - 0))..LastPlace(Slot(e.end + n)))
                          \ (FirstPlace(Slot(e.begin))..LastPlace(Slot(e.end)))
  <2>1. /\ FirstPlace(Slot(e.begin)) \in Int /\ LastPlace(Slot(e.end)) \in Int
        /\ LastPlace(Slot(e.end + n)) \in Int
        /\ FirstPlace(Slot(e.begin)) <= LastPlace(Slot(e.end)) + 1
        /\ e.begin - 0 = e.begin
    <3>1. e.end + n \in Int
      BY <1>4
    <3>2. FirstPlace(Slot(e.begin)) <= e.begin /\ e.end <= LastPlace(Slot(e.end))
      BY <1>4, SlotBounds
    <3> QED
      BY <1>4, <3>1, <3>2, SlotBounds
  <2> QED
    BY <1>6, <2>1
<1>8. /\ e.begin - d.begin \in Int /\ e.end - e.begin = d.end - d.begin
      /\ 0 <= Slot(e.begin - 0) /\ Slot(e.end + n) < e.size
  <2>1. e.begin - 0 = e.begin
    BY <1>4
  <2> QED
    BY <1>0, <1>2, <1>4, <1>5, <2>1
<1> HIDE DEF slots
<1> QED
  BY <1>2, <1>3, <1>7, <1>8, AllocateMakesRoom, ZenonT(30)

\* DoReallocSubarray at the front: places for n elements before the first one.
LEMMA RoomInFront ==
  ASSUME DequeAssumption, NEW d, Layout(d), NEW n \in Nat
  PROVE  Room(d, DoReallocSubarray(d, n, "front"), n, 0)
<1> DEFINE room == Offset(d.begin)
           more == IF room < n THEN (n - room + SubarraySize - 1) \div SubarraySize ELSE 0
           have == Slot(d.begin)
           e == IF more > have THEN DoReallocPtrArray(d, more - have, "front") ELSE d
<1>0. d.begin \in Int /\ d.end \in Int /\ d.size \in Int /\ SubarraySize \in Nat \ {0}
  BY DEF Layout, DequeAssumption
<1>1. more \in Nat /\ Slot(d.begin - n) = Slot(d.begin) - more
  <2>1. /\ Slot(d.begin) \in Int /\ room \in 0..(SubarraySize - 1)
        /\ d.begin = FirstPlace(Slot(d.begin)) + room /\ FirstPlace(Slot(d.begin)) \in Int
    BY <1>0, DivMod, Multiples
  <2>2. Slot(FirstPlace(Slot(d.begin)) + (room - n)) = Slot(d.begin) + Slot(room - n)
    BY <1>0, <2>1, SlotOfSum
  <2>3. FirstPlace(Slot(d.begin)) + (room - n) = d.begin - n
    BY <1>0, <2>1
  <2>4. CASE room < n
    <3>1. n - room \in Int /\ -(n - room) = room - n
      BY <1>0, <2>1
    <3>2. Slot(room - n) = -Slot(n - room + SubarraySize - 1)
      BY <3>1, SlotOfSum
    <3>3. more = Slot(n - room + SubarraySize - 1)
      BY <2>4 DEF Slot
    <3>4. Slot(n - room + SubarraySize - 1) \in Nat
      <4>1. n - room + SubarraySize - 1 \in Nat
        BY <1>0, <2>1, <2>4
      <4> QED
        BY <1>0, <4>1 DEF Slot
    <3> QED
      BY <2>1, <2>2, <2>3, <3>2, <3>3, <3>4
  <2>5. CASE ~(room < n)
    <3>1. 0 <= room - n /\ room - n <= SubarraySize - 1 /\ room - n \in Int
      BY <1>0, <2>1, <2>5
    <3>2. Slot(room - n) = 0
      <4>1. FirstPlace(0) = 0 /\ LastPlace(0) = SubarraySize - 1
        BY <1>0 DEF FirstPlace, LastPlace
      <4> QED
        BY <1>0, <3>1, <4>1, SlotUnique
    <3> QED
      BY <2>1, <2>2, <2>3, <2>5, <3>2
  <2> QED
    BY <2>4, <2>5
<1> HIDE DEF more
<1>2. PICK k \in Int :
        /\ Layout(e) /\ e.begin = d.begin + FirstPlace(k) /\ e.end = d.end + FirstPlace(k)
        /\ Slot(e.begin) = Slot(d.begin) + k /\ Slot(e.end) = Slot(d.end) + k
        /\ more <= Slot(e.begin)
        /\ \A p \in e.begin..(e.end - 1) : e.cell[p] = d.cell[p - e.begin + d.begin]
  BY <1>1, PointersSuffice
<1> DEFINE slots == (Slot(e.begin) - more)..(Slot(e.begin) - 1)
<1>3. DoReallocSubarray(d, n, "front") = Allocate(e, slots)
  BY DEF DoReallocSubarray, more
<1> HIDE DEF e
<1>4. /\ e.begin \in Int /\ e.end \in Int /\ e.begin <= e.end /\ Slot(e.end) < e.size
      /\ FirstPlace(k) \in Int /\ Slot(e.begin) \in Int
  <2>1. e.begin \in Int /\ e.end \in Int /\ e.begin <= e.end /\ Slot(e.end) < e.size
    BY <1>2 DEF Layout
  <2> QED
    BY <2>1, SlotBounds, Multiples
<1>5. Slot(e.begin - n) = Slot(e.begin) - more
  <2>1. e.begin - n = (d.begin - n) + FirstPlace(k) /\ d.begin - n \in Int
    BY <1>0, <1>2, <1>4
  <2>2. Slot(e.begin - n) = Slot(d.begin - n) + k
    BY <2>1, SlotShifted
  <2>3. Slot(d.begin) \in Int
    BY <1>0, SlotBounds
  <2> QED
    BY <1>1, <1>2, <2>2, <2>3
<1>6. PlacesOf(slots) = FirstPlace(Slot(e.begin - n))..(FirstPlace(Slot(e.begin)) - 1)
  <2>1. LastPlace(Slot(e.begin) - 1) = FirstPlace(Slot(e.begin)) - 1
    BY <1>0, <1>4 DEF FirstPlace, LastPlace
  <2>2. Slot(e.begin) - more \in Int /\ Slot(e.begin) - 1 \in Int
    BY <1>1, <1>4
  <2> QED
    BY <1>5, <2>1, <2>2, PlacesOfSlots
<1>7. PlacesOf(slots) = (FirstPlace(Slot(e.begin - n))..LastPlace(Slot(e.end + 0)))
                          \ (FirstPlace(Slot(e.begin))..LastPlace(Slot(e.end)))
  <2>1. /\ FirstPlace(Slot(e.begin)) \in Int /\ LastPlace(Slot(e.end)) \in Int
        /\ FirstPlace(Slot(e.begin - n)) \in Int
        /\ FirstPlace(Slot(e.begin)) <= LastPlace(Slot(e.end)) + 1
        /\ e.end + 0 = e.end
    <3>1. e.begin - n \in Int
      BY <1>4
    <3>2. FirstPlace(Slot(e.begin)) <= e.begin /\ e.end <= LastPlace(Slot(e.end))
      BY <1>4, SlotBounds
    <3> QED
      BY <1>4, <3>1, <3>2, SlotBounds
  <2> QED
    BY <1>6, <2>1
<1>8. /\ e.begin - d.begin \in Int /\ e.end - e.begin = d.end - d.begin
      /\ 0 <= Slot(e.begin - n) /\ Slot(e.end + 0) < e.size
  <2>1. e.end + 0 = e.end
    BY <1>4
  <2> QED
    BY <1>0, <1>1, <1>2, <1>4, <1>5, <2>1
<1> HIDE DEF slots
<1> QED
  BY <1>2, <1>3, <1>7, <1>8, AllocateMakesRoom

-----------------------------------------------------------------------------

\* What the place p holds in r, which is d with m elements v in the place of
\* those from i on, as many as their sizes tell.
After(d, r, i, m, v, p) ==
  IF p \notin r.begin..(r.end - 1) THEN Raw
  ELSE IF p < r.begin + i THEN d.cell[p - r.begin + d.begin]
  ELSE IF p < r.begin + i + m THEN v
  ELSE d.cell[p - r.end + d.end]

\* r is what is left of d when m elements v take the place of the elements
\* from i up to before j: its subarrays are those from begin to end, and all
\* its other cells are raw.
Effect(d, r, i, j, m, v) ==
  /\ Fields(r) /\ r.size \in Int /\ r.begin \in Int /\ r.end \in Int
  /\ r.end - r.begin = i + m + (d.end - d.begin - j)
  /\ 0 <= Slot(r.begin) /\ Slot(r.end) < r.size
  /\ r.cell = [p \in FirstPlace(Slot(r.begin))..LastPlace(Slot(r.end)) |-> After(d, r, i, m, v, p)]

\* What the other proofs use of the layout.
LEMMA LayoutFacts ==
  ASSUME DequeAssumption, NEW d, Layout(d)
  PROVE  /\ Fields(d) /\ d.size \in Int /\ d.begin \in Int /\ d.end \in Int /\ d.begin <= d.end
         /\ Slot(d.begin) \in Int /\ Slot(d.end) \in Int
         /\ FirstPlace(Slot(d.begin)) \in Int /\ LastPlace(Slot(d.end)) \in Int
         /\ FirstPlace(Slot(d.begin)) <= d.begin /\ d.end <= LastPlace(Slot(d.end))
         /\ DOMAIN d.cell = FirstPlace(Slot(d.begin))..LastPlace(Slot(d.end))
         /\ d.cell = [p \in DOMAIN d.cell |-> d.cell[p]]
<1>1. /\ Fields(d) /\ d.size \in Int /\ d.begin \in Int /\ d.end \in Int /\ d.begin <= d.end
      /\ d.cell = [p \in FirstPlace(Slot(d.begin))..LastPlace(Slot(d.end)) |-> d.cell[p]]
  BY DEF Layout
<1>2. DOMAIN d.cell = FirstPlace(Slot(d.begin))..LastPlace(Slot(d.end))
  BY <1>1
<1>3. d.cell = [p \in DOMAIN d.cell |-> d.cell[p]]
  BY <1>1, <1>2
<1> QED
  BY <1>1, <1>2, <1>3, SlotBounds

\* Whatever has such an effect keeps the layout.
LEMMA EffectKeepsLayout ==
  ASSUME DequeAssumption, NEW d, NEW r, NEW i, NEW j, NEW m, NEW v, Effect(d, r, i, j, m, v),
         r.begin <= r.end
  PROVE  Layout(r)
<1> DEFINE D == FirstPlace(Slot(r.begin))..LastPlace(Slot(r.end))
<1>1. /\ r.cell = [p \in D |-> r.cell[p]]
      /\ \A p \in D : p \notin r.begin..(r.end - 1) => r.cell[p] = Raw
  BY DEF Effect, After
<1>2. \A p \in DOMAIN r.cell : p \notin r.begin..(r.end - 1) => r.cell[p] = Raw
  BY <1>1
<1> QED
  BY <1>1, <1>2 DEF Effect, Layout

\* push_front adds an element at the front, the subarray before it included ...
LEMMA EmplaceFrontEffect ==
  ASSUME DequeAssumption, NEW d, Layout(d), NEW v
  PROVE  Effect(d, EmplaceFront(d, v), 0, 0, 1, v)
<1> DEFINE e == DoReallocSubarray(d, 1, "front")
           r == EmplaceFront(d, v)
<1>1. Room(d, e, 1, 0) /\ d.begin \in Int /\ d.end \in Int /\ d.begin <= d.end
  BY RoomInFront, LayoutFacts
<1>2. r = [e EXCEPT !.begin = @ - 1, !.cell[e.begin - 1] = v]
  BY DEF EmplaceFront
<1> HIDE DEF e, r
<1> DEFINE low == FirstPlace(Slot(e.begin - 1))
           high == LastPlace(Slot(e.end))
<1>3. /\ Fields(e) /\ e.size \in Int /\ e.begin \in Int /\ e.end \in Int
      /\ e.end - e.begin = d.end - d.begin
      /\ 0 <= Slot(e.begin - 1) /\ Slot(e.end) < e.size
  <2>1. e.end \in Int => e.end + 0 = e.end
    OBVIOUS
  <2> QED
    BY <1>1, <2>1 DEF Room
<1>4. e.cell = [p \in low..high |-> IF p \in e.begin..(e.end - 1) THEN d.cell[p - e.begin + d.begin] ELSE Raw]
  <2>1. e.end + 0 = e.end
    BY <1>3
  <2> QED
    BY <1>1, <2>1 DEF Room
<1>5. low \in Int /\ high \in Int /\ low <= e.begin - 1 /\ e.end <= high
  <2>1. e.begin - 1 \in Int
    BY <1>3
  <2> QED
    BY <1>3, <2>1, SlotBounds
<1>6. e.begin <= e.end
  BY <1>1, <1>3
<1>7. /\ Fields(r) /\ r.size = e.size /\ r.begin = e.begin - 1 /\ r.end = e.end
      /\ r.cell = [e.cell EXCEPT ![e.begin - 1] = v]
  BY <1>2, <1>3 DEF Fields
<1>8. r.cell = [p \in low..high |-> After(d, r, 0, 1, v, p)]
  <2> HIDE DEF low, high
  <2> DEFINE X(p) == IF p = e.begin - 1 THEN v
                     ELSE IF p \in e.begin..(e.end - 1) THEN d.cell[p - e.begin + d.begin] ELSE Raw
  <2>1. r.cell = [p \in low..high |-> X(p)]
    BY <1>3, <1>4, <1>7
  <2>2. ASSUME NEW p \in low..high PROVE X(p) = After(d, r, 0, 1, v, p)
    <3>1. p \in Int /\ r.begin = e.begin - 1 /\ r.end = e.end
      BY <1>5, <1>7
    <3>2. /\ p \notin r.begin..(r.end - 1) <=> p # e.begin - 1 /\ p \notin e.begin..(e.end - 1)
          /\ p \in r.begin..(r.end - 1) => ~(p < r.begin + 0) /\ (p < r.begin + 0 + 1 <=> p = e.begin - 1)
          /\ p - e.begin + d.begin = p - r.end + d.end
      BY <1>1, <1>3, <1>6, <3>1
    <3> QED
      BY <3>2, Zenon DEF After
  <2> HIDE DEF X
  <2> QED
    BY <2>1, <2>2
<1>9. r.end - r.begin = 0 + 1 + (d.end - d.begin - 0)
  BY <1>1, <1>3, <1>7
<1>10. Effect(d, r, 0, 0, 1, v)
  BY <1>3, <1>7, <1>8, <1>9 DEF Effect
<1> QED
  BY <1>10 DEF r

\* ... and push_back one at the back.
LEMMA EmplaceBackEffect ==
  ASSUME DequeAssumption, NEW d, Layout(d), NEW v
  PROVE  Effect(d, EmplaceBack(d, v), Size(d), Size(d), 1, v)
<1> DEFINE e == DoReallocSubarray(d, 1, "back")
           r == EmplaceBack(d, v)
           n == Size(d)
<1>1. /\ Room(d, e, 0, 1) /\ d.begin \in Int /\ d.end \in Int /\ d.begin <= d.end
      /\ n = d.end - d.begin
  BY RoomBehind, LayoutFacts DEF Size
<1>2. r = [e EXCEPT !.end = @ + 1, !.cell[e.end] = v]
  BY DEF EmplaceBack
<1> HIDE DEF e, r, n
<1> DEFINE low == FirstPlace(Slot(e.begin))
           high == LastPlace(Slot(e.end + 1))
<1>3. /\ Fields(e) /\ e.size \in Int /\ e.begin \in Int /\ e.end \in Int
      /\ e.end - e.begin = d.end - d.begin
      /\ 0 <= Slot(e.begin) /\ Slot(e.end + 1) < e.size
  <2>1. e.begin \in Int => e.begin - 0 = e.begin
    OBVIOUS
  <2> QED
    BY <1>1, <2>1 DEF Room
<1>4. e.cell = [p \in low..high |-> IF p \in e.begin..(e.end - 1) THEN d.cell[p - e.begin + d.begin] ELSE Raw]
  <2>1. e.begin - 0 = e.begin
    BY <1>3
  <2> QED
    BY <1>1, <2>1 DEF Room
<1>5. low \in Int /\ high \in Int /\ low <= e.begin /\ e.end + 1 <= high
  <2>1. e.end + 1 \in Int
    BY <1>3
  <2> QED
    BY <1>3, <2>1, SlotBounds
<1>6. e.begin <= e.end
  BY <1>1, <1>3
<1>7. /\ Fields(r) /\ r.size = e.size /\ r.begin = e.begin /\ r.end = e.end + 1
      /\ r.cell = [e.cell EXCEPT ![e.end] = v]
  BY <1>2, <1>3 DEF Fields
<1>8. r.cell = [p \in low..high |-> After(d, r, n, 1, v, p)]
  <2> HIDE DEF low, high
  <2> DEFINE X(p) == IF p = e.end THEN v
                     ELSE IF p \in e.begin..(e.end - 1) THEN d.cell[p - e.begin + d.begin] ELSE Raw
  <2>1. r.cell = [p \in low..high |-> X(p)]
    BY <1>3, <1>4, <1>7
  <2>2. ASSUME NEW p \in low..high PROVE X(p) = After(d, r, n, 1, v, p)
    <3>1. p \in Int /\ e.begin + n = e.end /\ r.begin = e.begin /\ r.end = e.end + 1
      BY <1>1, <1>3, <1>5, <1>7
    <3>2. /\ p \notin r.begin..(r.end - 1) <=> p # e.end /\ p \notin e.begin..(e.end - 1)
          /\ p \in e.begin..(e.end - 1) => p < r.begin + n
          /\ p = e.end => ~(p < r.begin + n) /\ p < r.begin + n + 1
      BY <1>1, <1>3, <1>6, <3>1
    <3> QED
      BY <3>1, <3>2, Zenon DEF After
  <2> HIDE DEF X
  <2> QED
    BY <2>1, <2>2
<1>9. r.end - r.begin = n + 1 + (d.end - d.begin - n)
  BY <1>1, <1>3, <1>7
<1>10. Effect(d, r, n, n, 1, v)
  BY <1>3, <1>7, <1>8, <1>9 DEF Effect
<1> QED
  BY <1>10 DEF r, n

\* Where a step to the next place leaves a subarray.
LEMMA SlotStep ==
  ASSUME DequeAssumption, NEW p \in Int
  PROVE  /\ Offset(p) = 0 => /\ FirstPlace(Slot(p)) = p /\ LastPlace(Slot(p - 1)) = p - 1
                             /\ Slot(p) = Slot(p - 1) + 1
         /\ Offset(p) # 0 => Slot(p - 1) = Slot(p)
<1>1. /\ Slot(p) \in Int /\ Offset(p) \in 0..(SubarraySize - 1) /\ p = FirstPlace(Slot(p)) + Offset(p)
      /\ FirstPlace(Slot(p)) \in Int /\ SubarraySize \in Nat \ {0}
  BY DivMod, Multiples DEF DequeAssumption
<1>2. CASE Offset(p) = 0
  <2>1. FirstPlace(Slot(p)) = p
    BY <1>1, <1>2
  <2>2. /\ FirstPlace(Slot(p) - 1) = FirstPlace(Slot(p)) - SubarraySize
        /\ LastPlace(Slot(p) - 1) = FirstPlace(Slot(p)) - 1
    BY <1>1 DEF FirstPlace, LastPlace
  <2>3. Slot(p - 1) = Slot(p) - 1
    <3>1. /\ p - 1 \in Int /\ Slot(p) - 1 \in Int
          /\ FirstPlace(Slot(p) - 1) <= p - 1 /\ p - 1 <= LastPlace(Slot(p) - 1)
      BY <1>1, <2>1, <2>2
    <3> QED
      BY <3>1, SlotUnique
  <2> QED
    BY <1>1, <1>2, <2>1, <2>2, <2>3
<1>3. CASE Offset(p) # 0
  <2>1. /\ p - 1 \in Int /\ FirstPlace(Slot(p)) <= p - 1 /\ p <= LastPlace(Slot(p))
        /\ LastPlace(Slot(p)) \in Int
    BY <1>1, <1>3, SlotBounds
  <2>2. p - 1 <= LastPlace(Slot(p))
    BY <2>1
  <2> QED
    BY <1>1, <1>3, <2>1, <2>2, SlotUnique
<1> QED
  BY <1>2, <1>3

\* What taking the elements before the place q away comes to.
LEMMA FrontLeaves ==
  ASSUME DequeAssumption, NEW d, Layout(d), NEW q \in Int, d.begin <= q, q <= d.end, NEW r, NEW v,
         Fields(r), r.size = d.size, r.begin = q, r.end = d.end,
         r.cell = [p \in FirstPlace(Slot(q))..LastPlace(Slot(d.end)) |->
                     IF p \in d.begin..(q - 1) THEN Raw ELSE d.cell[p]]
  PROVE  Effect(d, r, 0, q - d.begin, 0, v)
<1>1. PICK low, high, lo : low = FirstPlace(Slot(q)) /\ high = LastPlace(Slot(d.end)) /\ lo = FirstPlace(Slot(d.begin))
  OBVIOUS
<1>2. /\ d.begin \in Int /\ d.end \in Int /\ d.begin <= d.end /\ d.size \in Int
      /\ Slot(d.begin) <= Slot(q) /\ Slot(d.begin) \in Int /\ Slot(q) \in Int
      /\ lo <= low /\ low \in Int /\ high \in Int /\ lo \in Int /\ DOMAIN d.cell = lo..high
  <2>1. d.begin \in Int /\ d.end \in Int /\ d.begin <= d.end /\ d.size \in Int /\ DOMAIN d.cell = lo..high
    BY <1>1, LayoutFacts
  <2> QED
    BY <1>1, <2>1, SlotsInOrder, SlotBounds
<1>3. 0 <= Slot(q) /\ Slot(d.end) < d.size
  BY <1>2 DEF Layout
<1>4. \A p \in low..high : p \notin d.begin..(d.end - 1) => d.cell[p] = Raw
  <2>1. \A p \in low..high : p \in lo..high
    BY <1>2
  <2> QED
    BY <1>2, <2>1 DEF Layout
<1>5. r.cell = [p \in low..high |-> After(d, r, 0, 0, v, p)]
  <2> DEFINE X(p) == IF p \in d.begin..(q - 1) THEN Raw ELSE d.cell[p]
  <2>1. r.cell = [p \in low..high |-> X(p)]
    BY <1>1
  <2>2. ASSUME NEW p \in low..high PROVE X(p) = After(d, r, 0, 0, v, p)
    <3>1. p \in Int /\ r.begin = q /\ r.end = d.end
      BY <1>2
    <3>2. /\ p \in r.begin..(r.end - 1) => p \in d.begin..(d.end - 1) /\ p \notin d.begin..(q - 1)
          /\ p \notin r.begin..(r.end - 1) => p \in d.begin..(q - 1) \/ p \notin d.begin..(d.end - 1)
          /\ p \in r.begin..(r.end - 1) => ~(p < r.begin + 0) /\ ~(p < r.begin + 0 + 0)
          /\ p - r.end + d.end = p
      BY <1>2, <3>1
    <3>3. p \notin d.begin..(d.end - 1) => d.cell[p] = Raw
      BY <1>4
    <3> QED
      BY <3>2, <3>3, Zenon DEF After
  <2> HIDE DEF X
  <2> QED
    BY <2>1, <2>2
<1>6. r.end - r.begin = 0 + 0 + (d.end - d.begin - (q - d.begin))
  BY <1>2
<1> QED
  BY <1>1, <1>2, <1>3, <1>5, <1>6 DEF Effect

\* What taking the elements from the place q on away comes to.
LEMMA BackLeaves ==
  ASSUME DequeAssumption, NEW d, Layout(d), NEW q \in Int, d.begin <= q, q <= d.end, NEW r, NEW v,
         Fields(r), r.size = d.size, r.begin = d.begin, r.end = q,
         r.cell = [p \in FirstPlace(Slot(d.begin))..LastPlace(Slot(q)) |->
                     IF p \in q..(d.end - 1) THEN Raw ELSE d.cell[p]]
  PROVE  Effect(d, r, q - d.begin, Size(d), 0, v)
<1>1. PICK low, high, hi, n : /\ low = FirstPlace(Slot(d.begin)) /\ high = LastPlace(Slot(q))
                              /\ hi = LastPlace(Slot(d.end)) /\ n = Size(d)
  OBVIOUS
<1>2. /\ d.begin \in Int /\ d.end \in Int /\ d.begin <= d.end /\ d.size \in Int
      /\ Slot(q) <= Slot(d.end) /\ Slot(d.end) \in Int /\ Slot(q) \in Int
      /\ high <= hi /\ low \in Int /\ high \in Int /\ hi \in Int /\ DOMAIN d.cell = low..hi
      /\ n = d.end - d.begin
  <2>1. /\ d.begin \in Int /\ d.end \in Int /\ d.begin <= d.end /\ d.size \in Int
        /\ DOMAIN d.cell = low..hi /\ n = d.end - d.begin
    BY <1>1, LayoutFacts DEF Size
  <2> QED
    BY <1>1, <2>1, SlotsInOrder, SlotBounds
<1>3. 0 <= Slot(d.begin) /\ Slot(q) < d.size
  BY <1>2 DEF Layout
<1>4. \A p \in low..high : p \notin d.begin..(d.end - 1) => d.cell[p] = Raw
  <2>1. \A p \in low..high : p \in low..hi
    BY <1>2
  <2> QED
    BY <1>2, <2>1 DEF Layout
<1>5. r.cell = [p \in low..high |-> After(d, r, q - d.begin, 0, v, p)]
  <2> DEFINE X(p) == IF p \in q..(d.end - 1) THEN Raw ELSE d.cell[p]
  <2>1. r.cell = [p \in low..high |-> X(p)]
    BY <1>1
  <2>2. ASSUME NEW p \in low..high PROVE X(p) = After(d, r, q - d.begin, 0, v, p)
    <3>1. p \in Int /\ r.begin = d.begin /\ r.end = q
      BY <1>2
    <3>2. /\ p \in r.begin..(r.end - 1) => p \in d.begin..(d.end - 1) /\ p \notin q..(d.end - 1)
          /\ p \notin r.begin..(r.end - 1) => p \in q..(d.end - 1) \/ p \notin d.begin..(d.end - 1)
          /\ p \in r.begin..(r.end - 1) => p < r.begin + (q - d.begin)
          /\ p - r.begin + d.begin = p
      BY <1>2, <3>1, SMTT(30)
    <3>3. p \notin d.begin..(d.end - 1) => d.cell[p] = Raw
      BY <1>4
    <3> QED
      BY <3>2, <3>3, Zenon DEF After
  <2> HIDE DEF X
  <2> QED
    BY <2>1, <2>2
<1>6. r.end - r.begin = (q - d.begin) + 0 + (d.end - d.begin - n)
  BY <1>2
<1> QED
  BY <1>1, <1>2, <1>3, <1>5, <1>6 DEF Effect

\* Freeing the subarrays in front of, or behind, those in use.
LEMMA FreeFront ==
  ASSUME DequeAssumption, NEW a \in Int, NEW b \in Int, NEW hi \in Int, a <= b,
         NEW slots, slots = a..(b - 1)
  PROVE  (FirstPlace(a)..hi) \ PlacesOf(slots) = FirstPlace(b)..hi
<1>1. /\ FirstPlace(a) \in Int /\ FirstPlace(b) \in Int /\ FirstPlace(a) <= FirstPlace(b)
      /\ PlacesOf(slots) = FirstPlace(a)..LastPlace(b - 1)
  <2>1. b - 1 \in Int
    OBVIOUS
  <2> QED
    BY <2>1, Multiples, PlacesOfSlots
<1>2. LastPlace(b - 1) = FirstPlace(b) - 1
  BY DEF FirstPlace, LastPlace, DequeAssumption
<1> QED
  BY <1>1, <1>2

\* The subarrays behind.
LEMMA FreeBack ==
  ASSUME DequeAssumption, NEW a \in Int, NEW b \in Int, NEW lo \in Int, a <= b,
         NEW slots, slots = (a + 1)..b
  PROVE  (lo..LastPlace(b)) \ PlacesOf(slots) = lo..LastPlace(a)
<1>1. /\ FirstPlace(a) \in Int /\ FirstPlace(b) \in Int /\ FirstPlace(a) <= FirstPlace(b)
      /\ PlacesOf(slots) = FirstPlace(a + 1)..LastPlace(b)
  <2>1. a + 1 \in Int
    OBVIOUS
  <2> QED
    BY <2>1, Multiples, PlacesOfSlots
<1>2. FirstPlace(a + 1) = LastPlace(a) + 1
  BY DEF FirstPlace, LastPlace, DequeAssumption
<1>3. LastPlace(a) \in Int /\ LastPlace(b) \in Int /\ LastPlace(a) <= LastPlace(b)
  BY <1>1 DEF LastPlace, FirstPlace, DequeAssumption
<1> QED
  BY <1>1, <1>2, <1>3

\* The subarrays that are freed are in use: those in front, and those behind.
LEMMA FrontInUse ==
  ASSUME DequeAssumption, NEW a \in Int, NEW b \in Int, NEW hi \in Int, a <= b, FirstPlace(b) <= hi,
         NEW slots, slots = a..(b - 1)
  PROVE  PlacesOf(slots) \subseteq FirstPlace(a)..hi
<1>1. FirstPlace(a) \in Int /\ FirstPlace(b) \in Int /\ PlacesOf(slots) = FirstPlace(a)..LastPlace(b - 1)
  <2>1. b - 1 \in Int
    OBVIOUS
  <2> QED
    BY <2>1, Multiples, PlacesOfSlots
<1>2. LastPlace(b - 1) = FirstPlace(b) - 1
  BY DEF FirstPlace, LastPlace, DequeAssumption
<1> QED
  BY <1>1, <1>2

LEMMA BackInUse ==
  ASSUME DequeAssumption, NEW a \in Int, NEW b \in Int, NEW lo \in Int, a <= b, lo <= LastPlace(a) + 1,
         NEW slots, slots = (a + 1)..b
  PROVE  PlacesOf(slots) \subseteq lo..LastPlace(b)
<1>1. /\ FirstPlace(a) \in Int /\ FirstPlace(b) \in Int /\ FirstPlace(a) <= FirstPlace(b)
      /\ PlacesOf(slots) = FirstPlace(a + 1)..LastPlace(b)
  <2>1. a + 1 \in Int
    OBVIOUS
  <2> QED
    BY <2>1, Multiples, PlacesOfSlots
<1>2. FirstPlace(a + 1) = LastPlace(a) + 1
  BY DEF FirstPlace, LastPlace, DequeAssumption
<1>3. LastPlace(a) \in Int /\ LastPlace(b) \in Int
  BY <1>1 DEF LastPlace, FirstPlace, DequeAssumption
<1> QED
  BY <1>1, <1>2, <1>3

\* What is left when they are freed.
LEMMA FreedIs ==
  ASSUME NEW cell, NEW slots, PlacesOf(slots) \subseteq DOMAIN cell
  PROVE  CellsLeft(cell, slots) = Restrict(cell, DOMAIN cell \ PlacesOf(slots))
  BY DEF CellsLeft

\* A destroyed cell is raw, whatever it held.
LEMMA Destroyed ==
  ASSUME NEW cell, NEW places, places \subseteq DOMAIN cell
  PROVE  Fill(cell, places, Raw) = [p \in DOMAIN cell |-> IF p \in places THEN Raw ELSE cell[p]]
<1>1. places \cup DOMAIN cell = DOMAIN cell
  OBVIOUS
<1> QED
  BY <1>1 DEF Fill

\* The record operations, on a deque of which only the fields matter.
LEMMA DequeUpdates ==
  ASSUME NEW d, Fields(d)
  PROVE  /\ \A c : [d EXCEPT !.cell = c] = [size |-> d.size, begin |-> d.begin, end |-> d.end, cell |-> c]
         /\ \A c, b : [d EXCEPT !.begin = b, !.cell = c] = [size |-> d.size, begin |-> b, end |-> d.end, cell |-> c]
         /\ \A c, b : [d EXCEPT !.end = b, !.cell = c] = [size |-> d.size, begin |-> d.begin, end |-> b, cell |-> c]
         /\ \A b : [d EXCEPT !.begin = b] = [size |-> d.size, begin |-> b, end |-> d.end, cell |-> d.cell]
         /\ \A b : [d EXCEPT !.end = b] = [size |-> d.size, begin |-> d.begin, end |-> b, cell |-> d.cell]
<1>1. d = [size |-> d.size, begin |-> d.begin, end |-> d.end, cell |-> d.cell]
  BY DEF Fields
<1>2. ASSUME NEW c
      PROVE  [d EXCEPT !.cell = c] = [size |-> d.size, begin |-> d.begin, end |-> d.end, cell |-> c]
  BY <1>1
<1>3. ASSUME NEW c, NEW b
      PROVE  /\ [d EXCEPT !.begin = b, !.cell = c] = [size |-> d.size, begin |-> b, end |-> d.end, cell |-> c]
             /\ [d EXCEPT !.end = b, !.cell = c] = [size |-> d.size, begin |-> d.begin, end |-> b, cell |-> c]
  <2>1. PICK e, f : e = [d EXCEPT !.begin = b] /\ f = [d EXCEPT !.end = b]
    OBVIOUS
  <2>2. /\ e = [size |-> d.size, begin |-> b, end |-> d.end, cell |-> d.cell]
        /\ f = [size |-> d.size, begin |-> d.begin, end |-> b, cell |-> d.cell]
    BY <1>1, <2>1
  <2>3. /\ [e EXCEPT !.cell = c] = [size |-> d.size, begin |-> b, end |-> d.end, cell |-> c]
        /\ [f EXCEPT !.cell = c] = [size |-> d.size, begin |-> d.begin, end |-> b, cell |-> c]
    BY <2>2
  <2> QED
    BY <2>1, <2>3, Zenon
<1>4. ASSUME NEW b
      PROVE  /\ [d EXCEPT !.begin = b] = [size |-> d.size, begin |-> b, end |-> d.end, cell |-> d.cell]
             /\ [d EXCEPT !.end = b] = [size |-> d.size, begin |-> d.begin, end |-> b, cell |-> d.cell]
  BY <1>1
<1> QED
  BY <1>2, <1>3, <1>4

\* The elements before q are destroyed and the subarrays that they leave freed.
LEMMA FrontFreed ==
  ASSUME DequeAssumption, NEW d, Layout(d), NEW q \in Int, d.begin <= q, q <= d.end, NEW v,
         NEW c, c = Fill(d.cell, d.begin..(q - 1), Raw),
         NEW slots, slots = Slot(d.begin)..(Slot(q) - 1),
         NEW r, r = [size |-> d.size, begin |-> q, end |-> d.end,
                     cell |-> CellsLeft(c, slots)]
  PROVE  Effect(d, r, 0, q - d.begin, 0, v)
<1>1. PICK lo, hi, a, b : /\ a = Slot(d.begin) /\ b = Slot(q)
                          /\ lo = FirstPlace(a) /\ hi = LastPlace(Slot(d.end))
  OBVIOUS
<1>2. /\ Fields(d) /\ d.size \in Int /\ d.begin \in Int /\ d.end \in Int
      /\ a \in Int /\ lo \in Int /\ hi \in Int /\ lo <= d.begin /\ d.end <= hi
      /\ DOMAIN d.cell = lo..hi
  BY <1>1, LayoutFacts
<1>3. b \in Int /\ a <= b /\ FirstPlace(b) \in Int /\ lo <= FirstPlace(b)
  BY <1>1, <1>2, SlotsInOrder, SlotBounds
<1>4. c = [p \in lo..hi |-> IF p \in d.begin..(q - 1) THEN Raw ELSE d.cell[p]]
  <2>1. d.begin..(q - 1) \subseteq lo..hi
    BY <1>2
  <2> QED
    BY <1>2, <2>1, Destroyed
<1>5. (lo..hi) \ PlacesOf(slots) = FirstPlace(b)..hi
  <2>1. slots = a..(b - 1)
    BY <1>1, Zenon
  <2> QED
    BY <1>1, <1>2, <1>3, <2>1, FreeFront
<1>6. CellsLeft(c, slots) = [p \in FirstPlace(b)..hi |-> c[p]]
  <2>1. DOMAIN c = lo..hi
    BY <1>4
  <2>2. PlacesOf(slots) \subseteq lo..hi
    <3>1. FirstPlace(b) <= hi
      <4>1. FirstPlace(b) <= q
        BY <1>1, SlotBounds
      <4> QED
        BY <1>2, <1>3, <4>1
    <3>2. slots = a..(b - 1)
      BY <1>1, Zenon
    <3>3. PlacesOf(slots) \subseteq FirstPlace(a)..hi
      BY <1>2, <1>3, <3>1, <3>2, FrontInUse
    <3> QED
      BY <1>1, <3>3, Zenon
  <2>3. PlacesOf(slots) \subseteq DOMAIN c
    BY <2>1, <2>2, Zenon
  <2>4. CellsLeft(c, slots) = Restrict(c, DOMAIN c \ PlacesOf(slots))
    BY <2>3, FreedIs, Zenon
  <2> QED
    BY <1>5, <2>1, <2>4 DEF Restrict
<1>7. \A p \in FirstPlace(b)..hi : c[p] = IF p \in d.begin..(q - 1) THEN Raw ELSE d.cell[p]
  <2>1. \A p \in FirstPlace(b)..hi : p \in lo..hi
    BY <1>2, <1>3
  <2> QED
    BY <1>4, <2>1
<1>8. /\ Fields(r) /\ r.size = d.size /\ r.begin = q /\ r.end = d.end
      /\ r.cell = [p \in FirstPlace(b)..hi |-> c[p]]
  BY <1>6 DEF Fields
<1>9. r.cell = [p \in FirstPlace(Slot(q))..LastPlace(Slot(d.end)) |->
                  IF p \in d.begin..(q - 1) THEN Raw ELSE d.cell[p]]
  BY <1>1, <1>7, <1>8
<1> QED
  BY <1>8, <1>9, FrontLeaves

\* The same of the elements from q on.
LEMMA BackFreed ==
  ASSUME DequeAssumption, NEW d, Layout(d), NEW q \in Int, d.begin <= q, q <= d.end, NEW v,
         NEW c, c = Fill(d.cell, q..(d.end - 1), Raw),
         NEW slots, slots = (Slot(q) + 1)..Slot(d.end),
         NEW r, r = [size |-> d.size, begin |-> d.begin, end |-> q,
                     cell |-> CellsLeft(c, slots)]
  PROVE  Effect(d, r, q - d.begin, Size(d), 0, v)
<1>1. PICK lo, hi, a, b : /\ a = Slot(q) /\ b = Slot(d.end)
                          /\ lo = FirstPlace(Slot(d.begin)) /\ hi = LastPlace(b)
  OBVIOUS
<1>2. /\ Fields(d) /\ d.size \in Int /\ d.begin \in Int /\ d.end \in Int
      /\ b \in Int /\ lo \in Int /\ hi \in Int /\ lo <= d.begin /\ d.end <= hi
      /\ DOMAIN d.cell = lo..hi
  BY <1>1, LayoutFacts
<1>3. a \in Int /\ a <= b /\ LastPlace(a) \in Int /\ LastPlace(a) <= hi
  BY <1>1, <1>2, SlotsInOrder, SlotBounds
<1>4. c = [p \in lo..hi |-> IF p \in q..(d.end - 1) THEN Raw ELSE d.cell[p]]
  <2>1. q..(d.end - 1) \subseteq lo..hi
    BY <1>2
  <2> QED
    BY <1>2, <2>1, Destroyed, SMTT(30)
<1>5. (lo..hi) \ PlacesOf(slots) = lo..LastPlace(a)
  <2>1. slots = (a + 1)..b
    BY <1>1, Zenon
  <2> QED
    BY <1>1, <1>2, <1>3, <2>1, FreeBack
<1>6. CellsLeft(c, slots) = [p \in lo..LastPlace(a) |-> c[p]]
  <2>1. DOMAIN c = lo..hi
    BY <1>4
  <2>2. PlacesOf(slots) \subseteq lo..hi
    <3>1. lo <= LastPlace(a) + 1
      <4>1. q <= LastPlace(a)
        BY <1>1, SlotBounds
      <4> QED
        BY <1>2, <1>3, <4>1
    <3>2. slots = (a + 1)..b
      BY <1>1, Zenon
    <3>3. PlacesOf(slots) \subseteq lo..LastPlace(b)
      BY <1>2, <1>3, <3>1, <3>2, BackInUse
    <3> QED
      BY <1>1, <3>3, Zenon
  <2>3. PlacesOf(slots) \subseteq DOMAIN c
    BY <2>1, <2>2, Zenon
  <2>4. CellsLeft(c, slots) = Restrict(c, DOMAIN c \ PlacesOf(slots))
    BY <2>3, FreedIs, Zenon
  <2> QED
    BY <1>5, <2>1, <2>4 DEF Restrict
<1>7. \A p \in lo..LastPlace(a) : c[p] = IF p \in q..(d.end - 1) THEN Raw ELSE d.cell[p]
  <2>1. \A p \in lo..LastPlace(a) : p \in lo..hi
    BY <1>2, <1>3
  <2> QED
    BY <1>4, <2>1
<1>8. /\ Fields(r) /\ r.size = d.size /\ r.begin = d.begin /\ r.end = q
      /\ r.cell = [p \in lo..LastPlace(a) |-> c[p]]
  BY <1>6 DEF Fields
<1>9. r.cell = [p \in FirstPlace(Slot(d.begin))..LastPlace(Slot(q)) |->
                  IF p \in q..(d.end - 1) THEN Raw ELSE d.cell[p]]
  BY <1>1, <1>7, <1>8
<1> QED
  BY <1>8, <1>9, BackLeaves

\* Freeing no subarray.
LEMMA NothingFreed ==
  ASSUME NEW cell, NEW places, NEW v, NEW c, c = Fill(cell, places, v)
  PROVE  CellsLeft(c, {}) = c
<1>1. PlacesOf({}) = {}
  BY DEF PlacesOf
<1>2. c = [p \in places \cup DOMAIN cell |-> IF p \in places THEN v ELSE cell[p]]
  BY DEF Fill
<1>3. PlacesOf({}) \subseteq DOMAIN c
  BY <1>1
<1>4. CellsLeft(c, {}) = Restrict(c, DOMAIN c \ PlacesOf({}))
  BY <1>3, FreedIs, Zenon
<1> QED
  BY <1>1, <1>2, <1>4 DEF Restrict

\* pop_front frees a subarray exactly when it leaves it.
LEMMA PopFrontEffect ==
  ASSUME DequeAssumption, NEW d, Layout(d), 1 <= Size(d), NEW v
  PROVE  Effect(d, PopFront(d), 0, 1, 0, v)
<1>1. PICK q, c, e, a, b :
        /\ q = d.begin + 1 /\ c = Fill(d.cell, {d.begin}, Raw)
        /\ a = Slot(d.begin) /\ b = Slot(q)
        /\ e = Destroy(d, {d.begin})
  OBVIOUS
<1>2. /\ Fields(d) /\ d.begin \in Int /\ a \in Int /\ q \in Int /\ q - 1 = d.begin
      /\ d.begin <= q /\ q <= d.end /\ q - d.begin = 1
  <2>1. Fields(d) /\ d.begin \in Int /\ a \in Int /\ d.end \in Int
    BY <1>1, LayoutFacts
  <2> QED
    BY <1>1, <2>1 DEF Size
<1>3. e = [size |-> d.size, begin |-> d.begin, end |-> d.end, cell |-> c]
  <2>1. e = [d EXCEPT !.cell = c]
    BY <1>1, Zenon DEF Destroy
  <2> QED
    BY <1>2, <2>1, DequeUpdates
<1>4. [e EXCEPT !.begin = @ + 1] = [size |-> d.size, begin |-> q, end |-> d.end, cell |-> c]
  BY <1>1, <1>3
<1>5. PopFront(d) = IF Offset(q) = 0
                    THEN [size |-> d.size, begin |-> q, end |-> d.end,
                          cell |-> CellsLeft(c, {a})]
                    ELSE [size |-> d.size, begin |-> q, end |-> d.end, cell |-> c]
  <2>1. PICK f : f = [e EXCEPT !.begin = @ + 1]
    OBVIOUS
  <2>2. PopFront(d) = IF Offset(f.begin) = 0 THEN [f EXCEPT !.cell = CellsLeft(@, {a})] ELSE f
    BY <1>1, <2>1, Zenon DEF PopFront, FreeSubarrays
  <2>3. f = [size |-> d.size, begin |-> q, end |-> d.end, cell |-> c]
    BY <1>4, <2>1, Zenon
  <2> QED
    BY <2>2, <2>3
<1>6. PICK slots : slots = a..(b - 1)
  OBVIOUS
<1>7. PopFront(d) = [size |-> d.size, begin |-> q, end |-> d.end,
                     cell |-> CellsLeft(c, slots)]
  <2>1. CASE Offset(q) = 0
    <3>1. b = a + 1
      BY <1>1, <1>2, <2>1, SlotStep
    <3>2. slots = {a}
      BY <1>2, <1>6, <3>1
    <3> QED
      BY <1>5, <2>1, <3>2, Zenon
  <2>2. CASE Offset(q) # 0
    <3>1. b = a
      BY <1>1, <1>2, <2>2, SlotStep
    <3>2. slots = {}
      BY <1>2, <1>6, <3>1
    <3>3. CellsLeft(c, {}) = c
      BY <1>1, NothingFreed
    <3> QED
      BY <1>5, <2>2, <3>2, <3>3, Zenon
  <2> QED
    BY <2>1, <2>2
<1>8. c = Fill(d.cell, d.begin..(q - 1), Raw)
  <2>1. d.begin..(q - 1) = {d.begin}
    BY <1>2
  <2> QED
    BY <1>1, <2>1, Zenon
<1>9. slots = Slot(d.begin)..(Slot(q) - 1)
  BY <1>1, <1>6, Zenon
<1>10. Effect(d, PopFront(d), 0, q - d.begin, 0, v)
  BY <1>2, <1>7, <1>8, <1>9, FrontFreed
<1> QED
  BY <1>2, <1>10

\* One element destroyed.
LEMMA DestroyedPlace ==
  ASSUME NEW cell, NEW q \in DOMAIN cell
  PROVE  Fill(cell, {q}, Raw) = [p \in DOMAIN cell |-> IF p = q THEN Raw ELSE cell[p]]
<1>1. {q} \cup DOMAIN cell = DOMAIN cell
  OBVIOUS
<1> QED
  BY <1>1 DEF Fill

\* pop_back frees a subarray exactly when it leaves it.
LEMMA PopBackEffect ==
  ASSUME DequeAssumption, NEW d, Layout(d), 1 <= Size(d), NEW v
  PROVE  Effect(d, PopBack(d), Size(d) - 1, Size(d), 0, v)
<1>1. PICK q, lo, hi, high, c, a, b, slots :
        /\ q = d.end - 1 /\ a = Slot(q) /\ b = Slot(d.end) /\ slots = (a + 1)..b
        /\ lo = FirstPlace(Slot(d.begin)) /\ hi = LastPlace(b) /\ high = LastPlace(a)
        /\ c = Fill(d.cell, {q}, Raw)
  OBVIOUS
<1>2. /\ Fields(d) /\ d.begin \in Int /\ d.end \in Int /\ b \in Int /\ lo \in Int /\ hi \in Int
      /\ lo <= d.begin /\ d.end <= hi /\ DOMAIN d.cell = lo..hi
      /\ d.cell = [p \in lo..hi |-> d.cell[p]]
  <2>1. /\ Fields(d) /\ d.begin \in Int /\ d.end \in Int /\ b \in Int /\ lo \in Int /\ hi \in Int
        /\ lo <= d.begin /\ d.end <= hi /\ DOMAIN d.cell = lo..hi
    BY <1>1, LayoutFacts
  <2>2. d.cell = [p \in DOMAIN d.cell |-> d.cell[p]]
    BY LayoutFacts
  <2> QED
    BY <2>1, <2>2
<1>3. /\ q \in Int /\ q + 1 = d.end /\ d.begin <= q /\ q <= d.end /\ q - d.begin = Size(d) - 1
  BY <1>1, <1>2, SMTT(30) DEF Size
<1>4. a \in Int /\ high \in Int /\ q <= high /\ high <= hi /\ a <= b
  BY <1>1, <1>2, <1>3, SlotsInOrder, SlotBounds
<1>5. c = [p \in lo..hi |-> IF p = q THEN Raw ELSE d.cell[p]]
  <2>1. q \in lo..hi
    BY <1>2, <1>3
  <2>2. q \in DOMAIN d.cell
    BY <1>2, <2>1, Zenon
  <2>3. Fill(d.cell, {q}, Raw) = [p \in DOMAIN d.cell |-> IF p = q THEN Raw ELSE d.cell[p]]
    BY <2>2, DestroyedPlace, Zenon
  <2> QED
    BY <1>1, <1>2, <2>3, Zenon
<1>inuse. PlacesOf(slots) \subseteq lo..hi
  <2>1. lo <= LastPlace(a) + 1
    BY <1>1, <1>2, <1>3, <1>4
  <2>2. slots = (a + 1)..b
    BY <1>1, Zenon
  <2>3. PlacesOf(slots) \subseteq lo..LastPlace(b)
    BY <1>2, <1>4, <2>1, <2>2, BackInUse
  <2> QED
    BY <1>1, <2>3, Zenon
<1>6. CellsLeft(c, slots) = [p \in lo..high |-> IF p = q THEN Raw ELSE d.cell[p]]
  <2>1. (lo..hi) \ PlacesOf(slots) = lo..high
    BY <1>1, <1>2, <1>4, FreeBack
  <2>2. \A p \in lo..high : p \in lo..hi
    BY <1>2, <1>4
  <2>3. DOMAIN c = lo..hi
    BY <1>5
  <2>4. PlacesOf(slots) \subseteq DOMAIN c
    BY <1>inuse, <2>3, Zenon
  <2>5. CellsLeft(c, slots) = Restrict(c, DOMAIN c \ PlacesOf(slots))
    BY <2>4, FreedIs, Zenon
  <2> QED
    BY <1>5, <2>1, <2>2, <2>5 DEF Restrict
<1>7. PICK e : e = IF Offset(d.end) = 0 THEN FreeSubarrays(d, {b}) ELSE d
  OBVIOUS
<1>8. /\ Fields(e) /\ e.size = d.size /\ e.begin = d.begin /\ e.end = d.end
      /\ e.cell = [p \in lo..high |-> d.cell[p]]
  <2>1. CASE Offset(d.end) = 0
    <3>1. b = a + 1
      BY <1>1, <1>2, <2>1, SlotStep
    <3>2. slots = {b}
      BY <1>1, <1>4, <3>1
    <3>3. (lo..hi) \ PlacesOf(slots) = lo..high
      BY <1>1, <1>2, <1>4, FreeBack
    <3>4. (DOMAIN d.cell) \ PlacesOf({b}) = lo..high
      BY <1>2, <3>2, <3>3, Zenon
    <3>5. CellsLeft(d.cell, {b}) = [p \in lo..high |-> d.cell[p]]
      <4>1. PlacesOf({b}) \subseteq DOMAIN d.cell
        BY <1>2, <1>inuse, <3>2, Zenon
      <4>2. CellsLeft(d.cell, {b}) = Restrict(d.cell, DOMAIN d.cell \ PlacesOf({b}))
        BY <4>1, FreedIs, Zenon
      <4> QED
        BY <3>4, <4>2, Zenon DEF Restrict
    <3>6. PICK g : g = [p \in lo..high |-> d.cell[p]]
      OBVIOUS
    <3>7. e = [d EXCEPT !.cell = g]
      BY <1>7, <2>1, <3>5, <3>6, Zenon DEF FreeSubarrays
    <3>8. e = [size |-> d.size, begin |-> d.begin, end |-> d.end, cell |-> g]
      BY <1>2, <3>7, DequeUpdates
    <3> QED
      BY <3>6, <3>8 DEF Fields
  <2>2. CASE Offset(d.end) # 0
    <3>1. a = b
      BY <1>1, <1>2, <2>2, SlotStep
    <3>2. e = d /\ high = hi
      BY <1>1, <1>7, <2>2, <3>1
    <3> QED
      BY <1>2, <3>2
  <2> QED
    BY <2>1, <2>2
<1>9. PICK f : f = Fill(e.cell, {e.end - 1}, Raw)
  OBVIOUS
<1>10. f = [p \in lo..high |-> IF p = q THEN Raw ELSE d.cell[p]]
  <2>1. q \in lo..high /\ e.end - 1 = q
    BY <1>1, <1>2, <1>3, <1>4, <1>8
  <2>2. DOMAIN e.cell = lo..high
    BY <1>8
  <2>3. q \in DOMAIN e.cell
    BY <2>1, <2>2, Zenon
  <2>4. Fill(e.cell, {q}, Raw) = [p \in DOMAIN e.cell |-> IF p = q THEN Raw ELSE e.cell[p]]
    BY <2>3, DestroyedPlace, Zenon
  <2>5. f = [p \in lo..high |-> IF p = q THEN Raw ELSE e.cell[p]]
    BY <1>9, <2>1, <2>2, <2>4, Zenon
  <2> QED
    BY <1>8, <2>5
<1>11. PopBack(d) = [size |-> d.size, begin |-> d.begin, end |-> q, cell |-> f]
  <2>1. PICK g : g = Destroy(e, {e.end - 1})
    OBVIOUS
  <2>2. PopBack(d) = [g EXCEPT !.end = @ - 1]
    BY <1>1, <1>7, <2>1, Zenon DEF PopBack
  <2>3. g = [size |-> d.size, begin |-> d.begin, end |-> d.end, cell |-> f]
    <3>1. g = [e EXCEPT !.cell = f]
      BY <1>9, <2>1, Zenon DEF Destroy
    <3> QED
      <4>1. g = [size |-> e.size, begin |-> e.begin, end |-> e.end, cell |-> f]
        BY <1>8, <3>1, DequeUpdates
      <4> QED
        BY <1>8, <4>1
  <2> QED
    BY <1>1, <2>2, <2>3
<1>12. PopBack(d) = [size |-> d.size, begin |-> d.begin, end |-> q, cell |-> CellsLeft(c, slots)]
  BY <1>6, <1>10, <1>11, Zenon
<1>13. c = Fill(d.cell, q..(d.end - 1), Raw) /\ slots = (Slot(q) + 1)..Slot(d.end)
  <2>1. q..(d.end - 1) = {q}
    BY <1>2, <1>3
  <2> QED
    BY <1>1, <2>1, Zenon
<1>14. Effect(d, PopBack(d), q - d.begin, Size(d), 0, v)
  BY <1>3, <1>12, <1>13, BackFreed
<1> QED
  BY <1>3, <1>14

\* clear keeps the subarray of begin alone.
LEMMA ClearEffect ==
  ASSUME DequeAssumption, NEW d, Layout(d), NEW v
  PROVE  Effect(d, Clear(d), 0, Size(d), 0, v)
<1>1. PICK q, c, slots, e, f :
        /\ q = d.begin /\ c = Fill(d.cell, q..(d.end - 1), Raw)
        /\ slots = (Slot(q) + 1)..Slot(d.end)
        /\ e = Destroy(d, q..(d.end - 1)) /\ f = FreeSubarrays(e, slots)
  OBVIOUS
<1>2. Fields(d) /\ d.begin \in Int /\ d.end \in Int /\ d.begin <= d.end /\ q - d.begin = 0
  <2>1. Fields(d) /\ d.begin \in Int /\ d.end \in Int /\ d.begin <= d.end
    BY LayoutFacts
  <2> QED
    BY <1>1, <2>1
<1>3. e = [size |-> d.size, begin |-> d.begin, end |-> d.end, cell |-> c]
  <2>1. e = [d EXCEPT !.cell = c]
    BY <1>1, Zenon DEF Destroy
  <2> QED
    BY <1>2, <2>1, DequeUpdates
<1>4. f = [size |-> d.size, begin |-> d.begin, end |-> d.end, cell |-> CellsLeft(c, slots)]
  <2>1. PICK g : g = CellsLeft(c, slots)
    OBVIOUS
  <2>2. f = [e EXCEPT !.cell = CellsLeft(e.cell, slots)] /\ e.cell = c
    BY <1>1, <1>3 DEF FreeSubarrays
  <2>3. f = [e EXCEPT !.cell = g]
    BY <2>1, <2>2, Zenon
  <2> QED
    BY <1>3, <2>1, <2>3
<1>5. Clear(d) = [f EXCEPT !.end = d.begin]
  BY <1>1, Zenon DEF Clear
<1>6. Clear(d) = [size |-> d.size, begin |-> d.begin, end |-> q, cell |-> CellsLeft(c, slots)]
  BY <1>1, <1>4, <1>5
<1>7. q \in Int /\ d.begin <= q /\ q <= d.end
  BY <1>1, <1>2
<1>8. Effect(d, Clear(d), q - d.begin, Size(d), 0, v)
  BY <1>1, <1>6, <1>7, BackFreed
<1> QED
  BY <1>2, <1>8

\* Elements that move within a deque leave its layout as it is.
LEMMA MovedLayout ==
  ASSUME DequeAssumption, NEW d, Layout(d), NEW first \in Int, NEW n \in Nat, NEW to \in Int,
         d.begin <= first, first + n <= d.end, d.begin <= to, to + n <= d.end,
         NEW x, x = [size |-> d.size, begin |-> d.begin, end |-> d.end, cell |-> AfterMove(d.cell, first, n, to)]
  PROVE  /\ Layout(x) /\ Fields(d) /\ d.begin \in Int /\ d.end \in Int
         /\ d.cell = [p \in DOMAIN d.cell |-> d.cell[p]]
         /\ first..(first + n - 1) \subseteq DOMAIN d.cell /\ to..(to + n - 1) \subseteq DOMAIN d.cell
<1>1. PICK lo, hi : lo = FirstPlace(Slot(d.begin)) /\ hi = LastPlace(Slot(d.end))
  OBVIOUS
<1>2. /\ Fields(d) /\ d.begin \in Int /\ d.end \in Int /\ lo \in Int /\ hi \in Int
      /\ lo <= d.begin /\ d.end <= hi /\ DOMAIN d.cell = lo..hi
  BY <1>1, LayoutFacts
<1>3. d.cell = [p \in DOMAIN d.cell |-> d.cell[p]]
  BY LayoutFacts
<1>4. first..(first + n - 1) \subseteq lo..hi /\ to..(to + n - 1) \subseteq lo..hi
  BY <1>2
<1>5. first..(first + n - 1) \subseteq d.begin..(d.end - 1) /\ to..(to + n - 1) \subseteq d.begin..(d.end - 1)
  BY <1>2
<1>6. \A p \in lo..hi : p \notin d.begin..(d.end - 1) => d.cell[p] = Raw
  BY <1>2 DEF Layout
<1>7. PICK c : c = AfterMove(d.cell, first, n, to)
  OBVIOUS
<1>8. c = [p \in lo..hi |-> c[p]] /\ DOMAIN c = lo..hi
  BY <1>2, <1>7 DEF AfterMove
<1>9. \A p \in lo..hi : p \notin d.begin..(d.end - 1) => c[p] = Raw
  BY <1>2, <1>5, <1>6, <1>7 DEF AfterMove
<1>10. Fields(x) /\ x.size = d.size /\ x.begin = d.begin /\ x.end = d.end /\ x.cell = c
  BY <1>7 DEF Fields
<1>11. /\ d.size \in Int /\ d.begin \in Int /\ d.end \in Int /\ d.begin <= d.end
       /\ 0 <= Slot(d.begin) /\ Slot(d.end) < d.size
  BY DEF Layout
<1>12. \A p \in DOMAIN x.cell : p \notin x.begin..(x.end - 1) => x.cell[p] = Raw
  BY <1>8, <1>9, <1>10
<1>13. x.cell = [p \in FirstPlace(Slot(x.begin))..LastPlace(Slot(x.end)) |-> x.cell[p]]
  BY <1>1, <1>8, <1>10, Zenon
<1>14. Layout(x)
  BY <1>10, <1>11, <1>12, <1>13 DEF Layout
<1> QED
  BY <1>2, <1>3, <1>4, <1>14

\* The first i elements have moved n places back, and what is before them goes.
LEMMA FrontMoved ==
  ASSUME DequeAssumption, NEW d, Layout(d), NEW i \in Nat, NEW n \in Nat, i + n <= Size(d), NEW v,
         NEW x, x.begin = d.begin, x.end = d.end, x.cell = AfterMove(d.cell, d.begin, i, d.begin + n),
         NEW r, Effect(x, r, 0, n, 0, v)
  PROVE  Effect(d, r, i, i + n, 0, v)
<1>1. PICK lo, hi, low, high :
        /\ lo = FirstPlace(Slot(d.begin)) /\ hi = LastPlace(Slot(d.end))
        /\ low = FirstPlace(Slot(r.begin)) /\ high = LastPlace(Slot(r.end))
  OBVIOUS
<1>2. /\ d.begin \in Int /\ d.end \in Int /\ lo \in Int /\ hi \in Int
      /\ lo <= d.begin /\ d.end <= hi
  BY <1>1, LayoutFacts
<1>9. DOMAIN d.cell = lo..hi
  BY <1>1, LayoutFacts
<1>3. i + n <= d.end - d.begin
  BY <1>2 DEF Size
<1>4. /\ Fields(r) /\ r.size \in Int /\ r.begin \in Int /\ r.end \in Int
      /\ r.end - r.begin = 0 + 0 + (d.end - d.begin - n)
      /\ 0 <= Slot(r.begin) /\ Slot(r.end) < r.size
  BY <1>1 DEF Effect
<1>0. r.cell = [p \in low..high |-> After(x, r, 0, 0, v, p)]
  BY <1>1 DEF Effect
<1>5. low \in Int /\ high \in Int
  BY <1>1, <1>4, SlotBounds
<1>6. ASSUME NEW p \in low..high PROVE After(x, r, 0, 0, v, p) = After(d, r, i, 0, v, p)
  <2>1. PICK y : y = p - r.end + d.end
    OBVIOUS
  <2>2. p \in Int /\ y \in Int
    BY <1>2, <1>4, <1>5, <2>1
  <2>3. CASE p \notin r.begin..(r.end - 1)
    BY <2>3, Zenon DEF After
  <2>4. CASE p \in r.begin..(r.end - 1)
    <3>1. After(x, r, 0, 0, v, p) = x.cell[y] /\ x.cell[y] = AfterMove(d.cell, d.begin, i, d.begin + n)[y]
      <4>1. ~(p < r.begin + 0) /\ ~(p < r.begin + 0 + 0) /\ x.end = d.end
        BY <1>4, <2>2, <2>4
      <4>2. x.cell = AfterMove(d.cell, d.begin, i, d.begin + n)
        OBVIOUS
      <4> QED
        BY <2>1, <2>4, <4>1, <4>2, Zenon DEF After
    <3>2. /\ y \in lo..hi /\ y >= d.begin + n /\ (p < r.begin + i <=> y < d.begin + n + i)
          /\ p - r.begin + d.begin = y - (d.begin + n) + d.begin
          /\ p < r.begin + i + 0 <=> p < r.begin + i
      <4>1. /\ r.begin \in Int /\ r.end = r.begin + (d.end - d.begin - n) /\ r.begin <= p /\ p < r.end
            /\ y = p - r.end + d.end
        <5>1. r.begin \in Int /\ r.end \in Int /\ r.end - r.begin = 0 + 0 + (d.end - d.begin - n)
          BY <1>4
        <5>2. r.begin <= p /\ p < r.end
          BY <2>2, <2>4, <5>1
        <5> QED
          BY <1>2, <2>1, <5>1, <5>2
      <4>2. y = p - r.begin + d.begin + n
        BY <1>2, <2>2, <4>1
      <4>3. y >= d.begin + n /\ y < d.end
        BY <1>2, <2>2, <4>1, <4>2
      <4>4. y \in lo..hi
        BY <1>2, <2>2, <4>3
      <4>5. p < r.begin + i <=> y < d.begin + n + i
        BY <1>2, <2>2, <4>1, <4>2
      <4>6. p - r.begin + d.begin = y - (d.begin + n) + d.begin /\ r.begin + i + 0 = r.begin + i
        BY <1>2, <2>2, <4>1, <4>2
      <4> QED
        BY <4>3, <4>4, <4>5, <4>6
    <3>3. /\ y \in (d.begin + n)..(d.begin + n + i - 1) <=> y < d.begin + n + i
          /\ ~(y < d.begin + n + i) => y \notin d.begin..(d.begin + i - 1)
      BY <1>2, <2>2, <3>2
    <3>4. AfterMove(d.cell, d.begin, i, d.begin + n)[y]
            = IF y < d.begin + n + i THEN d.cell[y - (d.begin + n) + d.begin] ELSE d.cell[y]
      BY <1>9, <3>2, <3>3 DEF AfterMove
    <3> QED
      BY <2>1, <2>4, <3>1, <3>2, <3>4, Zenon DEF After
  <2> QED
    BY <2>3, <2>4
<1>7. r.cell = [p \in low..high |-> After(d, r, i, 0, v, p)]
  BY <1>0, <1>6
<1>8. r.end - r.begin = i + 0 + (d.end - d.begin - (i + n))
  BY <1>2, <1>4
<1> QED
  BY <1>1, <1>4, <1>7, <1>8 DEF Effect

\* The elements from j on have moved to the place of i, and what is behind them goes.
LEMMA BackMoved ==
  ASSUME DequeAssumption, NEW d, Layout(d), NEW i \in Nat, NEW j \in Nat, i <= j, j <= Size(d), NEW v,
         NEW x, x.begin = d.begin, x.end = d.end,
         x.cell = AfterMove(d.cell, d.begin + j, Size(d) - j, d.begin + i),
         NEW r, Effect(x, r, Size(d) - (j - i), Size(d), 0, v)
  PROVE  Effect(d, r, i, j, 0, v)
<1>1. PICK lo, hi, low, high, n, m :
        /\ lo = FirstPlace(Slot(d.begin)) /\ hi = LastPlace(Slot(d.end))
        /\ low = FirstPlace(Slot(r.begin)) /\ high = LastPlace(Slot(r.end))
        /\ n = Size(d) /\ m = n - (j - i)
  OBVIOUS
<1>2. /\ d.begin \in Int /\ d.end \in Int /\ lo \in Int /\ hi \in Int
      /\ lo <= d.begin /\ d.end <= hi
  BY <1>1, LayoutFacts
<1>9. DOMAIN d.cell = lo..hi
  BY <1>1, LayoutFacts
<1>3. n = d.end - d.begin /\ n \in Int /\ m \in Int /\ j <= n
  BY <1>1, <1>2 DEF Size
<1>4. /\ Fields(r) /\ r.size \in Int /\ r.begin \in Int /\ r.end \in Int
      /\ r.end - r.begin = m + 0 + (d.end - d.begin - n)
      /\ 0 <= Slot(r.begin) /\ Slot(r.end) < r.size
  BY <1>1 DEF Effect
<1>0. r.cell = [p \in low..high |-> After(x, r, m, 0, v, p)]
  BY <1>1 DEF Effect
<1>5. low \in Int /\ high \in Int
  BY <1>1, <1>4, SlotBounds
<1>6. ASSUME NEW p \in low..high PROVE After(x, r, m, 0, v, p) = After(d, r, i, 0, v, p)
  <2>1. PICK y : y = p - r.begin + d.begin
    OBVIOUS
  <2>2. p \in Int /\ y \in Int
    BY <1>2, <1>4, <1>5, <2>1
  <2>3. CASE p \notin r.begin..(r.end - 1)
    BY <2>3, Zenon DEF After
  <2>4. CASE p \in r.begin..(r.end - 1)
    <3>1. After(x, r, m, 0, v, p) = x.cell[y] /\ x.cell[y] = AfterMove(d.cell, d.begin + j, n - j, d.begin + i)[y]
      <4>1. p < r.begin + m /\ x.begin = d.begin
        BY <1>3, <1>4, <2>2, <2>4
      <4>2. x.cell = AfterMove(d.cell, d.begin + j, n - j, d.begin + i)
        BY <1>1
      <4> QED
        BY <2>1, <2>4, <4>1, <4>2, Zenon DEF After
    <3>2. /\ y \in lo..hi /\ y < d.begin + m /\ d.begin <= y /\ (p < r.begin + i <=> y < d.begin + i)
          /\ p - r.end + d.end = y - (d.begin + i) + (d.begin + j)
          /\ p < r.begin + i + 0 <=> p < r.begin + i
      <4>1. /\ r.begin \in Int /\ r.end = r.begin + m /\ r.begin <= p /\ p < r.end
            /\ m = n - (j - i) /\ d.end = d.begin + n
        <5>1. r.begin \in Int /\ r.end \in Int /\ r.end - r.begin = m + 0 + (d.end - d.begin - n)
          BY <1>4
        <5>2. r.begin <= p /\ p < r.end
          BY <2>2, <2>4, <5>1
        <5>3. m = n - (j - i) /\ d.end = d.begin + n
          BY <1>1, <1>2, <1>3
        <5> QED
          BY <1>2, <1>3, <5>1, <5>2, <5>3
      <4>2. d.begin <= y /\ y < d.begin + m
        BY <1>2, <1>3, <2>1, <2>2, <4>1
      <4>3. y \in lo..hi
        BY <1>2, <1>3, <2>2, <4>1, <4>2
      <4>4. p < r.begin + i <=> y < d.begin + i
        BY <1>2, <2>1, <2>2, <4>1
      <4>5. p - r.end + d.end = y - (d.begin + i) + (d.begin + j) /\ r.begin + i + 0 = r.begin + i
        BY <1>2, <1>3, <2>1, <2>2, <4>1
      <4> QED
        BY <4>2, <4>3, <4>4, <4>5
    <3>3. /\ y \in (d.begin + i)..(d.begin + i + (n - j) - 1) <=> ~(y < d.begin + i)
          /\ y < d.begin + i => y \notin (d.begin + j)..(d.begin + j + (n - j) - 1)
      <4>1. m = n - (j - i) /\ y < d.begin + m /\ d.begin <= y
        BY <1>1, <3>2
      <4> QED
        BY <1>2, <1>3, <2>2, <4>1
    <3>4. AfterMove(d.cell, d.begin + j, n - j, d.begin + i)[y]
            = IF y < d.begin + i THEN d.cell[y] ELSE d.cell[y - (d.begin + i) + (d.begin + j)]
      BY <1>9, <3>2, <3>3 DEF AfterMove
    <3> QED
      BY <2>1, <2>4, <3>1, <3>2, <3>4, Zenon DEF After
  <2> QED
    BY <2>3, <2>4
<1>7. r.cell = [p \in low..high |-> After(d, r, i, 0, v, p)]
  BY <1>0, <1>6
<1>8. r.end - r.begin = i + 0 + (d.end - d.begin - j)
  BY <1>1, <1>2, <1>3, <1>4
<1> QED
  BY <1>1, <1>4, <1>7, <1>8 DEF Effect

\* The fields of a record of the four.
LEMMA RecordFields ==
  ASSUME NEW x, NEW s, NEW b, NEW e, NEW c, x = [size |-> s, begin |-> b, end |-> e, cell |-> c]
  PROVE  Fields(x) /\ x.size = s /\ x.begin = b /\ x.end = e /\ x.cell = c
  BY DEF Fields

\* Moving elements within a deque, in the order that reads each before it is written.
MovedTo(d, x, first, n, to) ==
  /\ Layout(x) /\ Fields(x) /\ x.size = d.size /\ x.begin = d.begin /\ x.end = d.end
  /\ x.cell = AfterMove(d.cell, first, n, to)

\* Both orders of moving are right towards the side they are used for.
LEMMA MovedDeque ==
  ASSUME DequeAssumption, NEW d, Layout(d), NEW first \in Int, NEW n \in Nat, NEW to \in Int,
         d.begin <= first, first + n <= d.end, d.begin <= to, to + n <= d.end
  PROVE  /\ first <= to => MovedTo(d, [d EXCEPT !.cell = Move(@, first, n, to, TRUE)], first, n, to)
         /\ to <= first => MovedTo(d, [d EXCEPT !.cell = Move(@, first, n, to, FALSE)], first, n, to)
<1>1. PICK c : c = AfterMove(d.cell, first, n, to)
  OBVIOUS
<1>2. PICK y : y = [size |-> d.size, begin |-> d.begin, end |-> d.end, cell |-> AfterMove(d.cell, first, n, to)]
  OBVIOUS
<1>3. /\ Layout(y) /\ Fields(d)
      /\ d.cell = [p \in DOMAIN d.cell |-> d.cell[p]]
      /\ first..(first + n - 1) \subseteq DOMAIN d.cell /\ to..(to + n - 1) \subseteq DOMAIN d.cell
  BY <1>2, MovedLayout
<1>4. /\ first <= to => Move(d.cell, first, n, to, TRUE) = c
      /\ to <= first => Move(d.cell, first, n, to, FALSE) = c
  <2>1. ASSUME first <= to PROVE Move(d.cell, first, n, to, TRUE) = c
    BY <1>1, <1>3, <2>1, MoveBackward
  <2>2. ASSUME to <= first PROVE Move(d.cell, first, n, to, FALSE) = c
    BY <1>1, <1>3, <2>2, MoveForward
  <2> QED
    BY <2>1, <2>2
<1>5. PICK x : x = [d EXCEPT !.cell = c]
  OBVIOUS
<1>6. x = [size |-> d.size, begin |-> d.begin, end |-> d.end, cell |-> c]
  BY <1>3, <1>5, DequeUpdates
<1>7. x = y
  BY <1>1, <1>2, <1>6, Zenon
<1>8. Fields(x) /\ x.size = d.size /\ x.begin = d.begin /\ x.end = d.end /\ x.cell = c
  BY <1>6, RecordFields
<1>9. MovedTo(d, x, first, n, to)
  BY <1>1, <1>3, <1>7, <1>8, Zenon DEF MovedTo
<1> QED
  BY <1>4, <1>5, <1>9, Zenon

\* erase of one element, whichever rest moves.
LEMMA ErasePositionEffect ==
  ASSUME DequeAssumption, NEW d, Layout(d), NEW i \in Nat, i < Size(d), NEW v
  PROVE  Effect(d, ErasePosition(d, i), i, i + 1, 0, v)
<1>1. PICK n : n = Size(d)
  OBVIOUS
<1>2. d.begin \in Int /\ d.end \in Int /\ n = d.end - d.begin
  <2>1. d.begin \in Int /\ d.end \in Int
    BY LayoutFacts
  <2> QED
    BY <1>1, <2>1 DEF Size
<1>3. CASE i < n \div 2
  <2>1. PICK first, to, x : /\ first = d.begin /\ to = d.begin + 1
                            /\ x = [d EXCEPT !.cell = Move(@, first, i, to, TRUE)]
    OBVIOUS
  <2>2. /\ first \in Int /\ to \in Int /\ first <= to /\ d.begin <= first /\ d.begin <= to
        /\ first + i <= d.end /\ to + i <= d.end
    BY <1>1, <1>2, <2>1
  <2>3. /\ Layout(x) /\ x.begin = d.begin /\ x.end = d.end /\ x.cell = AfterMove(d.cell, first, i, to)
    <3>1. MovedTo(d, [d EXCEPT !.cell = Move(@, first, i, to, TRUE)], first, i, to)
      BY <2>2, MovedDeque
    <3> QED
      BY <2>1, <3>1, Zenon DEF MovedTo
  <2>4. PICK r : r = PopFront(x)
    OBVIOUS
  <2>5. ErasePosition(d, i) = r
    BY <1>1, <1>3, <2>1, <2>4, Zenon DEF ErasePosition
  <2>6. 1 <= Size(x)
    BY <1>1, <1>2, <2>3 DEF Size
  <2>7. Effect(x, r, 0, 1, 0, v)
    BY <2>3, <2>4, <2>6, PopFrontEffect
  <2>8. PICK k : k = 1
    OBVIOUS
  <2>9. k \in Nat /\ i + k <= Size(d) /\ x.cell = AfterMove(d.cell, d.begin, i, d.begin + k) /\ Effect(x, r, 0, k, 0, v)
    <3>1. k \in Nat /\ i + k <= Size(d)
      BY <1>1, <1>2, <2>8
    <3> QED
      BY <2>1, <2>3, <2>7, <2>8, <3>1, Zenon
  <2>10. Effect(d, r, i, i + k, 0, v)
    BY <2>3, <2>9, FrontMoved
  <2> QED
    BY <2>5, <2>8, <2>10, Zenon
<1>4. CASE ~(i < n \div 2)
  <2>1. PICK j, first, k, to, x : /\ j = i + 1 /\ first = d.begin + j /\ k = n - j /\ to = d.begin + i
                                  /\ x = [d EXCEPT !.cell = Move(@, first, k, to, FALSE)]
    OBVIOUS
  <2>2. /\ first \in Int /\ to \in Int /\ to <= first /\ d.begin <= first /\ d.begin <= to
        /\ k \in Nat /\ first + k <= d.end /\ to + k <= d.end /\ j \in Nat /\ i <= j /\ j <= n
        /\ first = d.begin + i + 1 /\ k = n - i - 1
    BY <1>1, <1>2, <2>1
  <2>3. /\ Layout(x) /\ x.begin = d.begin /\ x.end = d.end /\ x.cell = AfterMove(d.cell, first, k, to)
    <3>1. MovedTo(d, [d EXCEPT !.cell = Move(@, first, k, to, FALSE)], first, k, to)
      BY <2>2, MovedDeque
    <3> QED
      BY <2>1, <3>1, Zenon DEF MovedTo
  <2>4. PICK r : r = PopBack(x)
    OBVIOUS
  <2>5. ErasePosition(d, i) = r
    BY <1>1, <1>4, <2>1, <2>2, <2>4, Zenon DEF ErasePosition
  <2>6. Size(x) = n /\ 1 <= n
    BY <1>1, <1>2, <2>3 DEF Size
  <2>7. Effect(x, r, n - 1, n, 0, v)
    BY <2>3, <2>4, <2>6, PopBackEffect
  <2>8. n - 1 = n - (j - i)
    BY <1>2, <2>1
  <2>9. Effect(x, r, Size(d) - (j - i), Size(d), 0, v)
    BY <1>1, <2>7, <2>8
  <2>10. x.cell = AfterMove(d.cell, d.begin + j, Size(d) - j, d.begin + i)
    BY <1>1, <2>1, <2>3, Zenon
  <2>11. Effect(d, r, i, j, 0, v)
    BY <1>1, <2>2, <2>3, <2>9, <2>10, BackMoved
  <2> QED
    BY <2>1, <2>5, <2>11, Zenon
<1> QED
  BY <1>3, <1>4

\* The record that destroying elements and freeing subarrays leaves.
FreedAs(x, places, k, slots, c) ==
  /\ FreeSubarrays([Destroy(x, places) EXCEPT !.begin = @ + k], slots)
       = [size |-> x.size, begin |-> x.begin + k, end |-> x.end,
          cell |-> CellsLeft(c, slots)]
  /\ FreeSubarrays([Destroy(x, places) EXCEPT !.end = @ - k], slots)
       = [size |-> x.size, begin |-> x.begin, end |-> x.end - k,
          cell |-> CellsLeft(c, slots)]

\* Its fields, read off.
LEMMA FreedFields ==
  ASSUME NEW x, Fields(x), NEW places, NEW k, NEW slots, NEW c, c = Fill(x.cell, places, Raw)
  PROVE  FreedAs(x, places, k, slots, c)
<1>1. PICK f, g, h, left : /\ f = Destroy(x, places)
                           /\ g = [f EXCEPT !.begin = @ + k] /\ h = [f EXCEPT !.end = @ - k]
                           /\ left = CellsLeft(c, slots)
  OBVIOUS
<1>2. f = [size |-> x.size, begin |-> x.begin, end |-> x.end, cell |-> c]
  <2>1. f = [x EXCEPT !.cell = c]
    BY <1>1, Zenon DEF Destroy
  <2> QED
    BY <2>1, DequeUpdates
<1>3. /\ g = [size |-> x.size, begin |-> x.begin + k, end |-> x.end, cell |-> c]
      /\ h = [size |-> x.size, begin |-> x.begin, end |-> x.end - k, cell |-> c]
  <2>1. f.begin = x.begin /\ f.end = x.end
    BY <1>2
  <2>2. g = [f EXCEPT !.begin = x.begin + k] /\ h = [f EXCEPT !.end = x.end - k]
    BY <1>1, <2>1, Zenon
  <2> QED
    BY <1>2, <2>2
<1>4. g.cell = c /\ h.cell = c
  BY <1>3
<1>5. FreeSubarrays(g, slots) = [g EXCEPT !.cell = left] /\ FreeSubarrays(h, slots) = [h EXCEPT !.cell = left]
  BY <1>1, <1>4, Zenon DEF FreeSubarrays
<1>6. /\ [g EXCEPT !.cell = left] = [size |-> x.size, begin |-> x.begin + k, end |-> x.end, cell |-> left]
      /\ [h EXCEPT !.cell = left] = [size |-> x.size, begin |-> x.begin, end |-> x.end - k, cell |-> left]
  BY <1>3
<1> QED
  BY <1>1, <1>5, <1>6, Zenon DEF FreedAs

\* erase of a range, whichever rest moves.
LEMMA EraseEffect ==
  ASSUME DequeAssumption, NEW d, Layout(d), NEW i \in Nat, NEW j \in Nat, i <= j, j <= Size(d), NEW v
  PROVE  Effect(d, Erase(d, i, j), i, j, 0, v)
<1>1. PICK s, n, m, r : s = Size(d) /\ n = j - i /\ m = s - n /\ r = Erase(d, i, j)
  OBVIOUS
<1>2. /\ Fields(d) /\ d.begin \in Int /\ d.end \in Int /\ s = d.end - d.begin
      /\ n \in Nat /\ m = s - (j - i) /\ j = i + n /\ m \in Nat
  <2>1. Fields(d) /\ d.begin \in Int /\ d.end \in Int
    BY LayoutFacts
  <2>2. s = d.end - d.begin
    BY <1>1, <2>1 DEF Size
  <2> QED
    BY <1>1, <2>1, <2>2
<1>3. CASE i = 0 /\ j = s
  <2>1. r = Clear(d)
    <3>1. i = 0 /\ j = Size(d)
      BY <1>1, <1>3
    <3> QED
      BY <1>1, <3>1 DEF Erase
  <2> QED
    BY <1>1, <1>3, <2>1, ClearEffect
<1>4. CASE ~(i = 0 /\ j = s) /\ (n < s /\ i < (s - n) \div 2)
  <2>0. PICK first, to : first = d.begin /\ to = d.begin + n
    OBVIOUS
  <2>1. PICK x, places, c, slots :
          /\ x = [d EXCEPT !.cell = Move(@, d.begin, i, d.begin + n, TRUE)]
          /\ places = d.begin..(d.begin + n - 1) /\ c = Fill(x.cell, places, Raw)
          /\ slots = Slot(d.begin)..(Slot(d.begin + n) - 1)
    OBVIOUS
  <2>2. /\ first \in Int /\ to \in Int /\ first <= to /\ d.begin <= first /\ d.begin <= to
        /\ first + i <= d.end /\ to + i <= d.end /\ i + n <= s /\ to <= d.end
        /\ to - d.begin = n
    BY <1>1, <1>2, <2>0
  <2>3. MovedTo(d, x, first, i, to)
    <3>1. MovedTo(d, [d EXCEPT !.cell = Move(@, first, i, to, TRUE)], first, i, to)
      BY <2>2, MovedDeque
    <3> QED
      BY <2>0, <2>1, <3>1, Zenon
  <2>4. /\ Layout(x) /\ Fields(x) /\ x.size = d.size /\ x.begin = d.begin /\ x.end = d.end
        /\ x.cell = AfterMove(d.cell, first, i, to)
    BY <2>3 DEF MovedTo
  <2>5. r = FreeSubarrays([Destroy(x, places) EXCEPT !.begin = @ + n], slots)
    BY <1>1, <1>4, <2>1, Zenon DEF Erase
  <2>6. r = [size |-> x.size, begin |-> x.begin + n, end |-> x.end, cell |-> CellsLeft(c, slots)]
    <3>1. Fields(x) /\ c = Fill(x.cell, places, Raw)
      BY <2>1, <2>4, Zenon
    <3>2. FreedAs(x, places, n, slots, c)
      BY <3>1, FreedFields
    <3> QED
      BY <2>5, <3>2, Zenon DEF FreedAs
  <2>7. r = [size |-> x.size, begin |-> to, end |-> x.end, cell |-> CellsLeft(c, slots)]
    BY <2>0, <2>4, <2>6, Zenon
  <2>8. /\ c = Fill(x.cell, x.begin..(to - 1), Raw) /\ slots = Slot(x.begin)..(Slot(to) - 1)
        /\ x.begin <= to /\ to <= x.end
    <3>1. x.begin <= to /\ to <= x.end
      BY <2>0, <2>2, <2>4
    <3>2. c = Fill(x.cell, x.begin..(to - 1), Raw)
      <4>1. x.begin = d.begin /\ to = d.begin + n
        BY <2>0, <2>4
      <4>2. places = x.begin..(to - 1)
        <5>1. places = d.begin..(d.begin + n - 1)
          BY <2>1, Zenon
        <5>2. to - 1 = d.begin + n - 1
          BY <1>2, <4>1
        <5> QED
          BY <4>1, <5>1, <5>2, Zenon
      <4> QED
        BY <2>1, <4>2, Zenon
    <3>3. slots = Slot(x.begin)..(Slot(to) - 1)
      BY <2>0, <2>1, <2>4, Zenon
    <3> QED
      BY <3>1, <3>2, <3>3
  <2>9. Effect(x, r, 0, to - x.begin, 0, v)
    BY <2>2, <2>4, <2>7, <2>8, FrontFreed
  <2>10. to - x.begin = n /\ x.cell = AfterMove(d.cell, d.begin, i, d.begin + n) /\ i + n <= Size(d)
    BY <1>1, <2>0, <2>2, <2>4, Zenon
  <2>11. Effect(x, r, 0, n, 0, v)
    BY <2>9, <2>10, Zenon
  <2>12. Effect(d, r, i, i + n, 0, v)
    BY <1>2, <2>4, <2>10, <2>11, FrontMoved
  <2> QED
    BY <1>1, <1>2, <2>12, Zenon
<1>5. CASE ~(i = 0 /\ j = s) /\ ~(n < s /\ i < (s - n) \div 2)
  <2>0. PICK first, k, to, q : first = d.begin + j /\ k = s - j /\ to = d.begin + i /\ q = d.end - n
    OBVIOUS
  <2>1. PICK x, places, c, slots :
          /\ x = [d EXCEPT !.cell = Move(@, d.begin + j, s - j, d.begin + i, FALSE)]
          /\ places = (d.end - n)..(d.end - 1) /\ c = Fill(x.cell, places, Raw)
          /\ slots = (Slot(d.end - n) + 1)..Slot(d.end)
    OBVIOUS
  <2>2. /\ first \in Int /\ to \in Int /\ to <= first /\ d.begin <= first /\ d.begin <= to
        /\ k \in Nat /\ first + k <= d.end /\ to + k <= d.end /\ q \in Int /\ d.begin <= q /\ q <= d.end
        /\ q - d.begin = m
    BY <1>1, <1>2, <2>0
  <2>3. MovedTo(d, x, first, k, to)
    <3>1. MovedTo(d, [d EXCEPT !.cell = Move(@, first, k, to, FALSE)], first, k, to)
      BY <2>2, MovedDeque
    <3> QED
      BY <2>0, <2>1, <3>1, Zenon
  <2>4. /\ Layout(x) /\ Fields(x) /\ x.size = d.size /\ x.begin = d.begin /\ x.end = d.end
        /\ x.cell = AfterMove(d.cell, first, k, to)
    BY <2>3 DEF MovedTo
  <2>5. r = FreeSubarrays([Destroy(x, places) EXCEPT !.end = @ - n], slots)
    BY <1>1, <1>5, <2>1, Zenon DEF Erase
  <2>6. r = [size |-> x.size, begin |-> x.begin, end |-> x.end - n, cell |-> CellsLeft(c, slots)]
    <3>1. Fields(x) /\ c = Fill(x.cell, places, Raw)
      BY <2>1, <2>4, Zenon
    <3>2. FreedAs(x, places, n, slots, c)
      BY <3>1, FreedFields
    <3> QED
      BY <2>5, <3>2, Zenon DEF FreedAs
  <2>7. r = [size |-> x.size, begin |-> x.begin, end |-> q, cell |-> CellsLeft(c, slots)]
    BY <2>0, <2>4, <2>6, Zenon
  <2>8. /\ c = Fill(x.cell, q..(x.end - 1), Raw) /\ slots = (Slot(q) + 1)..Slot(x.end)
        /\ x.begin <= q /\ q <= x.end
    <3>1. x.begin <= q /\ q <= x.end
      BY <2>0, <2>2, <2>4
    <3> QED
      BY <2>0, <2>1, <2>4, <3>1, Zenon
  <2>9. Effect(x, r, q - x.begin, Size(x), 0, v)
    BY <2>2, <2>4, <2>7, <2>8, BackFreed
  <2>10. /\ q - x.begin = Size(d) - (j - i) /\ Size(x) = Size(d)
         /\ x.cell = AfterMove(d.cell, d.begin + j, Size(d) - j, d.begin + i)
    BY <1>1, <1>2, <2>0, <2>2, <2>4, Zenon DEF Size
  <2>11. Effect(x, r, Size(d) - (j - i), Size(d), 0, v)
    BY <2>9, <2>10, Zenon
  <2>12. Effect(d, r, i, j, 0, v)
    BY <2>4, <2>10, <2>11, BackMoved
  <2> QED
    BY <1>1, <2>12, Zenon
<1> QED
  BY <1>3, <1>4, <1>5

\* r is e with the cell q set to v.
SetTo(e, r, q, v) ==
  /\ Fields(r) /\ r.size = e.size /\ r.begin = e.begin /\ r.end = e.end
  /\ r.cell = [e.cell EXCEPT ![q] = v]

\* Its fields, read off.
LEMMA SetFields ==
  ASSUME NEW e, Fields(e), NEW q, NEW v
  PROVE  SetTo(e, [e EXCEPT !.cell[q] = v], q, v)
<1>1. PICK c, r : c = [e.cell EXCEPT ![q] = v] /\ r = [e EXCEPT !.cell[q] = v]
  OBVIOUS
<1>2. r = [e EXCEPT !.cell = c]
  BY <1>1, Zenon
<1>3. r = [size |-> e.size, begin |-> e.begin, end |-> e.end, cell |-> c]
  BY <1>2, DequeUpdates
<1>4. Fields(r) /\ r.size = e.size /\ r.begin = e.begin /\ r.end = e.end /\ r.cell = c
  BY <1>3, RecordFields
<1> QED
  BY <1>1, <1>4, Zenon DEF SetTo

\* x is d after the contents of the element at m were moved away.
Marked(d, x, m) ==
  /\ Layout(x) /\ x.begin = d.begin /\ x.end = d.end
  /\ \A p \in d.begin..(d.end - 1) : x.cell[p] = IF p = m THEN Moved ELSE d.cell[p]

\* Moving from one element leaves the layout as it is.
LEMMA MarkedLayout ==
  ASSUME DequeAssumption, NEW d, Layout(d), NEW m \in d.begin..(d.end - 1)
  PROVE  Marked(d, [d EXCEPT !.cell[m] = Moved], m)
<1>1. PICK lo, hi, x : lo = FirstPlace(Slot(d.begin)) /\ hi = LastPlace(Slot(d.end)) /\ x = [d EXCEPT !.cell[m] = Moved]
  OBVIOUS
<1>2. /\ Fields(d) /\ d.begin \in Int /\ d.end \in Int /\ lo \in Int /\ hi \in Int
      /\ lo <= d.begin /\ d.end <= hi
  BY <1>1, LayoutFacts
<1>3. DOMAIN d.cell = lo..hi /\ d.cell = [p \in DOMAIN d.cell |-> d.cell[p]]
  BY <1>1, LayoutFacts
<1>4. PICK c : c = [d.cell EXCEPT ![m] = Moved]
  OBVIOUS
<1>5. c = [p \in lo..hi |-> IF p = m THEN Moved ELSE d.cell[p]]
  BY <1>3, <1>4
<1>6. SetTo(d, [d EXCEPT !.cell[m] = Moved], m, Moved)
  BY <1>2, SetFields
<1>8. Fields(x) /\ x.size = d.size /\ x.begin = d.begin /\ x.end = d.end /\ x.cell = c
  BY <1>1, <1>4, <1>6, Zenon DEF SetTo
<1>9. \A p \in d.begin..(d.end - 1) : p \in lo..hi
  BY <1>2
<1>10. \A p \in d.begin..(d.end - 1) : x.cell[p] = IF p = m THEN Moved ELSE d.cell[p]
  <2>1. \A p \in d.begin..(d.end - 1) : c[p] = IF p = m THEN Moved ELSE d.cell[p]
    BY <1>5, <1>9
  <2> QED
    BY <1>8, <2>1, Zenon
<1>11. /\ d.size \in Int /\ d.begin \in Int /\ d.end \in Int /\ d.begin <= d.end
       /\ 0 <= Slot(d.begin) /\ Slot(d.end) < d.size
  BY DEF Layout
<1>12. \A p \in lo..hi : p \notin d.begin..(d.end - 1) => d.cell[p] = Raw
  BY <1>3 DEF Layout
<1>13. \A p \in lo..hi : p \notin d.begin..(d.end - 1) => c[p] = Raw
  BY <1>5, <1>12
<1>14. DOMAIN c = lo..hi /\ c = [p \in lo..hi |-> c[p]]
  BY <1>5
<1>15. \A p \in DOMAIN x.cell : p \notin x.begin..(x.end - 1) => x.cell[p] = Raw
  BY <1>8, <1>13, <1>14, Zenon
<1>16. x.cell = [p \in FirstPlace(Slot(x.begin))..LastPlace(Slot(x.end)) |-> x.cell[p]]
  <2>1. x.cell = [p \in lo..hi |-> x.cell[p]]
    <3>1. PICK y : y = x.cell
      OBVIOUS
    <3>2. y = [p \in lo..hi |-> y[p]]
      BY <1>8, <1>14, <3>1
    <3> QED
      BY <3>1, <3>2
  <2>2. lo = FirstPlace(Slot(x.begin)) /\ hi = LastPlace(Slot(x.end))
    BY <1>1, <1>8, Zenon
  <2> QED
    BY <2>1, <2>2
<1>17. Layout(x)
  <2>1. /\ x.size \in Int /\ x.begin \in Int /\ x.end \in Int /\ x.begin <= x.end
        /\ 0 <= Slot(x.begin) /\ Slot(x.end) < x.size /\ Fields(x)
    BY <1>8, <1>11, Zenon
  <2> QED
    BY <1>15, <1>16, <2>1, Zenon DEF Layout
<1> QED
  BY <1>1, <1>8, <1>10, <1>17, Zenon DEF Marked

\* emplace in the front half: the first element is pushed in front of itself,
\* the others up to i move after it, and the value takes the place they leave.
LEMMA OpenedInFront ==
  ASSUME DequeAssumption, NEW d, Layout(d), NEW i \in Nat, 0 < i, i < Size(d), NEW v,
         NEW x, x = [d EXCEPT !.cell[d.begin] = Moved],
         NEW e, e = EmplaceFront(x, d.cell[d.begin]),
         NEW r, r = [[e EXCEPT !.cell = Move(@, e.begin + 2, i - 1, e.begin + 1, FALSE)]
                       EXCEPT !.cell[e.begin + i] = v]
  PROVE  Effect(d, r, i, i, 1, v)
<1>1. PICK s, m, b, n, en, sv, low, high :
        /\ b = e.begin /\ en = e.end /\ n = Size(d) /\ sv = d.cell[d.begin] /\ m = d.begin
        /\ low = FirstPlace(Slot(e.begin)) /\ high = LastPlace(Slot(e.end)) /\ s = e.size
  OBVIOUS
<1>2. d.begin \in Int /\ d.end \in Int /\ n = d.end - d.begin /\ n \in Int /\ i < n
  <2>1. d.begin \in Int /\ d.end \in Int
    BY LayoutFacts
  <2>2. n = d.end - d.begin /\ i < n
    BY <1>1 DEF Size
  <2> QED
    BY <2>1, <2>2
<1>3. /\ Layout(x) /\ x.begin = d.begin /\ x.end = d.end
      /\ \A p \in d.begin..(d.end - 1) : x.cell[p] = IF p = d.begin THEN Moved ELSE d.cell[p]
  <2>1. m \in d.begin..(d.end - 1) /\ x = [d EXCEPT !.cell[m] = Moved]
    BY <1>1, <1>2
  <2>2. Marked(d, [d EXCEPT !.cell[m] = Moved], m)
    BY <2>1, MarkedLayout
  <2>3. Marked(d, x, m)
    BY <2>1, <2>2, Zenon
  <2> QED
    BY <1>1, <2>3, Zenon DEF Marked
<1>4. Effect(x, e, 0, 0, 1, sv)
  BY <1>1, <1>3, EmplaceFrontEffect
<1>5. /\ Fields(e) /\ s \in Int /\ b \in Int /\ en \in Int /\ en = b + n + 1
      /\ 0 <= Slot(b) /\ Slot(en) < s
  <2>1. /\ Fields(e) /\ s \in Int /\ b \in Int /\ en \in Int /\ en - b = 0 + 1 + (d.end - d.begin - 0)
        /\ 0 <= Slot(b) /\ Slot(en) < s
    BY <1>1, <1>3, <1>4 DEF Effect
  <2> QED
    BY <1>2, <2>1
<1>6. e.cell = [p \in low..high |-> After(x, e, 0, 1, sv, p)]
  BY <1>1, <1>4 DEF Effect
<1>7. Layout(e)
  <2>1. e.begin <= e.end
    BY <1>1, <1>2, <1>5
  <2> QED
    BY <1>4, <2>1, EffectKeepsLayout
<1>8. low \in Int /\ high \in Int /\ low <= b /\ en <= high
  BY <1>1, <1>5, SlotBounds
\* The elements in e: the first, the one that was moved from, the others.
<1>9. ASSUME NEW q \in low..high
      PROVE  e.cell[q] = IF q \notin b..(en - 1) THEN Raw ELSE IF q = b THEN sv
                         ELSE IF q = b + 1 THEN Moved ELSE d.cell[q - b - 1 + d.begin]
  <2>1. e.cell[q] = After(x, e, 0, 1, sv, q) /\ q \in Int
    BY <1>6, <1>8
  <2>2. CASE q \notin b..(en - 1)
    BY <1>1, <2>1, <2>2, Zenon DEF After
  <2>3. CASE q = b
    <3>1. q \in b..(en - 1) /\ ~(q < b + 0) /\ q < b + 0 + 1
      BY <1>2, <1>5, <2>3
    <3> QED
      BY <1>1, <2>1, <2>3, <3>1, Zenon DEF After
  <2>4. CASE q \in b..(en - 1) /\ q # b
    <3>1. ~(q < b + 0) /\ ~(q < b + 0 + 1) /\ b < q /\ q < en
      BY <1>5, <2>1, <2>4
    <3>2. e.cell[q] = x.cell[q - en + d.end]
      BY <1>1, <1>3, <2>1, <2>4, <3>1, Zenon DEF After
    <3>3. q - en + d.end = q - b - 1 + d.begin
      BY <1>2, <1>5, <2>1
    <3>4. q - b - 1 + d.begin \in d.begin..(d.end - 1) /\ (q - b - 1 + d.begin = d.begin <=> q = b + 1)
      BY <1>2, <1>5, <2>1, <3>1
    <3>5. e.cell[q] = IF q = b + 1 THEN Moved ELSE d.cell[q - b - 1 + d.begin]
      BY <1>3, <3>2, <3>3, <3>4
    <3> QED
      BY <2>4, <3>5
  <2> QED
    BY <2>2, <2>3, <2>4
<1>19. PICK first, k, to : first = b + 2 /\ k = i - 1 /\ to = b + 1
  OBVIOUS
<1>10. PICK y : y = [e EXCEPT !.cell = Move(@, first, k, to, FALSE)]
  OBVIOUS
<1>11. MovedTo(e, y, first, k, to)
  <2>1. /\ first \in Int /\ to \in Int /\ k \in Nat /\ to <= first /\ e.begin <= first /\ e.begin <= to
        /\ first + k <= e.end /\ to + k <= e.end
    <3>1. /\ first \in Int /\ to \in Int /\ k \in Nat /\ to <= first /\ b <= first /\ b <= to
          /\ first + k <= en /\ to + k <= en
      BY <1>2, <1>5, <1>19
    <3> QED
      BY <1>1, <3>1, Zenon
  <2>2. MovedTo(e, [e EXCEPT !.cell = Move(@, first, k, to, FALSE)], first, k, to)
    BY <1>7, <2>1, MovedDeque
  <2> QED
    BY <1>10, <2>2, Zenon
<1>12. /\ Fields(y) /\ y.size = s /\ y.begin = b /\ y.end = en
       /\ y.cell = AfterMove(e.cell, first, k, to)
  BY <1>1, <1>11 DEF MovedTo
<1>13. PICK z : z = b + i
  OBVIOUS
<1>14. /\ Fields(r) /\ r.size = s /\ r.begin = b /\ r.end = en /\ r.cell = [y.cell EXCEPT ![z] = v]
  <2>1. r = [y EXCEPT !.cell[z] = v]
    BY <1>1, <1>10, <1>13, <1>19, Zenon
  <2>2. SetTo(y, [y EXCEPT !.cell[z] = v], z, v)
    BY <1>12, SetFields
  <2> QED
    BY <1>12, <2>1, <2>2, Zenon DEF SetTo
<1>15. r.cell = [p \in low..high |-> IF p = z THEN v ELSE y.cell[p]]
  <2>1. y.cell = [p \in low..high |-> y.cell[p]]
    BY <1>6, <1>12 DEF AfterMove
  <2> QED
    BY <1>14, <2>1
<1>16. ASSUME NEW p \in low..high
       PROVE  (IF p = z THEN v ELSE y.cell[p]) = After(d, r, i, 1, v, p)
  <2>1. p \in Int /\ z = b + i /\ first = b + 2 /\ to = b + 1 /\ k = i - 1
    BY <1>8, <1>13, <1>19
  <2>2. y.cell[p] = IF p \in to..(to + k - 1) THEN e.cell[p - to + first]
                    ELSE IF p \in first..(first + k - 1) THEN Moved ELSE e.cell[p]
    BY <1>6, <1>12 DEF AfterMove
  <2>3. CASE p \notin b..(en - 1)
    <3>1. p # z /\ p \notin to..(to + k - 1) /\ p \notin first..(first + k - 1)
      BY <1>2, <1>5, <2>1, <2>3
    <3> QED
      BY <1>9, <1>14, <2>2, <2>3, <3>1 DEF After
  <2>4. CASE p = z
    <3>1. p \in b..(en - 1) /\ ~(p < b + i) /\ p < b + i + 1
      BY <1>2, <1>5, <2>1, <2>4
    <3> QED
      BY <1>14, <2>4, <3>1, Zenon DEF After
  <2>5. CASE p = b
    <3>1. /\ p \in b..(en - 1) /\ p < b + i /\ p # z /\ p \notin to..(to + k - 1)
          /\ p \notin first..(first + k - 1) /\ p - b + d.begin = d.begin
      BY <1>2, <1>5, <2>1, <2>5
    <3>2. y.cell[p] = sv
      BY <1>9, <2>2, <2>5, <3>1
    <3>3. After(d, r, i, 1, v, p) = d.cell[p - b + d.begin]
      BY <1>14, <3>1, Zenon DEF After
    <3> QED
      BY <1>1, <3>1, <3>2, <3>3, Zenon
  <2>6. CASE b < p /\ p < z
    <3>1. /\ p \in b..(en - 1) /\ p < b + i /\ p # z /\ p \in to..(to + k - 1)
          /\ p - to + first = p + 1 /\ p + 1 \in low..high /\ p + 1 \in b..(en - 1)
          /\ p + 1 # b /\ p + 1 # b + 1 /\ p + 1 - b - 1 + d.begin = p - b + d.begin
      BY <1>2, <1>5, <1>8, <2>1, <2>6
    <3>2. y.cell[p] = e.cell[p + 1]
      BY <2>2, <3>1
    <3>3. e.cell[p + 1] = d.cell[p - b + d.begin]
      <4>1. PICK w : w = p + 1
        OBVIOUS
      <4>2. w \in low..high /\ w \in b..(en - 1) /\ w # b /\ w # b + 1 /\ w - b - 1 + d.begin = p - b + d.begin
        BY <1>2, <1>5, <1>8, <2>1, <2>6, <4>1
      <4>3. e.cell[w] = d.cell[w - b - 1 + d.begin]
        BY <1>9, <4>2
      <4> QED
        BY <4>1, <4>2, <4>3
    <3>4. After(d, r, i, 1, v, p) = d.cell[p - b + d.begin]
      BY <1>14, <3>1, Zenon DEF After
    <3> QED
      BY <3>1, <3>2, <3>3, <3>4
  <2>7. CASE z < p /\ p < en
    <3>1. /\ p \in b..(en - 1) /\ ~(p < b + i) /\ ~(p < b + i + 1) /\ p # z /\ p \notin to..(to + k - 1)
          /\ p \notin first..(first + k - 1) /\ p # b /\ p # b + 1
          /\ p - b - 1 + d.begin = p - en + d.end
      BY <1>2, <1>5, <2>1, <2>7
    <3>2. y.cell[p] = d.cell[p - en + d.end]
      BY <1>9, <2>2, <3>1
    <3>3. After(d, r, i, 1, v, p) = d.cell[p - en + d.end]
      BY <1>14, <3>1, Zenon DEF After
    <3> QED
      BY <3>1, <3>2, <3>3
  <2> QED
    BY <1>2, <1>5, <2>1, <2>3, <2>4, <2>5, <2>6, <2>7
<1>17. r.cell = [p \in low..high |-> After(d, r, i, 1, v, p)]
  BY <1>15, <1>16
<1>18. en - b = i + 1 + (d.end - d.begin - i)
  BY <1>2, <1>5
<1> QED
  BY <1>1, <1>5, <1>14, <1>17, <1>18 DEF Effect

\* emplace in the other half, from the last element on.
LEMMA OpenedAtBack ==
  ASSUME DequeAssumption, NEW d, Layout(d), NEW i \in Nat, i < Size(d), NEW v,
         NEW x, x = [d EXCEPT !.cell[d.end - 1] = Moved],
         NEW e, e = EmplaceBack(x, d.cell[d.end - 1]),
         NEW r, r = [[e EXCEPT !.cell = Move(@, e.begin + i, Size(d) - i - 1, e.begin + i + 1, TRUE)]
                       EXCEPT !.cell[e.begin + i] = v]
  PROVE  Effect(d, r, i, i, 1, v)
<1>1. PICK s, m, b, n, en, sv, low, high :
        /\ b = e.begin /\ en = e.end /\ n = Size(d) /\ sv = d.cell[d.end - 1] /\ m = d.end - 1
        /\ low = FirstPlace(Slot(e.begin)) /\ high = LastPlace(Slot(e.end)) /\ s = e.size
  OBVIOUS
<1>2. d.begin \in Int /\ d.end \in Int /\ n = d.end - d.begin /\ n \in Int /\ i < n
  <2>1. d.begin \in Int /\ d.end \in Int
    BY LayoutFacts
  <2>2. n = d.end - d.begin /\ i < n
    BY <1>1 DEF Size
  <2> QED
    BY <2>1, <2>2
<1>3. /\ Layout(x) /\ x.begin = d.begin /\ x.end = d.end
      /\ \A p \in d.begin..(d.end - 1) : x.cell[p] = IF p = d.end - 1 THEN Moved ELSE d.cell[p]
  <2>1. m \in d.begin..(d.end - 1)
    <3>1. m = d.end - 1
      BY <1>1
    <3> QED
      BY <1>2, <3>1
  <2>2. Marked(d, [d EXCEPT !.cell[m] = Moved], m)
    BY <2>1, MarkedLayout
  <2>3. x = [d EXCEPT !.cell[m] = Moved]
    BY <1>1, Zenon
  <2>4. Marked(d, x, m)
    BY <2>2, <2>3, Zenon
  <2> QED
    BY <1>1, <2>4, Zenon DEF Marked
<1>4. Effect(x, e, n, n, 1, sv)
  <2>1. Effect(x, EmplaceBack(x, sv), Size(x), Size(x), 1, sv)
    BY <1>3, EmplaceBackEffect
  <2>2. Size(x) = n
    BY <1>1, <1>3, Zenon DEF Size
  <2> QED
    BY <1>1, <2>1, <2>2, Zenon
<1>5. /\ Fields(e) /\ s \in Int /\ b \in Int /\ en \in Int /\ en = b + n + 1
      /\ 0 <= Slot(b) /\ Slot(en) < s
  <2>1. /\ Fields(e) /\ s \in Int /\ b \in Int /\ en \in Int /\ en - b = n + 1 + (d.end - d.begin - n)
        /\ 0 <= Slot(b) /\ Slot(en) < s
    BY <1>1, <1>3, <1>4 DEF Effect
  <2> QED
    BY <1>2, <2>1
<1>6. e.cell = [p \in low..high |-> After(x, e, n, 1, sv, p)]
  BY <1>1, <1>4 DEF Effect
<1>7. Layout(e)
  <2>1. e.begin <= e.end
    <3>1. b <= en
      BY <1>2, <1>5
    <3> QED
      BY <1>1, <3>1, Zenon
  <2> QED
    BY <1>4, <2>1, EffectKeepsLayout
<1>8. low \in Int /\ high \in Int /\ low <= b /\ en <= high
  BY <1>1, <1>5, SlotBounds
\* The elements in e: the first ones, the one that was moved from, the last one.
<1>9. ASSUME NEW q \in low..high
      PROVE  e.cell[q] = IF q \notin b..(en - 1) THEN Raw ELSE IF q = b + n THEN sv
                         ELSE IF q = b + n - 1 THEN Moved ELSE d.cell[q - b + d.begin]
  <2>1. e.cell[q] = After(x, e, n, 1, sv, q) /\ q \in Int
    BY <1>6, <1>8
  <2>2. CASE q \notin b..(en - 1)
    BY <1>1, <2>1, <2>2, Zenon DEF After
  <2>3. CASE q = b + n
    <3>1. q \in b..(en - 1) /\ ~(q < b + n) /\ q < b + n + 1
      BY <1>2, <1>5, <2>3
    <3> QED
      BY <1>1, <2>1, <2>3, <3>1, Zenon DEF After
  <2>4. CASE q \in b..(en - 1) /\ q # b + n
    <3>1. q < b + n /\ b <= q /\ q < en
      BY <1>2, <1>5, <2>1, <2>4
    <3>2. e.cell[q] = x.cell[q - b + d.begin]
      BY <1>1, <1>3, <2>1, <2>4, <3>1, Zenon DEF After
    <3>4. q - b + d.begin \in d.begin..(d.end - 1) /\ (q - b + d.begin = d.end - 1 <=> q = b + n - 1)
      BY <1>2, <1>5, <2>1, <3>1
    <3>5. e.cell[q] = IF q = b + n - 1 THEN Moved ELSE d.cell[q - b + d.begin]
      BY <1>3, <3>2, <3>4
    <3> QED
      BY <2>4, <3>5
  <2> QED
    BY <2>2, <2>3, <2>4
<1>10. PICK first, k, to : first = b + i /\ k = n - i - 1 /\ to = b + i + 1
  OBVIOUS
<1>11. PICK y : y = [e EXCEPT !.cell = Move(@, first, k, to, TRUE)]
  OBVIOUS
<1>12. MovedTo(e, y, first, k, to)
  <2>1. /\ first \in Int /\ to \in Int /\ k \in Nat /\ first <= to /\ e.begin <= first /\ e.begin <= to
        /\ first + k <= e.end /\ to + k <= e.end
    <3>1. /\ first \in Int /\ to \in Int /\ k \in Nat /\ first <= to /\ b <= first /\ b <= to
          /\ first + k <= en /\ to + k <= en
      BY <1>2, <1>5, <1>10
    <3> QED
      BY <1>1, <3>1, Zenon
  <2>2. MovedTo(e, [e EXCEPT !.cell = Move(@, first, k, to, TRUE)], first, k, to)
    BY <1>7, <2>1, MovedDeque
  <2> QED
    BY <1>11, <2>2, Zenon
<1>13. /\ Fields(y) /\ y.size = s /\ y.begin = b /\ y.end = en
       /\ y.cell = AfterMove(e.cell, first, k, to)
  BY <1>1, <1>12 DEF MovedTo
<1>14. PICK z : z = b + i
  OBVIOUS
<1>15. /\ Fields(r) /\ r.size = s /\ r.begin = b /\ r.end = en /\ r.cell = [y.cell EXCEPT ![z] = v]
  <2>1. r = [y EXCEPT !.cell[z] = v]
    BY <1>1, <1>10, <1>11, <1>14, Zenon
  <2>2. SetTo(y, [y EXCEPT !.cell[z] = v], z, v)
    BY <1>13, SetFields
  <2> QED
    BY <1>13, <2>1, <2>2, Zenon DEF SetTo
<1>16. r.cell = [p \in low..high |-> IF p = z THEN v ELSE y.cell[p]]
  <2>1. y.cell = [p \in low..high |-> y.cell[p]]
    BY <1>6, <1>13 DEF AfterMove
  <2> QED
    BY <1>15, <2>1
<1>17. ASSUME NEW p \in low..high
       PROVE  (IF p = z THEN v ELSE y.cell[p]) = After(d, r, i, 1, v, p)
  <2>1. p \in Int /\ z = b + i /\ first = b + i /\ to = b + i + 1 /\ k = n - i - 1
    BY <1>8, <1>10, <1>14
  <2>2. y.cell[p] = IF p \in to..(to + k - 1) THEN e.cell[p - to + first]
                    ELSE IF p \in first..(first + k - 1) THEN Moved ELSE e.cell[p]
    BY <1>6, <1>13 DEF AfterMove
  <2>3. CASE p \notin b..(en - 1)
    <3>1. p # z /\ p \notin to..(to + k - 1) /\ p \notin first..(first + k - 1)
      BY <1>2, <1>5, <2>1, <2>3
    <3> QED
      BY <1>9, <1>15, <2>2, <2>3, <3>1 DEF After
  <2>4. CASE p = z
    <3>1. p \in b..(en - 1) /\ ~(p < b + i) /\ p < b + i + 1
      BY <1>2, <1>5, <2>1, <2>4
    <3> QED
      BY <1>15, <2>4, <3>1, Zenon DEF After
  <2>5. CASE b <= p /\ p < z
    <3>1. /\ p \in b..(en - 1) /\ p < b + i /\ p # z /\ p \notin to..(to + k - 1)
          /\ p \notin first..(first + k - 1) /\ p # b + n /\ p # b + n - 1
      BY <1>2, <1>5, <2>1, <2>5
    <3>2. y.cell[p] = d.cell[p - b + d.begin]
      BY <1>9, <2>2, <3>1
    <3>3. After(d, r, i, 1, v, p) = d.cell[p - b + d.begin]
      BY <1>15, <3>1, Zenon DEF After
    <3> QED
      BY <3>1, <3>2, <3>3, Zenon
  <2>6. CASE z < p /\ p < b + n
    <3>1. /\ p \in b..(en - 1) /\ ~(p < b + i) /\ ~(p < b + i + 1) /\ p # z /\ p \in to..(to + k - 1)
          /\ p - to + first = p - 1
      BY <1>2, <1>5, <1>8, <2>1, <2>6
    <3>2. y.cell[p] = e.cell[p - 1]
      BY <2>2, <3>1
    <3>3. e.cell[p - 1] = d.cell[p - en + d.end]
      <4>1. PICK w : w = p - 1
        OBVIOUS
      <4>2. w \in low..high /\ w \in b..(en - 1) /\ w # b + n /\ w # b + n - 1 /\ w - b + d.begin = p - en + d.end
        BY <1>2, <1>5, <1>8, <2>1, <2>6, <4>1
      <4>3. e.cell[w] = d.cell[w - b + d.begin]
        BY <1>9, <4>2
      <4> QED
        BY <4>1, <4>2, <4>3
    <3>4. After(d, r, i, 1, v, p) = d.cell[p - en + d.end]
      BY <1>15, <3>1, Zenon DEF After
    <3> QED
      BY <3>1, <3>2, <3>3, <3>4
  <2>7. CASE p = b + n
    <3>1. /\ p \in b..(en - 1) /\ ~(p < b + i) /\ ~(p < b + i + 1) /\ p # z /\ p \notin to..(to + k - 1)
          /\ p \notin first..(first + k - 1) /\ p - en + d.end = d.end - 1
      BY <1>2, <1>5, <2>1, <2>7
    <3>2. y.cell[p] = sv
      BY <1>9, <2>2, <2>7, <3>1
    <3>3. After(d, r, i, 1, v, p) = d.cell[p - en + d.end]
      BY <1>15, <3>1, Zenon DEF After
    <3> QED
      BY <1>1, <3>1, <3>2, <3>3, Zenon
  <2> QED
    BY <1>2, <1>5, <2>1, <2>3, <2>4, <2>5, <2>6, <2>7, SMTT(30)
<1>18. r.cell = [p \in low..high |-> After(d, r, i, 1, v, p)]
  BY <1>16, <1>17, ZenonT(30)
<1>19. en - b = i + 1 + (d.end - d.begin - i)
  BY <1>2, <1>5
<1> QED
  BY <1>1, <1>5, <1>15, <1>18, <1>19 DEF Effect

\* emplace at every position.
LEMMA EmplaceEffect ==
  ASSUME DequeAssumption, NEW d, Layout(d), NEW i \in Nat, i <= Size(d), NEW a
  PROVE  Effect(d, Emplace(d, i, a), i, i, 1, Argument(d, a))
<1>1. PICK r, v, n : r = Emplace(d, i, a) /\ v = Argument(d, a) /\ n = Size(d)
  OBVIOUS
<1>2. n \in Int /\ i <= n
  BY <1>1, LayoutFacts DEF Size
<1>3. CASE i = n
  <2>1. r = EmplaceBack(d, v)
    BY <1>1, <1>3, Zenon DEF Emplace
  <2>2. Effect(d, EmplaceBack(d, v), Size(d), Size(d), 1, v)
    BY EmplaceBackEffect
  <2> QED
    BY <1>1, <1>3, <2>1, <2>2, Zenon
<1>4. CASE i # n /\ i = 0
  <2>1. r = EmplaceFront(d, v)
    BY <1>1, <1>4, Zenon DEF Emplace
  <2>2. Effect(d, EmplaceFront(d, v), 0, 0, 1, v)
    BY EmplaceFrontEffect
  <2> QED
    BY <1>1, <1>4, <2>1, <2>2, Zenon
<1>5. CASE i # n /\ i # 0
  <2>1. 0 < i /\ i < n
    BY <1>2, <1>5
  <2>2. PICK o : o = Opened(d, i)
    OBVIOUS
  <2>3. r = [o EXCEPT !.cell[o.begin + i] = v]
    BY <1>1, <1>5, <2>2, Zenon DEF Emplace
  <2>4. CASE i < n \div 2
    <3>1. PICK x, e : x = [d EXCEPT !.cell[d.begin] = Moved] /\ e = EmplaceFront(x, d.cell[d.begin])
      OBVIOUS
    <3>2. PICK c : c = Move(e.cell, e.begin + 2, i - 1, e.begin + 1, FALSE)
      OBVIOUS
    <3>3. o = [e EXCEPT !.cell = c]
      BY <1>1, <2>2, <2>4, <3>1, <3>2, Zenon DEF Opened
    <3>4. Fields(e)
      <4>1. PICK m : m = d.begin
        OBVIOUS
      <4>2. m \in d.begin..(d.end - 1)
        <5>1. d.begin \in Int /\ d.end \in Int
          BY LayoutFacts
        <5>2. n = d.end - d.begin
          BY <1>1, Zenon DEF Size
        <5> QED
          BY <2>1, <4>1, <5>1, <5>2
      <4>3. Marked(d, [d EXCEPT !.cell[m] = Moved], m)
        BY <4>2, MarkedLayout
      <4>4. Layout(x)
        BY <3>1, <4>1, <4>3, Zenon DEF Marked
      <4>5. Effect(x, EmplaceFront(x, d.cell[d.begin]), 0, 0, 1, d.cell[d.begin])
        BY <4>4, EmplaceFrontEffect
      <4> QED
        BY <3>1, <4>5, Zenon DEF Effect
    <3>5. o.begin = e.begin
      <4>1. o = [size |-> e.size, begin |-> e.begin, end |-> e.end, cell |-> c]
        BY <3>3, <3>4, DequeUpdates
      <4> QED
        BY <4>1
    <3>6. r = [[e EXCEPT !.cell = Move(@, e.begin + 2, i - 1, e.begin + 1, FALSE)] EXCEPT !.cell[e.begin + i] = v]
      BY <2>3, <3>2, <3>3, <3>5, Zenon
    <3>7. Effect(d, r, i, i, 1, v)
      BY <1>1, <2>1, <3>1, <3>6, OpenedInFront
    <3> QED
      BY <1>1, <3>7, Zenon
  <2>5. CASE ~(i < n \div 2)
    <3>1. PICK x, e : x = [d EXCEPT !.cell[d.end - 1] = Moved] /\ e = EmplaceBack(x, d.cell[d.end - 1])
      OBVIOUS
    <3>2. PICK c : c = Move(e.cell, e.begin + i, Size(d) - i - 1, e.begin + i + 1, TRUE)
      OBVIOUS
    <3>3. o = [e EXCEPT !.cell = c]
      BY <1>1, <2>2, <2>5, <3>1, <3>2, Zenon DEF Opened
    <3>4. Fields(e)
      <4>1. PICK m : m = d.end - 1
        OBVIOUS
      <4>2. m \in d.begin..(d.end - 1)
        <5>1. d.begin \in Int /\ d.end \in Int
          BY LayoutFacts
        <5>2. n = d.end - d.begin
          BY <1>1, Zenon DEF Size
        <5> QED
          BY <2>1, <4>1, <5>1, <5>2
      <4>3. Marked(d, [d EXCEPT !.cell[m] = Moved], m)
        BY <4>2, MarkedLayout
      <4>4. Layout(x)
        BY <3>1, <4>1, <4>3, Zenon DEF Marked
      <4>5. Effect(x, EmplaceBack(x, d.cell[d.end - 1]), Size(x), Size(x), 1, d.cell[d.end - 1])
        BY <4>4, EmplaceBackEffect
      <4> QED
        BY <3>1, <4>5, Zenon DEF Effect
    <3>5. o.begin = e.begin
      <4>1. o = [size |-> e.size, begin |-> e.begin, end |-> e.end, cell |-> c]
        BY <3>3, <3>4, DequeUpdates
      <4> QED
        BY <4>1
    <3>6. r = [[e EXCEPT !.cell = Move(@, e.begin + i, Size(d) - i - 1, e.begin + i + 1, TRUE)] EXCEPT !.cell[e.begin + i] = v]
      BY <2>3, <3>2, <3>3, <3>5, Zenon
    <3>7. Effect(d, r, i, i, 1, v)
      BY <1>1, <2>1, <3>1, <3>6, OpenedAtBack
    <3> QED
      BY <1>1, <3>7, Zenon
  <2> QED
    BY <2>4, <2>5
<1> QED
  BY <1>3, <1>4, <1>5

\* r is f after the i elements in front have moved n places outwards, and the
\* places they leave were filled with v; or the elements from i on.
FilledInFront(f, r, i, n, v) ==
  /\ Fields(r) /\ r.size = f.size /\ r.begin = f.begin - n /\ r.end = f.end
  /\ r.cell = Fill(AfterMove(f.cell, f.begin, i, f.begin - n), (f.begin - n + i)..(f.begin + i - 1), v)

FilledBehind(f, r, k, n, v) ==
  /\ Fields(r) /\ r.size = f.size /\ r.begin = f.begin /\ r.end = f.end + n
  /\ r.cell = Fill(AfterMove(f.cell, f.end - k, k, f.end - k + n), (f.end - k)..(f.end - k + n - 1), v)

\* n values v before the element i, with the elements in front of it moved
\* outwards into room made there.
LEMMA FrontFilled ==
  ASSUME DequeAssumption, NEW d, Layout(d), NEW n \in Nat, NEW i \in Nat, i <= Size(d), NEW v,
         NEW f, Room(d, f, n, 0), NEW r, FilledInFront(f, r, i, n, v)
  PROVE  Effect(d, r, i, i, n, v)
<1>0. PICK first, to, k : first = f.begin /\ to = f.begin - n /\ k = f.begin - n + i
  OBVIOUS
<1>1. PICK s, en, low, high : s = f.size /\ en = f.end /\ low = FirstPlace(Slot(to)) /\ high = LastPlace(Slot(f.end))
  OBVIOUS
<1>14. PICK c : c = AfterMove(f.cell, first, i, to)
  OBVIOUS
<1>15. Fields(r) /\ r.size = f.size /\ r.begin = to /\ r.end = f.end /\ r.cell = Fill(c, k..(first + i - 1), v)
  BY <1>0, <1>14, Zenon DEF FilledInFront
<1>2. /\ s \in Int /\ first \in Int /\ en \in Int /\ to \in Int /\ to = first - n /\ k \in Int /\ k = to + i
      /\ d.begin \in Int /\ d.end \in Int /\ en - first = d.end - d.begin /\ i <= en - first
  <2>1. /\ s \in Int /\ first \in Int /\ en \in Int /\ en - first = d.end - d.begin
    BY <1>0, <1>1 DEF Room
  <2>4. to = first - n /\ k = first - n + i
    BY <1>0, Zenon
  <2>2. d.begin \in Int /\ d.end \in Int
    BY LayoutFacts
  <2>3. i <= d.end - d.begin
    BY DEF Size
  <2> QED
    BY <2>1, <2>2, <2>3, <2>4
<1>3. 0 <= Slot(to) /\ Slot(en) < s
  <2>1. f.end + 0 = f.end
    BY <1>1, <1>2
  <2> QED
    BY <1>0, <1>1, <2>1 DEF Room
<1>4. f.cell = [p \in low..high |-> IF p \in first..(en - 1) THEN d.cell[p - first + d.begin] ELSE Raw]
  <2>1. f.end + 0 = f.end
    BY <1>1, <1>2
  <2> QED
    BY <1>0, <1>1, <2>1 DEF Room
<1>5. low \in Int /\ high \in Int /\ low <= to /\ en <= high
  BY <1>1, <1>2, SlotBounds
<1>6. c = [p \in low..high |-> IF p \in to..(to + i - 1) THEN f.cell[p - to + first]
                               ELSE IF p \in first..(first + i - 1) THEN Moved ELSE f.cell[p]]
  BY <1>4, <1>14 DEF AfterMove
<1>7. k..(first + i - 1) \subseteq low..high
  BY <1>2, <1>5
<1>8. r.cell = [p \in low..high |-> IF p \in k..(first + i - 1) THEN v ELSE c[p]]
  <2>1. (k..(first + i - 1)) \cup DOMAIN c = low..high
    BY <1>6, <1>7
  <2> QED
    BY <1>15, <2>1 DEF Fill
<1>9. r.begin = to /\ r.end = en
  BY <1>1, <1>15, Zenon
<1>10. ASSUME NEW p \in low..high
       PROVE  (IF p \in k..(first + i - 1) THEN v ELSE c[p]) = After(d, r, i, n, v, p)
  <2>1. p \in Int
    BY <1>5
  <2>2. c[p] = IF p \in to..(to + i - 1) THEN f.cell[p - to + first]
               ELSE IF p \in first..(first + i - 1) THEN Moved ELSE f.cell[p]
    BY <1>6
  <2>3. f.cell[p] = IF p \in first..(en - 1) THEN d.cell[p - first + d.begin] ELSE Raw
    BY <1>4
  <2>4. CASE p \notin to..(en - 1)
    <3>1. p \notin k..(first + i - 1) /\ p \notin to..(to + i - 1) /\ p \notin first..(first + i - 1) /\ p \notin first..(en - 1)
      BY <1>2, <2>1, <2>4
    <3> QED
      BY <1>9, <2>2, <2>3, <2>4, <3>1, Zenon DEF After
  <2>5. CASE to <= p /\ p < to + i
    <3>1. /\ p \in to..(en - 1) /\ p \notin k..(first + i - 1) /\ p \in to..(to + i - 1)
      BY <1>2, <2>1, <2>5
    <3>2. PICK w : w = p - to + first
      OBVIOUS
    <3>3. w \in low..high /\ w \in first..(en - 1) /\ w - first + d.begin = p - to + d.begin
      BY <1>2, <1>5, <2>1, <2>5, <3>2
    <3>4. f.cell[w] = d.cell[w - first + d.begin]
      BY <1>4, <3>3
    <3>5. After(d, r, i, n, v, p) = d.cell[p - to + d.begin]
      BY <1>9, <2>5, <3>1, Zenon DEF After
    <3> QED
      BY <2>2, <3>1, <3>2, <3>3, <3>4, <3>5, Zenon
  <2>6. CASE to + i <= p /\ p < to + i + n
    <3>1. p \in to..(en - 1) /\ p \in k..(first + i - 1) /\ ~(p < to + i)
      BY <1>2, <2>1, <2>6
    <3> QED
      BY <1>9, <2>6, <3>1, Zenon DEF After
  <2>7. CASE to + i + n <= p /\ p < en
    <3>1. /\ p \in to..(en - 1) /\ p \notin k..(first + i - 1) /\ ~(p < to + i) /\ ~(p < to + i + n)
          /\ p \notin to..(to + i - 1) /\ p \notin first..(first + i - 1) /\ p \in first..(en - 1)
          /\ p - first + d.begin = p - en + d.end
      BY <1>2, <2>1, <2>7
    <3>2. After(d, r, i, n, v, p) = d.cell[p - en + d.end]
      BY <1>9, <3>1, Zenon DEF After
    <3> QED
      BY <2>2, <2>3, <3>1, <3>2, Zenon
  <2> QED
    BY <1>2, <2>1, <2>4, <2>5, <2>6, <2>7
<1>11. r.cell = [p \in low..high |-> After(d, r, i, n, v, p)]
  BY <1>8, <1>10
<1>12. en - to = i + n + (d.end - d.begin - i)
  BY <1>2
<1> QED
  BY <1>1, <1>2, <1>3, <1>9, <1>11, <1>12, <1>15 DEF Effect

\* n values v before the element i, with the elements from i on moved outwards
\* into room made behind.
LEMMA BackFilled ==
  ASSUME DequeAssumption, NEW d, Layout(d), NEW n \in Nat, NEW i \in Nat, i <= Size(d), NEW v,
         NEW f, Room(d, f, 0, n), NEW r, FilledBehind(f, r, Size(d) - i, n, v)
  PROVE  Effect(d, r, i, i, n, v)
<1>0. PICK k, first, to : k = Size(d) - i /\ first = f.end - (Size(d) - i) /\ to = f.end - (Size(d) - i) + n
  OBVIOUS
<1>14. PICK c : c = AfterMove(f.cell, first, k, to)
  OBVIOUS
<1>15. /\ Fields(r) /\ r.size = f.size /\ r.begin = f.begin /\ r.end = f.end + n
       /\ r.cell = Fill(c, first..(f.end - (Size(d) - i) + n - 1), v)
  BY <1>0, <1>14, Zenon DEF FilledBehind
<1>1. PICK s, b, en, stop, low, high :
        /\ s = f.size /\ b = f.begin /\ en = f.end /\ stop = f.end + n
        /\ low = FirstPlace(Slot(f.begin)) /\ high = LastPlace(Slot(f.end + n))
  OBVIOUS
<1>2. /\ s \in Int /\ b \in Int /\ en \in Int /\ d.begin \in Int /\ d.end \in Int
      /\ en - b = d.end - d.begin /\ i <= en - b
  <2>1. /\ s \in Int /\ b \in Int /\ en \in Int /\ en - b = d.end - d.begin
    BY <1>1 DEF Room
  <2>2. d.begin \in Int /\ d.end \in Int
    BY LayoutFacts
  <2>3. i <= d.end - d.begin
    BY DEF Size
  <2> QED
    BY <2>1, <2>2, <2>3
<1>3. /\ first \in Int /\ to \in Int /\ stop \in Int /\ k \in Nat
      /\ first = b + i /\ first + k = en /\ to = first + n /\ stop = en + n
  <2>1. k = d.end - d.begin - i /\ first = en - k /\ to = en - k + n /\ stop = en + n
    BY <1>0, <1>1, Zenon DEF Size
  <2> QED
    BY <1>2, <2>1
<1>4. 0 <= Slot(b) /\ Slot(stop) < s
  <2>1. f.begin - 0 = f.begin
    BY <1>1, <1>2
  <2> QED
    BY <1>1, <2>1 DEF Room
<1>5. f.cell = [p \in low..high |-> IF p \in b..(en - 1) THEN d.cell[p - b + d.begin] ELSE Raw]
  <2>1. f.begin - 0 = f.begin
    BY <1>1, <1>2
  <2> QED
    BY <1>1, <2>1 DEF Room
<1>6. low \in Int /\ high \in Int /\ low <= b /\ stop <= high
  BY <1>1, <1>2, <1>3, SlotBounds
<1>7. c = [p \in low..high |-> IF p \in to..(to + k - 1) THEN f.cell[p - to + first]
                               ELSE IF p \in first..(first + k - 1) THEN Moved ELSE f.cell[p]]
  BY <1>5, <1>14 DEF AfterMove
<1>8. first..(first + n - 1) \subseteq low..high
  BY <1>2, <1>3, <1>6
<1>16. r.cell = Fill(c, first..(first + n - 1), v)
  <2>1. f.end - (Size(d) - i) + n - 1 = first + n - 1
    BY <1>0, Zenon
  <2> QED
    BY <1>15, <2>1, Zenon
<1>9. r.cell = [p \in low..high |-> IF p \in first..(first + n - 1) THEN v ELSE c[p]]
  <2>1. (first..(first + n - 1)) \cup DOMAIN c = low..high
    BY <1>7, <1>8
  <2> QED
    BY <1>16, <2>1 DEF Fill
<1>10. r.begin = b /\ r.end = stop
  BY <1>1, <1>15, Zenon
<1>11. ASSUME NEW p \in low..high
       PROVE  (IF p \in first..(first + n - 1) THEN v ELSE c[p]) = After(d, r, i, n, v, p)
  <2>1. p \in Int
    BY <1>6
  <2>2. c[p] = IF p \in to..(to + k - 1) THEN f.cell[p - to + first]
               ELSE IF p \in first..(first + k - 1) THEN Moved ELSE f.cell[p]
    BY <1>7
  <2>3. f.cell[p] = IF p \in b..(en - 1) THEN d.cell[p - b + d.begin] ELSE Raw
    BY <1>5
  <2>4. CASE p \notin b..(stop - 1)
    <3>1. p \notin first..(first + n - 1) /\ p \notin to..(to + k - 1) /\ p \notin first..(first + k - 1) /\ p \notin b..(en - 1)
      BY <1>2, <1>3, <2>1, <2>4
    <3> QED
      BY <1>10, <2>2, <2>3, <2>4, <3>1, Zenon DEF After
  <2>5. CASE b <= p /\ p < b + i
    <3>1. /\ p \in b..(stop - 1) /\ p \notin first..(first + n - 1) /\ p \notin to..(to + k - 1)
          /\ p \notin first..(first + k - 1) /\ p \in b..(en - 1)
      BY <1>2, <1>3, <2>1, <2>5
    <3>2. After(d, r, i, n, v, p) = d.cell[p - b + d.begin]
      BY <1>10, <2>5, <3>1, Zenon DEF After
    <3> QED
      BY <2>2, <2>3, <3>1, <3>2, Zenon
  <2>6. CASE b + i <= p /\ p < b + i + n
    <3>1. p \in b..(stop - 1) /\ p \in first..(first + n - 1) /\ ~(p < b + i)
      BY <1>2, <1>3, <2>1, <2>6
    <3> QED
      BY <1>10, <2>6, <3>1, Zenon DEF After
  <2>7. CASE b + i + n <= p /\ p < stop
    <3>1. /\ p \in b..(stop - 1) /\ p \notin first..(first + n - 1) /\ ~(p < b + i) /\ ~(p < b + i + n)
          /\ p \in to..(to + k - 1)
      BY <1>2, <1>3, <2>1, <2>7
    <3>2. PICK w : w = p - to + first
      OBVIOUS
    <3>3. w \in low..high /\ w \in b..(en - 1) /\ w - b + d.begin = p - stop + d.end
      BY <1>2, <1>3, <1>6, <2>1, <2>7, <3>2
    <3>4. f.cell[w] = d.cell[w - b + d.begin]
      BY <1>5, <3>3
    <3>5. After(d, r, i, n, v, p) = d.cell[p - stop + d.end]
      BY <1>10, <3>1, Zenon DEF After
    <3> QED
      BY <2>2, <3>1, <3>2, <3>3, <3>4, <3>5, Zenon
  <2> QED
    BY <1>2, <1>3, <2>1, <2>4, <2>5, <2>6, <2>7
<1>12. r.cell = [p \in low..high |-> After(d, r, i, n, v, p)]
  BY <1>9, <1>11
<1>13. stop - b = i + n + (d.end - d.begin - i)
  BY <1>2, <1>3
<1> QED
  BY <1>1, <1>2, <1>3, <1>4, <1>10, <1>12, <1>13, <1>15 DEF Effect

\* What DoInsertValues does to a deque with room in front ...
LEMMA RoomFilledInFront ==
  ASSUME DequeAssumption, NEW d, Layout(d), NEW n \in Nat, NEW i \in Nat, i <= Size(d), NEW v,
         NEW f, Room(d, f, n, 0)
  PROVE  FilledInFront(f, [f EXCEPT !.begin = @ - n,
                                    !.cell = Fill(Move(@, f.begin, i, f.begin - n, FALSE),
                                                  (f.begin - n + i)..(f.begin + i - 1), v)], i, n, v)
<1>1. PICK first, to, en, low, high :
        /\ first = f.begin /\ to = f.begin - n /\ en = f.end
        /\ low = FirstPlace(Slot(f.begin - n)) /\ high = LastPlace(Slot(f.end))
  OBVIOUS
<1>2. PICK m, c, r : /\ m = Move(f.cell, f.begin, i, f.begin - n, FALSE)
                     /\ c = Fill(m, (f.begin - n + i)..(f.begin + i - 1), v)
                     /\ r = [f EXCEPT !.begin = @ - n,
                                      !.cell = Fill(Move(@, f.begin, i, f.begin - n, FALSE),
                                                    (f.begin - n + i)..(f.begin + i - 1), v)]
  OBVIOUS
<1>3. /\ first \in Int /\ en \in Int /\ to \in Int /\ to = first - n /\ i <= en - first
  <2>1. first \in Int /\ en \in Int /\ en - first = d.end - d.begin
    BY <1>1 DEF Room
  <2>2. i <= d.end - d.begin
    BY DEF Size
  <2>3. to = first - n
    BY <1>1, Zenon
  <2> QED
    BY <2>1, <2>2, <2>3
<1>4. Fields(f)
  BY DEF Room
<1>5. f.cell = [p \in low..high |-> IF p \in first..(en - 1) THEN d.cell[p - first + d.begin] ELSE Raw]
  <2>1. f.end + 0 = f.end
    BY <1>1, <1>3
  <2> QED
    BY <1>1, <2>1 DEF Room
<1>6. f.cell = [p \in DOMAIN f.cell |-> f.cell[p]] /\ DOMAIN f.cell = low..high
  BY <1>5
<1>7. low \in Int /\ high \in Int /\ low <= to /\ en <= high
  BY <1>1, <1>3, SlotBounds
<1>8. first..(first + i - 1) \subseteq low..high /\ to..(to + i - 1) \subseteq low..high /\ to <= first
  BY <1>3, <1>7
<1>9. first..(first + i - 1) \subseteq DOMAIN f.cell /\ to..(to + i - 1) \subseteq DOMAIN f.cell
  BY <1>6, <1>8, Zenon
<1>10. PICK g : g = f.cell
  OBVIOUS
<1>11. /\ g = [p \in DOMAIN g |-> g[p]]
       /\ first..(first + i - 1) \subseteq DOMAIN g /\ to..(to + i - 1) \subseteq DOMAIN g
  BY <1>6, <1>9, <1>10
<1>12. Move(g, first, i, to, FALSE) = AfterMove(g, first, i, to)
  BY <1>3, <1>8, <1>11, MoveForward
<1>13. m = AfterMove(f.cell, f.begin, i, f.begin - n)
  BY <1>1, <1>2, <1>10, <1>12, Zenon
<1>14. r = [f EXCEPT !.begin = f.begin - n, !.cell = c]
  BY <1>2, Zenon
<1>15. r = [size |-> f.size, begin |-> f.begin - n, end |-> f.end, cell |-> c]
  BY <1>4, <1>14, DequeUpdates
<1>16. Fields(r) /\ r.size = f.size /\ r.begin = f.begin - n /\ r.end = f.end /\ r.cell = c
  BY <1>15, RecordFields
<1>17. FilledInFront(f, r, i, n, v)
  BY <1>2, <1>13, <1>16, Zenon DEF FilledInFront
<1> QED
  BY <1>2, <1>17, Zenon

\* ... and to one with room behind.
LEMMA RoomFilledBehind ==
  ASSUME DequeAssumption, NEW d, Layout(d), NEW n \in Nat, NEW k \in Nat, k <= Size(d), NEW v,
         NEW f, Room(d, f, 0, n)
  PROVE  FilledBehind(f, [f EXCEPT !.end = @ + n,
                                   !.cell = Fill(Move(@, f.end - k, k, f.end - k + n, TRUE),
                                                 (f.end - k)..(f.end - k + n - 1), v)], k, n, v)
<1>1. PICK b, en, stop, first, to, low, high :
        /\ b = f.begin /\ en = f.end /\ stop = f.end + n /\ first = f.end - k /\ to = f.end - k + n
        /\ low = FirstPlace(Slot(f.begin)) /\ high = LastPlace(Slot(f.end + n))
  OBVIOUS
<1>2. PICK m, c, r : /\ m = Move(f.cell, f.end - k, k, f.end - k + n, TRUE)
                     /\ c = Fill(m, (f.end - k)..(f.end - k + n - 1), v)
                     /\ r = [f EXCEPT !.end = @ + n,
                                      !.cell = Fill(Move(@, f.end - k, k, f.end - k + n, TRUE),
                                                    (f.end - k)..(f.end - k + n - 1), v)]
  OBVIOUS
<1>3. /\ b \in Int /\ en \in Int /\ stop \in Int /\ first \in Int /\ to \in Int
      /\ first = en - k /\ to = en - k + n /\ stop = en + n /\ k <= en - b
  <2>1. b \in Int /\ en \in Int /\ en - b = d.end - d.begin
    BY <1>1 DEF Room
  <2>2. k <= d.end - d.begin
    BY DEF Size
  <2>3. first = en - k /\ to = en - k + n /\ stop = en + n
    BY <1>1, Zenon
  <2> QED
    BY <2>1, <2>2, <2>3
<1>4. Fields(f)
  BY DEF Room
<1>5. f.cell = [p \in low..high |-> IF p \in b..(en - 1) THEN d.cell[p - b + d.begin] ELSE Raw]
  <2>1. f.begin - 0 = f.begin
    BY <1>1, <1>3
  <2> QED
    BY <1>1, <2>1 DEF Room
<1>6. f.cell = [p \in DOMAIN f.cell |-> f.cell[p]] /\ DOMAIN f.cell = low..high
  BY <1>5
<1>7. low \in Int /\ high \in Int /\ low <= b /\ stop <= high
  BY <1>1, <1>3, SlotBounds
<1>8. first..(first + k - 1) \subseteq low..high /\ to..(to + k - 1) \subseteq low..high /\ first <= to
  BY <1>3, <1>7
<1>9. first..(first + k - 1) \subseteq DOMAIN f.cell /\ to..(to + k - 1) \subseteq DOMAIN f.cell
  BY <1>6, <1>8, Zenon
<1>10. PICK g : g = f.cell
  OBVIOUS
<1>11. /\ g = [p \in DOMAIN g |-> g[p]]
       /\ first..(first + k - 1) \subseteq DOMAIN g /\ to..(to + k - 1) \subseteq DOMAIN g
  BY <1>6, <1>9, <1>10
<1>12. Move(g, first, k, to, TRUE) = AfterMove(g, first, k, to)
  <2>1. first \in Int /\ to \in Int /\ first <= to
    BY <1>3, <1>8, Zenon
  <2> QED
    BY <1>11, <2>1, MoveBackward
<1>13. m = AfterMove(f.cell, f.end - k, k, f.end - k + n)
  BY <1>1, <1>2, <1>10, <1>12, Zenon
<1>14. r = [f EXCEPT !.end = f.end + n, !.cell = c]
  BY <1>2, Zenon
<1>15. r = [size |-> f.size, begin |-> f.begin, end |-> f.end + n, cell |-> c]
  BY <1>4, <1>14, DequeUpdates
<1>16. Fields(r) /\ r.size = f.size /\ r.begin = f.begin /\ r.end = f.end + n /\ r.cell = c
  BY <1>15, RecordFields
<1>17. FilledBehind(f, r, k, n, v)
  BY <1>2, <1>13, <1>16, Zenon DEF FilledBehind
<1> QED
  BY <1>2, <1>17, Zenon

\* insert of n values at every position.
LEMMA DoInsertValuesEffect ==
  ASSUME DequeAssumption, NEW d, Layout(d), NEW i \in Nat, i <= Size(d), NEW n \in Nat, NEW a
  PROVE  Effect(d, DoInsertValues(d, i, n, a), i, i, n, Argument(d, a))
<1>1. PICK r, v, k : r = DoInsertValues(d, i, n, a) /\ v = Argument(d, a) /\ k = Size(d) - i
  OBVIOUS
<1>2. k \in Nat /\ k <= Size(d)
  <2>1. d.begin \in Int /\ d.end \in Int
    BY LayoutFacts
  <2>2. Size(d) \in Int
    BY <2>1 DEF Size
  <2> QED
    BY <1>1, <2>2
<1>3. CASE i = 0 \/ (i # Size(d) /\ i < Size(d) \div 2)
  <2>1. PICK f : f = DoReallocSubarray(d, n, "front")
    OBVIOUS
  <2>2. Room(d, f, n, 0)
    BY <2>1, RoomInFront
  <2>3. FilledInFront(f, [f EXCEPT !.begin = @ - n,
                                    !.cell = Fill(Move(@, f.begin, i, f.begin - n, FALSE),
                                                  (f.begin - n + i)..(f.begin + i - 1), v)], i, n, v)
    BY <2>2, RoomFilledInFront
  <2>4. FilledInFront(f, r, i, n, v)
    BY <1>1, <1>3, <2>1, <2>3, Zenon DEF DoInsertValues
  <2>5. Effect(d, r, i, i, n, v)
    BY <2>2, <2>4, FrontFilled
  <2> QED
    BY <1>1, <2>5, Zenon
<1>4. CASE ~(i = 0 \/ (i # Size(d) /\ i < Size(d) \div 2))
  <2>1. PICK f : f = DoReallocSubarray(d, n, "back")
    OBVIOUS
  <2>2. Room(d, f, 0, n)
    BY <2>1, RoomBehind
  <2>3. FilledBehind(f, [f EXCEPT !.end = @ + n,
                                  !.cell = Fill(Move(@, f.end - k, k, f.end - k + n, TRUE),
                                                (f.end - k)..(f.end - k + n - 1), v)], k, n, v)
    BY <1>2, <2>2, RoomFilledBehind
  <2>4. FilledBehind(f, r, Size(d) - i, n, v)
    BY <1>1, <1>4, <2>1, <2>3, Zenon DEF DoInsertValues
  <2>5. Effect(d, r, i, i, n, v)
    BY <2>2, <2>4, BackFilled
  <2> QED
    BY <1>1, <2>5, Zenon
<1> QED
  BY <1>3, <1>4

\* resize: the new elements at the back, or the last ones away.
LEMMA ResizeEffect ==
  ASSUME DequeAssumption, NEW d, Layout(d), NEW n \in Nat, NEW a
  PROVE  Effect(d, Resize(d, n, a), IF n < Size(d) THEN n ELSE Size(d), Size(d),
                IF n < Size(d) THEN 0 ELSE n - Size(d), Argument(d, a))
<1>1. PICK r, v, k, s : r = Resize(d, n, a) /\ v = Argument(d, a) /\ k = n - Size(d) /\ s = Size(d)
  OBVIOUS
<1>2. s \in Nat /\ k = n - s
  <2>1. d.begin \in Int /\ d.end \in Int /\ d.begin <= d.end
    BY LayoutFacts
  <2>2. s = d.end - d.begin
    BY <1>1, Zenon DEF Size
  <2>3. k = n - s
    BY <1>1, Zenon
  <2> QED
    BY <2>1, <2>2, <2>3
<1>3. CASE n > s
  <2>1. r = DoInsertValues(d, s, k, a) /\ k \in Nat /\ ~(n < s)
    BY <1>1, <1>2, <1>3 DEF Resize
  <2>2. s <= s /\ s <= Size(d)
    BY <1>1, <1>2
  <2>3. Effect(d, DoInsertValues(d, s, k, a), s, s, k, Argument(d, a))
    BY <1>2, <2>1, <2>2, DoInsertValuesEffect
  <2> QED
    BY <1>1, <2>1, <2>3, Zenon
<1>4. CASE n < s
  <2>1. r = Erase(d, n, s) /\ n <= s
    BY <1>1, <1>2, <1>4 DEF Resize
  <2>2. s <= Size(d)
    BY <1>1, <1>2
  <2>3. Effect(d, Erase(d, n, s), n, s, 0, v)
    BY <1>2, <2>1, <2>2, EraseEffect
  <2> QED
    BY <1>1, <1>4, <2>1, <2>3, Zenon
<1>5. CASE n = s
  <2>1. r = Erase(d, n, s) /\ n <= s
    BY <1>1, <1>2, <1>5 DEF Resize
  <2>2. s <= Size(d) /\ ~(n < s) /\ n - s = 0
    BY <1>1, <1>2, <1>5
  <2>3. Effect(d, Erase(d, n, s), n, s, 0, v)
    BY <1>2, <2>1, <2>2, EraseEffect
  <2> QED
    BY <1>1, <1>5, <2>1, <2>2, <2>3, Zenon
<1> QED
  BY <1>2, <1>3, <1>4, <1>5

\* After assign every element is v.
LEMMA DoAssignValuesEffect ==
  ASSUME DequeAssumption, NEW d, Layout(d), NEW n \in Nat, NEW v
  PROVE  Effect(d, DoAssignValues(d, n, v), 0, Size(d), n, v)
<1>1. PICK e, r, s, i, m, w :
        /\ e = Resize(d, n, v) /\ r = DoAssignValues(d, n, v) /\ s = Size(d) /\ w = Argument(d, v)
        /\ i = (IF n < Size(d) THEN n ELSE Size(d)) /\ m = (IF n < Size(d) THEN 0 ELSE n - Size(d))
  OBVIOUS
<1>2. d.begin \in Int /\ d.end \in Int /\ s \in Nat /\ s = d.end - d.begin
  <2>1. d.begin \in Int /\ d.end \in Int /\ d.begin <= d.end
    BY LayoutFacts
  <2>2. s = d.end - d.begin
    BY <1>1, Zenon DEF Size
  <2> QED
    BY <2>1, <2>2
<1>3. i + m = n /\ i \in Nat /\ m \in Nat
  <2>1. i = (IF n < s THEN n ELSE s) /\ m = (IF n < s THEN 0 ELSE n - s)
    BY <1>1, Zenon
  <2> QED
    BY <1>2, <2>1
<1>4. Effect(d, e, i, s, m, w)
  <2>1. Effect(d, Resize(d, n, v), IF n < Size(d) THEN n ELSE Size(d), Size(d),
               IF n < Size(d) THEN 0 ELSE n - Size(d), Argument(d, v))
    BY ResizeEffect
  <2> QED
    BY <1>1, <2>1, Zenon
<1>5. PICK z, b, en, low, high :
        /\ z = e.size /\ b = e.begin /\ en = e.end
        /\ low = FirstPlace(Slot(e.begin)) /\ high = LastPlace(Slot(e.end))
  OBVIOUS
<1>6. /\ Fields(e) /\ z \in Int /\ b \in Int /\ en \in Int /\ en = b + n /\ 0 <= Slot(b) /\ Slot(en) < z
  <2>1. /\ Fields(e) /\ z \in Int /\ b \in Int /\ en \in Int /\ en - b = i + m + (d.end - d.begin - s)
        /\ 0 <= Slot(b) /\ Slot(en) < z
    BY <1>4, <1>5 DEF Effect
  <2> QED
    BY <1>2, <1>3, <2>1
<1>7. e.cell = [p \in low..high |-> After(d, e, i, m, w, p)]
  BY <1>4, <1>5 DEF Effect
<1>8. low \in Int /\ high \in Int /\ low <= b /\ en <= high
  BY <1>5, <1>6, SlotBounds
<1>9. PICK c : c = Fill(e.cell, b..(en - 1), v)
  OBVIOUS
<1>10. r = [e EXCEPT !.cell = c]
  BY <1>1, <1>5, <1>9, Zenon DEF DoAssignValues
<1>11. r = [size |-> e.size, begin |-> e.begin, end |-> e.end, cell |-> c]
  BY <1>6, <1>10, DequeUpdates
<1>12. Fields(r) /\ r.size = e.size /\ r.begin = e.begin /\ r.end = e.end /\ r.cell = c
  BY <1>11, RecordFields
<1>13. Fields(r) /\ r.size = z /\ r.begin = b /\ r.end = en
  BY <1>5, <1>12, Zenon
<1>14. r.cell = [p \in low..high |-> IF p \in b..(en - 1) THEN v ELSE e.cell[p]]
  <2>1. b..(en - 1) \cup DOMAIN e.cell = low..high
    <3>1. DOMAIN e.cell = low..high
      BY <1>7
    <3>2. b..(en - 1) \subseteq low..high
      BY <1>6, <1>8
    <3> QED
      BY <3>1, <3>2
  <2> QED
    BY <1>9, <1>12, <2>1 DEF Fill
<1>15. ASSUME NEW p \in low..high
       PROVE  (IF p \in b..(en - 1) THEN v ELSE e.cell[p]) = After(d, r, 0, n, v, p)
  <2>1. e.cell[p] = After(d, e, i, m, w, p) /\ p \in Int
    BY <1>7, <1>8
  <2>2. CASE p \notin b..(en - 1)
    <3>1. e.cell[p] = Raw
      BY <1>5, <2>1, <2>2, Zenon DEF After
    <3> QED
      BY <1>13, <2>2, <3>1, Zenon DEF After
  <2>3. CASE p \in b..(en - 1)
    <3>1. ~(p < b + 0) /\ p < b + 0 + n
      BY <1>6, <2>1, <2>3
    <3> QED
      BY <1>13, <2>3, <3>1, Zenon DEF After
  <2> QED
    BY <2>2, <2>3
<1>16. r.cell = [p \in low..high |-> After(d, r, 0, n, v, p)]
  BY <1>14, <1>15
<1>17. en - b = 0 + n + (d.end - d.begin - s)
  BY <1>2, <1>6
<1>18. low = FirstPlace(Slot(r.begin)) /\ high = LastPlace(Slot(r.end))
  BY <1>5, <1>12, Zenon
<1>19. Effect(d, r, 0, s, n, v)
  BY <1>6, <1>13, <1>16, <1>17, <1>18 DEF Effect
<1> QED
  BY <1>1, <1>19, Zenon

\* A deque of n raw cells.
FreshCells(x, n) ==
  /\ Fields(x) /\ x.size \in Int /\ x.begin \in Int /\ x.end \in Int /\ x.end = x.begin + n
  /\ 0 <= Slot(x.begin) /\ Slot(x.end) < x.size
  /\ x.cell = [p \in FirstPlace(Slot(x.begin))..LastPlace(Slot(x.end)) |-> Raw]

\* DoInit makes one.
LEMMA DoInitFresh ==
  ASSUME DequeAssumption, NEW n \in Nat
  PROVE  FreshCells(DoInit(n), n)
<1>1. PICK used, size : used = n \div SubarraySize + 1 /\ size = Max({MinPtrArraySize, used + 2})
  OBVIOUS
<1>2. PICK first : first = (size - used) \div 2
  OBVIOUS
<1>3. PICK b, x, c : /\ b = first * SubarraySize /\ x = DoInit(n)
                     /\ c = [p \in PlacesOf(first..(first + used - 1)) |-> Raw]
  OBVIOUS
<1>4. n \div SubarraySize \in Int /\ 0 <= n \div SubarraySize /\ n \div SubarraySize = Slot(n)
  BY DEF Slot, DequeAssumption
<1>5. used \in Nat /\ used = Slot(n) + 1
  BY <1>1, <1>4
<1>6. size \in Int /\ used + 2 <= size
  <2>1. used + 2 \in Int /\ MinPtrArraySize \in Int
    BY <1>5 DEF DequeAssumption
  <2>2. size = IF MinPtrArraySize <= used + 2 THEN used + 2 ELSE MinPtrArraySize
    BY <1>1, <2>1, MaxOfTwo
  <2> QED
    BY <2>1, <2>2
<1>7. first \in Nat /\ first + used <= size /\ first + used - 1 \in Int
  BY <1>2, <1>5, <1>6
<1>8. b = FirstPlace(first) /\ b \in Int
  BY <1>3, <1>7, Multiples DEF FirstPlace
<1>9. Slot(b) = first /\ Slot(b + n) = first + Slot(n) /\ Slot(b + n) = first + used - 1
  <2>1. Slot(FirstPlace(first) + n) = first + Slot(n)
    BY <1>7, SlotOfSum
  <2>2. Slot(FirstPlace(first) + 0) = first + Slot(0)
    BY <1>7, SlotOfSum
  <2>3. Slot(0) = 0
    BY DEF Slot, DequeAssumption
  <2>4. b + 0 = b /\ first + 0 = first
    BY <1>7, <1>8
  <2>5. Slot(n) \in Int
    BY DivMod
  <2>6. first + Slot(n) = first + used - 1
    BY <1>5, <1>7, <2>5
  <2>7. Slot(b) = first
    BY <1>8, <2>2, <2>3, <2>4, Zenon
  <2> QED
    BY <1>8, <2>1, <2>6, <2>7, Zenon
<1>10. x = [size |-> size, begin |-> b, end |-> b + n, cell |-> c]
  BY <1>1, <1>2, <1>3, Zenon DEF DoInit
<1>11. Fields(x) /\ x.size = size /\ x.begin = b /\ x.end = b + n /\ x.cell = c
  BY <1>10, RecordFields
<1>12. c = [p \in FirstPlace(Slot(b))..LastPlace(Slot(b + n)) |-> Raw]
  <2>1. PlacesOf(first..(first + used - 1)) = FirstPlace(first)..LastPlace(first + used - 1)
    BY <1>7, PlacesOfSlots
  <2>2. PlacesOf(first..(first + used - 1)) = FirstPlace(Slot(b))..LastPlace(Slot(b + n))
    BY <1>9, <2>1, Zenon
  <2> QED
    BY <1>3, <2>2
<1>13. 0 <= Slot(b) /\ Slot(b + n) < size /\ b + n \in Int
  BY <1>5, <1>6, <1>7, <1>8, <1>9
<1>14. /\ x.size \in Int /\ x.begin \in Int /\ x.end \in Int /\ x.end = x.begin + n
       /\ 0 <= Slot(x.begin) /\ Slot(x.end) < x.size
  BY <1>6, <1>8, <1>11, <1>13, Zenon
<1>15. x.cell = [p \in FirstPlace(Slot(x.begin))..LastPlace(Slot(x.end)) |-> Raw]
  <2>1. FirstPlace(Slot(x.begin))..LastPlace(Slot(x.end)) = FirstPlace(Slot(b))..LastPlace(Slot(b + n))
    BY <1>11, Zenon
  <2> QED
    BY <1>11, <1>12, <2>1
<1>16. FreshCells(x, n)
  BY <1>11, <1>14, <1>15, Zenon DEF FreshCells
<1> QED
  BY <1>3, <1>16, Zenon

\* The deque that was moved from is an empty one.
LEMMA DoInitEffect ==
  ASSUME DequeAssumption, NEW d, Layout(d), NEW v
  PROVE  Effect(d, DoInit(0), 0, Size(d), 0, v)
<1>1. PICK r, n, low, high : /\ r = DoInit(0) /\ n = Size(d)
                             /\ low = FirstPlace(Slot(DoInit(0).begin)) /\ high = LastPlace(Slot(DoInit(0).end))
  OBVIOUS
<1>2. FreshCells(r, 0)
  BY <1>1, DoInitFresh
<1>3. /\ Fields(r) /\ r.size \in Int /\ r.begin \in Int /\ r.end \in Int /\ r.end = r.begin + 0
      /\ 0 <= Slot(r.begin) /\ Slot(r.end) < r.size
  BY <1>2 DEF FreshCells
<1>4. r.cell = [p \in low..high |-> Raw]
  BY <1>1, <1>2 DEF FreshCells
<1>5. r.end - r.begin = 0 + 0 + (d.end - d.begin - n)
  <2>1. d.begin \in Int /\ d.end \in Int
    BY LayoutFacts
  <2>2. n = d.end - d.begin
    BY <1>1, Zenon DEF Size
  <2> QED
    BY <1>3, <2>1, <2>2
<1>6. \A p : p \notin r.begin..(r.end - 1)
  BY <1>3
<1>7. \A p : After(d, r, 0, 0, v, p) = Raw
  BY <1>6, Zenon DEF After
<1>8. r.cell = [p \in low..high |-> After(d, r, 0, 0, v, p)]
  BY <1>4, <1>7
<1>9. low = FirstPlace(Slot(r.begin)) /\ high = LastPlace(Slot(r.end))
  BY <1>1, Zenon
<1>10. Effect(d, r, 0, n, 0, v)
  BY <1>3, <1>5, <1>8, <1>9 DEF Effect
<1> QED
  BY <1>1, <1>10, Zenon

\* Shrinking copies every element into a fresh deque.
LEMMA ShrinkToFitEffect ==
  ASSUME DequeAssumption, NEW d, Layout(d), NEW v
  PROVE  Effect(d, ShrinkToFit(d), 0, 0, 0, v)
<1>1. PICK x, n, r : x = DoInit(Size(d)) /\ n = Size(d) /\ r = ShrinkToFit(d)
  OBVIOUS
<1>2. PICK s, b, en, low, high : /\ s = x.size /\ b = x.begin /\ en = x.end
                                 /\ low = FirstPlace(Slot(x.begin)) /\ high = LastPlace(Slot(x.end))
  OBVIOUS
<1>3. d.begin \in Int /\ d.end \in Int /\ n \in Nat /\ n = d.end - d.begin
  <2>1. d.begin \in Int /\ d.end \in Int /\ d.begin <= d.end
    BY LayoutFacts
  <2>2. n = d.end - d.begin
    BY <1>1, Zenon DEF Size
  <2> QED
    BY <2>1, <2>2
<1>4. FreshCells(x, n)
  BY <1>1, <1>3, DoInitFresh
<1>5. /\ Fields(x) /\ s \in Int /\ b \in Int /\ en \in Int /\ en = b + n /\ 0 <= Slot(b) /\ Slot(en) < s
  BY <1>2, <1>4, Zenon DEF FreshCells
<1>6. x.cell = [p \in low..high |-> Raw]
  BY <1>2, <1>4 DEF FreshCells
<1>7. low \in Int /\ high \in Int
  BY <1>2, <1>5, SlotBounds
<1>8. PICK c : c = [p \in DOMAIN x.cell |-> IF p \in b..(en - 1) THEN d.cell[p - b + d.begin] ELSE x.cell[p]]
  OBVIOUS
<1>9. r = [x EXCEPT !.cell = c]
  <2>1. r = [x EXCEPT !.cell = [p \in DOMAIN x.cell |-> IF p \in x.begin..(x.end - 1)
                                  THEN d.cell[p - x.begin + d.begin] ELSE x.cell[p]]]
    BY <1>1 DEF ShrinkToFit
  <2>2. PICK e : e = [p \in DOMAIN x.cell |-> IF p \in x.begin..(x.end - 1)
                        THEN d.cell[p - x.begin + d.begin] ELSE x.cell[p]]
    OBVIOUS
  <2>3. e = c
    BY <1>2, <1>8, <2>2
  <2> QED
    BY <2>1, <2>2, <2>3, Zenon
<1>10. r = [size |-> x.size, begin |-> x.begin, end |-> x.end, cell |-> c]
  BY <1>5, <1>9, DequeUpdates
<1>11. Fields(r) /\ r.size = x.size /\ r.begin = x.begin /\ r.end = x.end /\ r.cell = c
  BY <1>10, RecordFields
<1>12. r.size = s /\ r.begin = b /\ r.end = en
  BY <1>2, <1>11, Zenon
<1>13. c = [p \in low..high |-> IF p \in b..(en - 1) THEN d.cell[p - b + d.begin] ELSE Raw]
  BY <1>6, <1>8
<1>14. ASSUME NEW p \in low..high
       PROVE  (IF p \in b..(en - 1) THEN d.cell[p - b + d.begin] ELSE Raw) = After(d, r, 0, 0, v, p)
  <2>1. p \in Int
    BY <1>7
  <2>2. CASE p \notin b..(en - 1)
    BY <1>12, <2>2, Zenon DEF After
  <2>3. CASE p \in b..(en - 1)
    <3>1. ~(p < b + 0) /\ ~(p < b + 0 + 0) /\ p - b + d.begin = p - en + d.end
      BY <1>3, <1>5, <2>1, <2>3
    <3> QED
      BY <1>12, <2>3, <3>1, Zenon DEF After
  <2> QED
    BY <2>2, <2>3
<1>15. r.cell = [p \in low..high |-> After(d, r, 0, 0, v, p)]
  <2>1. c = [p \in low..high |-> After(d, r, 0, 0, v, p)]
    BY <1>13, <1>14
  <2> QED
    BY <1>11, <2>1, Zenon
<1>16. en - b = 0 + 0 + (d.end - d.begin - 0)
  BY <1>3, <1>5
<1>17. low = FirstPlace(Slot(r.begin)) /\ high = LastPlace(Slot(r.end))
  BY <1>2, <1>11, Zenon
<1>18. Effect(d, r, 0, 0, 0, v)
  BY <1>5, <1>11, <1>12, <1>15, <1>16, <1>17 DEF Effect
<1> QED
  BY <1>1, <1>18, Zenon

-----------------------------------------------------------------------------

\* The elements of a deque are values.
SoundDeque(d) == Layout(d) /\ \A p \in d.begin..(d.end - 1) : d.cell[p] \in Elements

\* r has the run in the place of the elements of d from i up to before j.
Promised(d, r, i, j, run) ==
  Contents(r) = SubSeq(Contents(d), 1, i) \o run \o SubSeq(Contents(d), j + 1, Size(d))

\* The contents of a sound deque are a sequence of values.
LEMMA ContentsOfSound ==
  ASSUME DequeAssumption, NEW d, SoundDeque(d)
  PROVE  /\ Size(d) \in Nat /\ Contents(d) \in Seq(Elements) /\ Len(Contents(d)) = Size(d)
         /\ \A l \in 1..Size(d) : Contents(d)[l] = d.cell[d.begin + l - 1]
         /\ \A l \in 1..Size(d) : Contents(d)[l] \in Elements
<1>1. PICK n, b : n = Size(d) /\ b = d.begin
  OBVIOUS
<1>2. b \in Int /\ n \in Nat /\ d.end = b + n
  <2>1. b \in Int /\ d.end \in Int /\ b <= d.end
    BY <1>1, LayoutFacts DEF SoundDeque
  <2>2. n = d.end - b
    BY <1>1, Zenon DEF Size
  <2> QED
    BY <2>1, <2>2
<1>3. Contents(d) = [l \in 1..n |-> d.cell[b + l - 1]]
  BY <1>1, Zenon DEF Contents
<1>4. ASSUME NEW l \in 1..n
      PROVE  d.cell[b + l - 1] \in Elements
  <2>1. b + l - 1 \in d.begin..(d.end - 1)
    BY <1>1, <1>2
  <2> QED
    BY <2>1 DEF SoundDeque
<1>5. PICK e : e = [l \in 1..n |-> d.cell[b + l - 1]]
  OBVIOUS
<1>6. \A l \in 1..n : e[l] = d.cell[b + l - 1] /\ e[l] \in Elements
  BY <1>4, <1>5
<1>7. e \in [1..n -> Elements]
  <2>1. e = [l \in 1..n |-> e[l]]
    BY <1>5
  <2> QED
    BY <1>6, <2>1
<1>8. e \in Seq(Elements) /\ Len(e) = n
  <2>1. DOMAIN e = 1..n
    BY <1>5
  <2>2. e \in Seq(Elements)
    BY <1>2, <1>7, SeqDef
  <2>3. Len(e) \in Nat /\ DOMAIN e = 1..Len(e)
    BY <2>2, LenProperties
  <2> QED
    BY <1>2, <2>1, <2>2, <2>3
<1> QED
  BY <1>1, <1>2, <1>3, <1>5, <1>6, <1>8, Zenon

\* An effect keeps a deque sound ...
LEMMA EffectSound ==
  ASSUME DequeAssumption, NEW d, SoundDeque(d), NEW r, NEW i \in Nat, NEW j \in Nat, i <= j, j <= Size(d),
         NEW m \in Nat, NEW v, m # 0 => v \in Elements, Effect(d, r, i, j, m, v)
  PROVE  SoundDeque(r)
<1>1. PICK b, en, n : b = r.begin /\ en = r.end /\ n = Size(d)
  OBVIOUS
<1>2. /\ b \in Int /\ en \in Int /\ d.begin \in Int /\ d.end \in Int /\ n = d.end - d.begin /\ j <= n
      /\ en = b + i + m + (n - j)
  <2>1. b \in Int /\ en \in Int /\ en - b = i + m + (d.end - d.begin - j)
    BY <1>1 DEF Effect
  <2>2. d.begin \in Int /\ d.end \in Int
    BY LayoutFacts DEF SoundDeque
  <2>3. n = d.end - d.begin /\ j <= n
    BY <1>1 DEF Size
  <2> QED
    BY <2>1, <2>2, <2>3
<1>3. Layout(r)
  <2>1. b <= en
    BY <1>2
  <2>2. r.begin <= r.end
    BY <1>1, <2>1, Zenon
  <2> QED
    BY <2>2, EffectKeepsLayout
<1>4. ASSUME NEW p \in b..(en - 1)
      PROVE  r.cell[p] \in Elements
  <2>1. p \in Int /\ b <= p /\ p < en
    BY <1>2
  <2>2. PICK low, high : low = FirstPlace(Slot(r.begin)) /\ high = LastPlace(Slot(r.end))
    OBVIOUS
  <2>3. low \in Int /\ high \in Int /\ low <= b /\ en <= high
    BY <1>1, <1>2, <2>2, SlotBounds
  <2>4. r.cell = [q \in low..high |-> After(d, r, i, m, v, q)]
    BY <2>2 DEF Effect
  <2>5. p \in low..high
    BY <1>2, <2>1, <2>3
  <2>6. r.cell[p] = After(d, r, i, m, v, p)
    BY <2>4, <2>5
  <2>7. CASE p < b + i
    <3>1. PICK w : w = p - b + d.begin
      OBVIOUS
    <3>2. w \in d.begin..(d.end - 1)
      BY <1>2, <2>1, <2>7, <3>1
    <3>3. r.cell[p] = d.cell[w]
      BY <1>1, <2>6, <2>7, <3>1, Zenon DEF After
    <3> QED
      BY <3>2, <3>3 DEF SoundDeque
  <2>8. CASE ~(p < b + i) /\ p < b + i + m
    <3>1. m # 0
      BY <1>2, <2>1, <2>8
    <3>2. r.cell[p] = v
      BY <1>1, <2>6, <2>8, Zenon DEF After
    <3> QED
      BY <3>1, <3>2
  <2>9. CASE ~(p < b + i) /\ ~(p < b + i + m)
    <3>1. PICK w : w = p - en + d.end
      OBVIOUS
    <3>2. w \in d.begin..(d.end - 1)
      BY <1>2, <2>1, <2>9, <3>1
    <3>3. r.cell[p] = d.cell[w]
      BY <1>1, <2>6, <2>9, <3>1, Zenon DEF After
    <3> QED
      BY <3>2, <3>3 DEF SoundDeque
  <2> QED
    BY <2>7, <2>8, <2>9
<1> QED
  BY <1>1, <1>3, <1>4, Zenon DEF SoundDeque

\* m elements v.
Run(m, v) == [l \in 1..m |-> v]

\* A run of equal values is a sequence.
LEMMA RunOfValues ==
  ASSUME NEW m \in Nat, NEW v, m # 0 => v \in Elements, NEW run, run = [l \in 1..m |-> v]
  PROVE  run \in Seq(Elements) /\ Len(run) = m /\ \A l \in 1..m : run[l] = v
<1>1. \A l \in 1..m : run[l] = v
  OBVIOUS
<1>2. \A l \in 1..m : v \in Elements
  OBVIOUS
<1>3. run \in [1..m -> Elements] /\ DOMAIN run = 1..m
  BY <1>2
<1>4. run \in Seq(Elements)
  BY <1>3, SeqDef
<1>5. Len(run) \in Nat /\ DOMAIN run = 1..Len(run)
  BY <1>4, LenProperties
<1> QED
  BY <1>1, <1>3, <1>4, <1>5

\* ... and does to its contents what a call of that effect promises.
LEMMA EffectContents ==
  ASSUME DequeAssumption, NEW d, SoundDeque(d), NEW r, NEW i \in Nat, NEW j \in Nat, i <= j, j <= Size(d),
         NEW m \in Nat, NEW v, m # 0 => v \in Elements, Effect(d, r, i, j, m, v)
  PROVE  Promised(d, r, i, j, Run(m, v))
<1>1. PICK b, en, n, size : b = r.begin /\ en = r.end /\ n = Size(d) /\ size = Size(r)
  OBVIOUS
<1>2. PICK head, run, tail, old, new :
        /\ old = Contents(d) /\ new = Contents(r)
        /\ head = SubSeq(Contents(d), 1, i) /\ run = [l \in 1..m |-> v]
        /\ tail = SubSeq(Contents(d), j + 1, Size(d))
  OBVIOUS
<1>3. SoundDeque(r)
  BY EffectSound
<1>4. /\ b \in Int /\ en \in Int /\ d.begin \in Int /\ d.end \in Int /\ n \in Nat /\ n = d.end - d.begin
      /\ j <= n /\ en = b + i + m + (n - j) /\ size = i + m + (n - j)
  <2>1. b \in Int /\ en \in Int /\ en - b = i + m + (d.end - d.begin - j)
    BY <1>1 DEF Effect
  <2>2. d.begin \in Int /\ d.end \in Int
    BY LayoutFacts DEF SoundDeque
  <2>3. n = d.end - d.begin /\ j <= n /\ size = en - b
    BY <1>1 DEF Size
  <2> QED
    BY <2>1, <2>2, <2>3
<1>5. /\ old \in Seq(Elements) /\ Len(old) = n
      /\ \A l \in 1..n : old[l] = d.cell[d.begin + l - 1] /\ old[l] \in Elements
  <2>1. /\ Contents(d) \in Seq(Elements) /\ Len(Contents(d)) = Size(d)
        /\ \A l \in 1..Size(d) : Contents(d)[l] = d.cell[d.begin + l - 1]
        /\ \A l \in 1..Size(d) : Contents(d)[l] \in Elements
    BY ContentsOfSound
  <2> QED
    BY <1>1, <1>2, <2>1, Zenon
<1>6. /\ new \in Seq(Elements) /\ Len(new) = size
      /\ \A l \in 1..size : new[l] = r.cell[b + l - 1]
  <2>1. /\ Contents(r) \in Seq(Elements) /\ Len(Contents(r)) = Size(r)
        /\ \A l \in 1..Size(r) : Contents(r)[l] = r.cell[r.begin + l - 1]
    BY <1>3, ContentsOfSound
  <2> QED
    BY <1>1, <1>2, <2>1, Zenon
<1>7. /\ head \in Seq(Elements) /\ Len(head) = i /\ \A l \in 1..i : head[l] = old[l]
  <2>1. \A l \in 1..i : old[l] \in Elements
    BY <1>4, <1>5
  <2>2. /\ SubSeq(old, 1, i) \in Seq(Elements) /\ Len(SubSeq(old, 1, i)) = (IF 1 <= i THEN i - 1 + 1 ELSE 0)
        /\ \A l \in 1..(i - 1 + 1) : SubSeq(old, 1, i)[l] = old[1 + l - 1]
    BY <2>1, SubSeqProperties
  <2>3. /\ head \in Seq(Elements) /\ Len(head) = (IF 1 <= i THEN i - 1 + 1 ELSE 0)
        /\ \A l \in 1..(i - 1 + 1) : head[l] = old[1 + l - 1]
    BY <1>2, <2>2, Zenon
  <2> QED
    BY <2>3
<1>8. /\ tail \in Seq(Elements) /\ Len(tail) = n - j /\ \A l \in 1..(n - j) : tail[l] = old[j + l]
  <2>1. \A l \in (j + 1)..n : old[l] \in Elements
    BY <1>4, <1>5
  <2>2. PICK k : k = j + 1
    OBVIOUS
  <2>3. /\ SubSeq(old, k, n) \in Seq(Elements) /\ Len(SubSeq(old, k, n)) = (IF k <= n THEN n - k + 1 ELSE 0)
        /\ \A l \in 1..(n - k + 1) : SubSeq(old, k, n)[l] = old[k + l - 1]
    BY <1>4, <2>1, <2>2, SubSeqProperties
  <2>4. /\ tail \in Seq(Elements) /\ Len(tail) = (IF k <= n THEN n - k + 1 ELSE 0)
        /\ \A l \in 1..(n - k + 1) : tail[l] = old[k + l - 1]
    BY <1>1, <1>2, <2>2, <2>3, Zenon
  <2>5. n - k + 1 = n - j /\ (IF k <= n THEN n - k + 1 ELSE 0) = n - j
    BY <1>4, <2>2
  <2>6. ASSUME NEW l \in 1..(n - j)
        PROVE  tail[l] = old[j + l]
    <3>1. k + l - 1 = j + l
      BY <1>4, <2>2
    <3>2. tail[l] = old[k + l - 1]
      BY <2>4, <2>5, Zenon
    <3> QED
      BY <3>1, <3>2, Zenon
  <2> QED
    BY <2>4, <2>5, <2>6, Zenon
<1>9. run \in Seq(Elements) /\ Len(run) = m /\ \A l \in 1..m : run[l] = v
  BY <1>2, RunOfValues
<1>10. PICK front : front = head \o run
  OBVIOUS
<1>11. /\ front \in Seq(Elements) /\ Len(front) = i + m
       /\ \A l \in 1..(i + m) : front[l] = IF l <= i THEN head[l] ELSE run[l - i]
  BY <1>7, <1>9, <1>10, ConcatProperties
<1>12. PICK all : all = front \o tail
  OBVIOUS
<1>13. /\ all \in Seq(Elements) /\ Len(all) = i + m + (n - j)
       /\ \A l \in 1..(i + m + (n - j)) : all[l] = IF l <= i + m THEN front[l] ELSE tail[l - (i + m)]
  BY <1>8, <1>11, <1>12, ConcatProperties
<1>14. PICK low, high : low = FirstPlace(Slot(r.begin)) /\ high = LastPlace(Slot(r.end))
  OBVIOUS
<1>15. low \in Int /\ high \in Int /\ low <= b /\ en <= high
  BY <1>1, <1>4, <1>14, SlotBounds
<1>16. r.cell = [q \in low..high |-> After(d, r, i, m, v, q)]
  BY <1>14 DEF Effect
<1>17. ASSUME NEW l \in 1..size
       PROVE  new[l] = all[l]
  <2>1. PICK p : p = b + l - 1
    OBVIOUS
  <2>2. p \in Int /\ p \in b..(en - 1) /\ p \in low..high
    BY <1>4, <1>15, <2>1
  <2>3. new[l] = After(d, r, i, m, v, p)
    BY <1>6, <1>16, <2>1, <2>2
  <2>4. CASE l <= i
    <3>1. p < b + i /\ p - b + d.begin = d.begin + l - 1 /\ l \in 1..n /\ l \in 1..i /\ l <= i + m
          /\ l \in 1..(i + m) /\ l \in 1..(i + m + (n - j))
      BY <1>4, <2>1, <2>2, <2>4
    <3>2. new[l] = d.cell[p - b + d.begin]
      BY <1>1, <2>2, <2>3, <3>1, Zenon DEF After
    <3>3. old[l] = d.cell[d.begin + l - 1]
      BY <1>5, <3>1
    <3>4. all[l] = old[l]
      BY <1>7, <1>11, <1>13, <2>4, <3>1
    <3> QED
      BY <3>1, <3>2, <3>3, <3>4, Zenon
  <2>5. CASE i < l /\ l <= i + m
    <3>1. ~(p < b + i) /\ p < b + i + m /\ ~(l <= i) /\ l \in 1..(i + m) /\ l \in 1..(i + m + (n - j))
          /\ l - i \in 1..m
      BY <1>4, <2>1, <2>2, <2>5
    <3>2. new[l] = v
      BY <1>1, <2>2, <2>3, <3>1, Zenon DEF After
    <3>3. all[l] = run[l - i]
      BY <1>11, <1>13, <2>5, <3>1
    <3>4. run[l - i] = v
      BY <1>9, <3>1
    <3> QED
      BY <3>2, <3>3, <3>4
  <2>6. CASE i + m < l
    <3>1. ~(p < b + i) /\ ~(p < b + i + m) /\ ~(l <= i + m) /\ l \in 1..(i + m + (n - j))
      BY <1>4, <2>1, <2>2, <2>6
    <3>2. PICK k : k = l - (i + m)
      OBVIOUS
    <3>3. k \in 1..(n - j) /\ j + k \in 1..n /\ p - en + d.end = d.begin + (j + k) - 1
      BY <1>4, <2>1, <2>6, <3>2
    <3>4. new[l] = d.cell[p - en + d.end]
      BY <1>1, <2>2, <2>3, <3>1, Zenon DEF After
    <3>5. old[j + k] = d.cell[d.begin + (j + k) - 1]
      BY <1>5, <3>3
    <3>6. all[l] = tail[k]
      BY <1>13, <3>1, <3>2
    <3>7. tail[k] = old[j + k]
      BY <1>8, <3>3
    <3> QED
      BY <3>3, <3>4, <3>5, <3>6, <3>7, Zenon
  <2> QED
    BY <1>4, <2>4, <2>5, <2>6
<1>18. new = all
  <2>1. Len(new) = Len(all) /\ \A l \in 1..Len(new) : new[l] = all[l]
    BY <1>4, <1>6, <1>13, <1>17
  <2> QED
    BY <1>6, <1>13, <2>1, SeqEqual
<1> QED
  BY <1>2, <1>10, <1>12, <1>18, Zenon DEF Promised, Run

-----------------------------------------------------------------------------

\* A call keeps the deque sound and does what it promises.
Kept(d, c) == SoundDeque(c.result) /\ Promised(d, c.result, c.i, c.j, c.run)

\* A call with an effect is kept.
LEMMA EffectKept ==
  ASSUME DequeAssumption, NEW d, SoundDeque(d), NEW r, NEW i \in Nat, NEW j \in Nat, i <= j, j <= Size(d),
         NEW m \in Nat, NEW v, m # 0 => v \in Elements, Effect(d, r, i, j, m, v)
  PROVE  Kept(d, Call(r, i, j, Run(m, v)))
<1>1. PICK c, run : run = Run(m, v) /\ c = Call(r, i, j, Run(m, v))
  OBVIOUS
<1>2. c = [result |-> r, i |-> i, j |-> j, run |-> run]
  BY <1>1, Zenon DEF Call
<1>3. c.result = r /\ c.i = i /\ c.j = j /\ c.run = run
  BY <1>2
<1>4. SoundDeque(r)
  BY EffectSound
<1>5. Promised(d, r, i, j, Run(m, v))
  BY EffectContents
<1> QED
  BY <1>1, <1>3, <1>4, <1>5, Zenon DEF Kept

\* A run of no values.
LEMMA EmptyRun ==
  ASSUME NEW v, NEW k \in Int, k <= 0
  PROVE  Run(k, v) = <<>>
<1>1. PICK e : e = Run(k, v)
  OBVIOUS
<1>2. 1..k = 1..0
  OBVIOUS
<1>3. e = [l \in 1..0 |-> v]
  BY <1>1, <1>2, Zenon DEF Run
<1>4. e \in Seq(Elements) /\ Len(e) = 0
  <2>1. 0 \in Nat /\ (0 # 0 => v \in Elements)
    OBVIOUS
  <2> QED
    BY <1>3, <2>1, RunOfValues
<1>5. e = <<>>
  BY <1>4, EmptySeq
<1> QED
  BY <1>1, <1>5, Zenon

\* A call that adds no elements.
LEMMA RemovalKept ==
  ASSUME DequeAssumption, NEW d, SoundDeque(d), NEW r, NEW i \in Nat, NEW j \in Nat, i <= j, j <= Size(d),
         \A v : Effect(d, r, i, j, 0, v)
  PROVE  Kept(d, Call(r, i, j, <<>>))
<1>1. PICK v : v = Raw
  OBVIOUS
<1>2. Effect(d, r, i, j, 0, v)
  OBVIOUS
<1>3. Kept(d, Call(r, i, j, Run(0, v)))
  <2>1. 0 \in Nat /\ (0 # 0 => v \in Elements)
    OBVIOUS
  <2> QED
    BY <1>2, <2>1, EffectKept
<1>4. Run(0, v) = <<>>
  BY EmptyRun
<1> QED
  BY <1>3, <1>4, Zenon

\* An argument is a value, also when it denotes an element.
LEMMA ArgumentIsValue ==
  ASSUME DequeAssumption, NEW d, SoundDeque(d),
         NEW a \in Elements \cup {[element |-> i] : i \in 0..(Size(d) - 1)}
  PROVE  Argument(d, a) \in Elements
<1>1. CASE a \in Elements
  BY <1>1, Zenon DEF Argument
<1>2. CASE a \notin Elements
  <2>1. PICK i \in 0..(Size(d) - 1) : a = [element |-> i]
    BY <1>2
  <2>2. a.element = i
    BY <2>1
  <2>3. PICK p : p = d.begin + a.element
    OBVIOUS
  <2>4. p \in d.begin..(d.end - 1)
    <3>1. d.begin \in Int /\ d.end \in Int
      BY LayoutFacts DEF SoundDeque
    <3>2. Size(d) = d.end - d.begin
      BY DEF Size
    <3>3. p = d.begin + i
      BY <2>2, <2>3, Zenon
    <3>4. i \in Int /\ 0 <= i /\ i < d.end - d.begin
      BY <3>1, <3>2
    <3> QED
      BY <3>1, <3>3, <3>4
  <2>5. Argument(d, a) = d.cell[p]
    BY <1>2, <2>3, Zenon DEF Argument
  <2> QED
    BY <2>4, <2>5 DEF SoundDeque
<1> QED
  BY <1>1, <1>2

\* Every call is kept: the case distinction over the operations.
LEMMA CallsKept ==
  ASSUME DequeAssumption, NEW d, SoundDeque(d), NEW c \in Calls(d)
  PROVE  Kept(d, c)
<1>1. PICK n : n = Size(d)
  OBVIOUS
<1>2. n \in Nat /\ Layout(d)
  BY <1>1, ContentsOfSound DEF SoundDeque
<1>3. \A k, a : Copies(d, k, a) = Run(k, Argument(d, a))
  BY Zenon DEF Copies, Run
<1>4. \A a \in Arguments(d) : Argument(d, a) \in Elements
  BY ArgumentIsValue DEF Arguments
<1>5. \A v \in Elements : Argument(d, v) = v
  BY DEF Argument
<1>6. \/ \E a \in Arguments(d) : c = Call(EmplaceFront(d, Argument(d, a)), 0, 0, Copies(d, 1, a))
      \/ \E a \in Arguments(d) : c = Call(EmplaceBack(d, Argument(d, a)), n, n, Copies(d, 1, a))
      \/ 0 \in 0..(n - 1) /\ c = Call(PopFront(d), 0, 1, <<>>)
      \/ 0 \in 0..(n - 1) /\ c = Call(PopBack(d), n - 1, n, <<>>)
      \/ \E i \in 0..n, a \in Arguments(d) : c = Call(Emplace(d, i, a), i, i, Copies(d, 1, a))
      \/ \E i \in 0..n, k \in 0..(MaxSize - n), a \in Arguments(d) :
           c = Call(DoInsertValues(d, i, k, a), i, i, Copies(d, k, a))
      \/ \E i \in 0..(n - 1) : c = Call(ErasePosition(d, i), i, i + 1, <<>>)
      \/ \E r \in {s \in (0..n) \X (0..n) : s[1] <= s[2]} : c = Call(Erase(d, r[1], r[2]), r[1], r[2], <<>>)
      \/ \E k \in 0..MaxSize, a \in Arguments(d) :
           c = Call(Resize(d, k, a), IF k < n THEN k ELSE n, n, Copies(d, k - n, a))
      \/ \E k \in 0..MaxSize, v \in Elements : c = Call(DoAssignValues(d, k, v), 0, n, Copies(d, k, v))
      \/ c = Call(Clear(d), 0, n, <<>>) \/ c = Call(ShrinkToFit(d), 0, 0, <<>>) \/ c = Call(DoInit(0), 0, n, <<>>)
  <2>4. CASE c \in Insertions(d)
    <3>1. \/ \E a \in Arguments(d) : c = Call(EmplaceFront(d, Argument(d, a)), 0, 0, Copies(d, 1, a))
          \/ \E a \in Arguments(d) : c = Call(EmplaceBack(d, Argument(d, a)), Size(d), Size(d), Copies(d, 1, a))
          \/ \E i \in 0..Size(d), a \in Arguments(d) : c = Call(Emplace(d, i, a), i, i, Copies(d, 1, a))
          \/ \E i \in 0..Size(d), k \in 0..(MaxSize - Size(d)), a \in Arguments(d) :
               c = Call(DoInsertValues(d, i, k, a), i, i, Copies(d, k, a))
      BY <2>4 DEF Insertions
    <3> QED
      BY <1>1, <3>1, Zenon
  <2>5. CASE c \in Removals(d)
    BY <1>1, <2>5, Zenon DEF Removals
  <2>6. CASE c \in Replacements(d)
    <3>1. \/ \E k \in 0..MaxSize, a \in Arguments(d) :
               c = Call(Resize(d, k, a), IF k < Size(d) THEN k ELSE Size(d), Size(d), Copies(d, k - Size(d), a))
          \/ \E k \in 0..MaxSize, v \in Elements : c = Call(DoAssignValues(d, k, v), 0, Size(d), Copies(d, k, v))
          \/ c = Call(ShrinkToFit(d), 0, 0, <<>>) \/ c = Call(DoInit(0), 0, Size(d), <<>>)
      BY <2>6 DEF Replacements
    <3> QED
      BY <1>1, <3>1, Zenon
  <2> QED
    BY <2>4, <2>5, <2>6 DEF Calls
<1>7. ASSUME NEW a \in Arguments(d), c = Call(EmplaceFront(d, Argument(d, a)), 0, 0, Copies(d, 1, a))
      PROVE  Kept(d, c)
  <2>1. PICK v : v = Argument(d, a)
    OBVIOUS
  <2>2. Effect(d, EmplaceFront(d, v), 0, 0, 1, v)
    BY <1>2, EmplaceFrontEffect
  <2>3. 0 <= Size(d) /\ (1 # 0 => v \in Elements)
    BY <1>1, <1>2, <1>4, <2>1
  <2>4. Kept(d, Call(EmplaceFront(d, v), 0, 0, Run(1, v)))
    BY <2>2, <2>3, EffectKept
  <2> QED
    BY <1>3, <1>7, <2>1, <2>4, Zenon
<1>8. ASSUME NEW a \in Arguments(d), c = Call(EmplaceBack(d, Argument(d, a)), n, n, Copies(d, 1, a))
      PROVE  Kept(d, c)
  <2>1. PICK v : v = Argument(d, a)
    OBVIOUS
  <2>2. Effect(d, EmplaceBack(d, v), n, n, 1, v)
    BY <1>1, <1>2, EmplaceBackEffect
  <2>3. n <= n /\ n <= Size(d) /\ (1 # 0 => v \in Elements)
    BY <1>1, <1>2, <1>4, <2>1
  <2>4. Kept(d, Call(EmplaceBack(d, v), n, n, Run(1, v)))
    BY <1>2, <2>2, <2>3, EffectKept
  <2> QED
    BY <1>3, <1>8, <2>1, <2>4, Zenon
<1>9. ASSUME 0 \in 0..(n - 1), c = Call(PopFront(d), 0, 1, <<>>)
      PROVE  Kept(d, c)
  <2>1. 1 <= Size(d)
    BY <1>1, <1>2, <1>9
  <2>2. \A v : Effect(d, PopFront(d), 0, 1, 0, v)
    BY <1>2, <2>1, PopFrontEffect
  <2>3. Kept(d, Call(PopFront(d), 0, 1, <<>>))
    BY <2>1, <2>2, RemovalKept
  <2> QED
    BY <1>9, <2>3, Zenon
<1>10. ASSUME 0 \in 0..(n - 1), c = Call(PopBack(d), n - 1, n, <<>>)
       PROVE  Kept(d, c)
  <2>1. PICK m : m = n - 1
    OBVIOUS
  <2>2. m \in Nat /\ m <= n
    BY <1>2, <1>10, <2>1
  <2>3. 1 <= Size(d) /\ n <= Size(d)
    BY <1>1, <1>2, <1>10
  <2>4. ASSUME NEW v
        PROVE  Effect(d, PopBack(d), m, n, 0, v)
    <3>1. Effect(d, PopBack(d), Size(d) - 1, Size(d), 0, v)
      BY <1>2, <2>3, PopBackEffect
    <3> QED
      BY <1>1, <2>1, <3>1, Zenon
  <2>5. Kept(d, Call(PopBack(d), m, n, <<>>))
    BY <1>2, <2>2, <2>3, <2>4, RemovalKept
  <2> QED
    BY <1>10, <2>1, <2>5, Zenon
<1>11. ASSUME NEW i \in 0..n, NEW a \in Arguments(d), c = Call(Emplace(d, i, a), i, i, Copies(d, 1, a))
       PROVE  Kept(d, c)
  <2>1. PICK v : v = Argument(d, a)
    OBVIOUS
  <2>2. i \in Nat /\ i <= i /\ i <= Size(d)
    BY <1>1, <1>2
  <2>3. Effect(d, Emplace(d, i, a), i, i, 1, v)
    BY <1>2, <2>1, <2>2, EmplaceEffect
  <2>4. 1 # 0 => v \in Elements
    BY <1>4, <2>1
  <2>5. Kept(d, Call(Emplace(d, i, a), i, i, Run(1, v)))
    BY <2>2, <2>3, <2>4, EffectKept
  <2> QED
    BY <1>3, <1>11, <2>1, <2>5, Zenon
<1>12. ASSUME NEW i \in 0..n, NEW k \in 0..(MaxSize - n), NEW a \in Arguments(d),
              c = Call(DoInsertValues(d, i, k, a), i, i, Copies(d, k, a))
       PROVE  Kept(d, c)
  <2>1. PICK v : v = Argument(d, a)
    OBVIOUS
  <2>2. i \in Nat /\ i <= i /\ i <= Size(d) /\ k \in Nat
    BY <1>1, <1>2
  <2>3. Effect(d, DoInsertValues(d, i, k, a), i, i, k, v)
    BY <1>2, <2>1, <2>2, DoInsertValuesEffect
  <2>4. k # 0 => v \in Elements
    BY <1>4, <2>1
  <2>5. Kept(d, Call(DoInsertValues(d, i, k, a), i, i, Run(k, v)))
    BY <2>2, <2>3, <2>4, EffectKept
  <2> QED
    BY <1>3, <1>12, <2>1, <2>5, Zenon
<1>13. ASSUME NEW i \in 0..(n - 1), c = Call(ErasePosition(d, i), i, i + 1, <<>>)
       PROVE  Kept(d, c)
  <2>1. PICK j : j = i + 1
    OBVIOUS
  <2>2. i \in Nat /\ j \in Nat /\ i <= j /\ j <= Size(d) /\ i < Size(d)
    BY <1>1, <1>2, <2>1
  <2>3. ASSUME NEW v
        PROVE  Effect(d, ErasePosition(d, i), i, j, 0, v)
    BY <1>2, <2>1, <2>2, ErasePositionEffect
  <2>4. Kept(d, Call(ErasePosition(d, i), i, j, <<>>))
    BY <2>2, <2>3, RemovalKept
  <2> QED
    BY <1>13, <2>1, <2>4, Zenon
<1>14. ASSUME NEW r \in {s \in (0..n) \X (0..n) : s[1] <= s[2]}, c = Call(Erase(d, r[1], r[2]), r[1], r[2], <<>>)
       PROVE  Kept(d, c)
  <2>1. PICK i, j : i = r[1] /\ j = r[2]
    OBVIOUS
  <2>2. i \in Nat /\ j \in Nat /\ i <= j /\ j <= n
    BY <1>2, <2>1
  <2>3. j <= Size(d)
    BY <1>1, <2>2
  <2>4. \A v : Effect(d, Erase(d, i, j), i, j, 0, v)
    BY <1>2, <2>2, <2>3, EraseEffect
  <2>5. Kept(d, Call(Erase(d, i, j), i, j, <<>>))
    BY <2>2, <2>3, <2>4, RemovalKept
  <2> QED
    BY <1>14, <2>1, <2>5, Zenon
<1>15. ASSUME NEW k \in 0..MaxSize, NEW a \in Arguments(d),
              c = Call(Resize(d, k, a), IF k < n THEN k ELSE n, n, Copies(d, k - n, a))
       PROVE  Kept(d, c)
  <2>1. PICK v, i, m, r : /\ v = Argument(d, a) /\ i = (IF k < n THEN k ELSE n)
                          /\ m = (IF k < n THEN 0 ELSE k - n) /\ r = Resize(d, k, a)
    OBVIOUS
  <2>2. k \in Nat
    OBVIOUS
  <2>3. i \in Nat /\ m \in Nat /\ i <= n
    BY <1>2, <2>1, <2>2
  <2>4. n <= Size(d)
    BY <1>1, <1>2
  <2>5. Effect(d, r, i, n, m, v)
    <3>1. Effect(d, Resize(d, k, a), IF k < Size(d) THEN k ELSE Size(d), Size(d),
                 IF k < Size(d) THEN 0 ELSE k - Size(d), Argument(d, a))
      BY <1>2, <2>2, ResizeEffect
    <3> QED
      BY <1>1, <2>1, <3>1, Zenon
  <2>6. m # 0 => v \in Elements
    BY <1>4, <2>1
  <2>7. Kept(d, Call(r, i, n, Run(m, v)))
    BY <1>2, <2>3, <2>4, <2>5, <2>6, EffectKept
  <2>8. Run(k - n, v) = Run(m, v)
    <3>1. CASE k < n
      <4>1. PICK less : less = k - n
        OBVIOUS
      <4>2. less \in Int /\ less <= 0 /\ 0 \in Int /\ 0 <= 0
        BY <1>2, <2>2, <3>1, <4>1
      <4>3. Run(less, v) = <<>> /\ Run(0, v) = <<>>
        BY <4>2, EmptyRun
      <4> QED
        BY <2>1, <3>1, <4>1, <4>3, Zenon
    <3>2. CASE ~(k < n)
      BY <2>1, <3>2, Zenon
    <3> QED
      BY <3>1, <3>2
  <2> QED
    BY <1>3, <1>15, <2>1, <2>7, <2>8, Zenon
<1>16. ASSUME NEW k \in 0..MaxSize, NEW v \in Elements,
              c = Call(DoAssignValues(d, k, v), 0, n, Copies(d, k, v))
       PROVE  Kept(d, c)
  <2>1. k \in Nat /\ 0 <= n /\ (k # 0 => v \in Elements)
    BY <1>2
  <2>2. n <= Size(d)
    BY <1>1, <1>2
  <2>3. Effect(d, DoAssignValues(d, k, v), 0, n, k, v)
    BY <1>1, <1>2, <2>1, DoAssignValuesEffect
  <2>4. Kept(d, Call(DoAssignValues(d, k, v), 0, n, Run(k, v)))
    BY <1>2, <2>1, <2>2, <2>3, EffectKept
  <2> QED
    BY <1>3, <1>5, <1>16, <2>4, Zenon
<1>17. ASSUME c = Call(Clear(d), 0, n, <<>>)
       PROVE  Kept(d, c)
  <2>1. 0 <= n /\ n <= Size(d)
    BY <1>1, <1>2
  <2>2. \A v : Effect(d, Clear(d), 0, n, 0, v)
    BY <1>1, <1>2, ClearEffect
  <2>3. Kept(d, Call(Clear(d), 0, n, <<>>))
    BY <1>2, <2>1, <2>2, RemovalKept
  <2> QED
    BY <1>17, <2>3, Zenon
<1>18. ASSUME c = Call(ShrinkToFit(d), 0, 0, <<>>)
       PROVE  Kept(d, c)
  <2>1. 0 <= Size(d)
    BY <1>1, <1>2
  <2>2. \A v : Effect(d, ShrinkToFit(d), 0, 0, 0, v)
    BY <1>2, ShrinkToFitEffect
  <2>3. Kept(d, Call(ShrinkToFit(d), 0, 0, <<>>))
    BY <2>1, <2>2, RemovalKept
  <2> QED
    BY <1>18, <2>3, Zenon
<1>19. ASSUME c = Call(DoInit(0), 0, n, <<>>)
       PROVE  Kept(d, c)
  <2>1. 0 <= n /\ n <= Size(d)
    BY <1>1, <1>2
  <2>2. \A v : Effect(d, DoInit(0), 0, n, 0, v)
    BY <1>1, <1>2, DoInitEffect
  <2>3. Kept(d, Call(DoInit(0), 0, n, <<>>))
    BY <1>2, <2>1, <2>2, RemovalKept
  <2> QED
    BY <1>19, <2>3, Zenon
<1> QED
  BY <1>6, <1>7, <1>8, <1>9, <1>10, <1>11, <1>12, <1>13, <1>14, <1>15, <1>16, <1>17, <1>18, <1>19, Zenon

-----------------------------------------------------------------------------

\* Soundness, in the words of the property.
LEMMA SoundIsExact ==
  ASSUME DequeAssumption, SoundDeque(deque)
  PROVE  StorageExact
<1>1. PICK d, lo, hi : d = deque /\ lo = FirstPlace(Slot(deque.begin)) /\ hi = LastPlace(Slot(deque.end))
  OBVIOUS
<1>2. Layout(d) /\ \A p \in d.begin..(d.end - 1) : d.cell[p] \in Elements
  BY <1>1, Zenon DEF SoundDeque
<1>3. DOMAIN d.cell = lo..hi
  BY <1>1, <1>2, LayoutFacts
<1>4. 0 <= Slot(d.begin) /\ Slot(d.end) < d.size
  BY <1>2 DEF Layout
<1>5. Slot(d.begin) \in Int /\ Slot(d.end) \in Int
  BY <1>2, LayoutFacts
<1>6. PlacesOf(Slot(d.begin)..Slot(d.end)) = lo..hi
  BY <1>1, <1>5, PlacesOfSlots
<1>7. \A p \in DOMAIN d.cell : p \notin d.begin..(d.end - 1) => d.cell[p] = Raw
  BY <1>2 DEF Layout
<1>8. \A p \in DOMAIN d.cell : d.cell[p] \in IF p \in d.begin..(d.end - 1) THEN Elements ELSE {Raw}
  BY <1>2, <1>7, Zenon
<1>9. 0 <= Slot(d.begin) <=> Slot(d.begin) >= 0
  BY <1>5
<1>10. DOMAIN d.cell = PlacesOf(Slot(d.begin)..Slot(d.end))
  BY <1>3, <1>6, Zenon
<1> QED
  BY <1>1, <1>4, <1>8, <1>9, <1>10, Zenon DEF StorageExact

\* A new deque is sound.
LEMMA InitSound ==
  ASSUME DequeAssumption
  PROVE  SoundDeque(DoInit(0))
<1>1. PICK x : x = DoInit(0)
  OBVIOUS
<1>2. FreshCells(x, 0)
  BY <1>1, DoInitFresh
<1>3. PICK lo, hi : lo = FirstPlace(Slot(x.begin)) /\ hi = LastPlace(Slot(x.end))
  OBVIOUS
<1>4. /\ Fields(x) /\ x.size \in Int /\ x.begin \in Int /\ x.end \in Int /\ x.end = x.begin
      /\ 0 <= Slot(x.begin) /\ Slot(x.end) < x.size
  BY <1>2 DEF FreshCells
<1>5. x.cell = [p \in lo..hi |-> Raw]
  BY <1>2, <1>3 DEF FreshCells
<1>6. x.cell = [p \in lo..hi |-> x.cell[p]] /\ \A p \in DOMAIN x.cell : x.cell[p] = Raw
  BY <1>5
<1>7. x.begin <= x.end /\ \A p : p \notin x.begin..(x.end - 1)
  BY <1>4
<1>8. Layout(x)
  BY <1>3, <1>4, <1>6, <1>7 DEF Layout
<1>9. SoundDeque(x)
  BY <1>7, <1>8, Zenon DEF SoundDeque
<1> QED
  BY <1>1, <1>9, Zenon

\* Soundness is inductive: every call of the specification keeps it.
LEMMA DequeStaysSound ==
  ASSUME DequeAssumption
  PROVE  DequeSpec => []SoundDeque(deque)
<1>1. DequeInit => SoundDeque(deque)
  BY InitSound, Zenon DEF DequeInit
<1>2. ASSUME SoundDeque(deque), [DequeNext]_dequeVars
      PROVE  SoundDeque(deque)'
  <2>1. CASE DequeNext
    <3>1. PICK c \in Calls(deque) : deque' = c.result
      BY <2>1 DEF DequeNext
    <3>2. Kept(deque, c)
      BY <1>2, CallsKept
    <3> QED
      BY <3>1, <3>2, Zenon DEF Kept
  <2>2. CASE dequeVars' = dequeVars
    BY <1>2, <2>2, Zenon DEF dequeVars
  <2> QED
    BY <1>2, <2>1, <2>2
<1> QED
  BY <1>1, <1>2, PTL DEF DequeSpec

\* The subarrays of a deque are exactly those from begin to end, its objects
\* exactly those between them, after any calls, for every size of a subarray, of
\* the array of pointers and of the deque.
THEOREM StorageStaysExact == DequeSpec => []StorageExact
<1>1. SoundDeque(deque) => StorageExact
  BY SoundIsExact, SizesAsInstantiated
<1> QED
  BY <1>1, SizesAsInstantiated, DequeStaysSound, PTL

\* Every call made in any state that calls can reach puts the elements it
\* promises in the place of those it names, and keeps the others in order: the
\* value it is given may be an element that it moves.
THEOREM EveryCallDoesAsPromised == DequeSpec => []CallsDoAsPromised
<1>1. ASSUME SoundDeque(deque)
      PROVE  CallsDoAsPromised
  <2>1. ASSUME NEW c \in Calls(deque)
        PROVE  Promised(deque, c.result, c.i, c.j, c.run)
    BY <1>1, <2>1, CallsKept, SizesAsInstantiated DEF Kept
  <2> QED
    BY <2>1, Zenon DEF CallsDoAsPromised, Promised
<1> QED
  BY <1>1, SizesAsInstantiated, DequeStaysSound, PTL

-----------------------------------------------------------------------------
(* Hashtable.                                                               *)

\* Min is the least number of a set that has any.
LEMMA MinIsLeast ==
  ASSUME NEW T, T \subseteq Nat, T # {}
  PROVE  Min(T) \in T /\ \A y \in T : Min(T) <= y
<1> DEFINE R == {ss \in Nat \X Nat : ss[1] < ss[2]}
<1>1. \E x \in T : \A y \in T : ~(<<y, x>> \in R)
  <2>1. IsWellFoundedOn(R, Nat) BY NatLessThanWellFounded DEF OpToRel
  <2> HIDE DEF R
  <2> QED BY <2>1, WFMin, Zenon
<1>2. PICK x \in T : \A y \in T : ~(<<y, x>> \in R) BY <1>1
<1>3. ASSUME NEW y \in T, y < x PROVE FALSE
  <2>1. <<y, x>> \in R BY <1>3
  <2> QED BY <1>2, <2>1
<1>4. \A y \in T : x <= y
  <2>1. x \in Nat /\ \A y \in T : y \in Nat OBVIOUS
  <2> QED BY <1>3, <2>1
<1> HIDE DEF R
<1> QED BY <1>4 DEF Min

-----------------------------------------------------------------------------
\* Lists of items.

\* No item twice, and equal items next to each other.
Tidy(b) ==
  /\ b \in Seq(Items)
  /\ \A i, j \in 1..Len(b) : i < j => b[i] # b[j]
  /\ \A i, j, k \in 1..Len(b) : i < j /\ j < k /\ SameKey(b[i], b[k]) => SameKey(b[i], b[j])

\* The items of r are some of s, in their order or in the reverse of it.
Picks(r, s, f) ==
  /\ \A p \in 1..Len(r) : f[p] \in 1..Len(s) /\ r[p] = s[f[p]]
  /\ \/ \A p, q \in 1..Len(r) : p < q => f[p] < f[q]
     \/ \A p, q \in 1..Len(r) : p < q => f[q] < f[p]

\* SameKey is an equivalence: equal keys, hashtable.h compares by mpEqual.
LEMMA SameKeyIsEquality ==
  /\ \A m : SameKey(m, m)
  /\ \A m, n : SameKey(m, n) => SameKey(n, m)
  /\ \A l, m, n : SameKey(l, m) /\ SameKey(m, n) => SameKey(l, n)
  BY DEF SameKey

\* A list made of some cells of a tidy list, in either order, is tidy: the rehash
\* turns the order of a run of equal items around, but keeps the run together.
LEMMA PickedTidy ==
  ASSUME NEW r \in Seq(Items), NEW s, NEW f, Tidy(s), Picks(r, s, f)
  PROVE  Tidy(r)
<1>1. Len(r) \in Nat /\ Len(s) \in Nat /\ s \in Seq(Items)
  BY DEF Tidy
<1>2. \A p \in 1..Len(r) : f[p] \in 1..Len(s) /\ r[p] = s[f[p]]
  BY DEF Picks
<1>3. \A i, j \in 1..Len(s) : i < j => s[i] # s[j]
  BY DEF Tidy
<1>4. \A i, j, k \in 1..Len(s) : i < j /\ j < k /\ SameKey(s[i], s[k]) => SameKey(s[i], s[j])
  BY DEF Tidy
<1>5. CASE \A p, q \in 1..Len(r) : p < q => f[p] < f[q]
  <2>1. \A i, j \in 1..Len(r) : i < j => r[i] # r[j]
    BY <1>1, <1>2, <1>3, <1>5
  <2>2. ASSUME NEW i \in 1..Len(r), NEW j \in 1..Len(r), NEW k \in 1..Len(r), i < j, j < k, SameKey(r[i], r[k])
        PROVE SameKey(r[i], r[j])
    <3>1. f[i] < f[j] /\ f[j] < f[k]
      BY <1>5, <2>2
    <3> QED
      BY <1>2, <1>4, <2>2, <3>1
  <2> QED
    BY <2>1, <2>2 DEF Tidy
<1>6. CASE \A p, q \in 1..Len(r) : p < q => f[q] < f[p]
  <2>1. ASSUME NEW i \in 1..Len(r), NEW j \in 1..Len(r), i < j PROVE r[i] # r[j]
    <3>1. f[j] < f[i]
      BY <1>6, <2>1
    <3> QED
      BY <1>2, <1>3, <3>1
  <2>2. ASSUME NEW i \in 1..Len(r), NEW j \in 1..Len(r), NEW k \in 1..Len(r), i < j, j < k, SameKey(r[i], r[k])
        PROVE SameKey(r[i], r[j])
    <3>1. f[j] < f[i] /\ f[k] < f[j]
      BY <1>6, <2>2
    <3>2. SameKey(s[f[k]], s[f[j]])
      BY <1>2, <1>4, <2>2, <3>1, SameKeyIsEquality
    <3> QED
      BY <1>2, <2>2, <3>2, SameKeyIsEquality
  <2> QED
    BY <2>1, <2>2 DEF Tidy
<1> QED
  BY <1>5, <1>6 DEF Picks

\* The places of two lists in the list they make.
Joins(c, a, b) ==
  /\ c \in Seq(Items) /\ Len(a) \in Nat /\ Len(b) \in Nat /\ Len(c) = Len(a) + Len(b)
  /\ \A i \in 1..Len(a) : c[i] = a[i]
  /\ \A i \in 1..Len(b) : c[Len(a) + i] = b[i]

\* The cells of a \o b.
LEMMA Joined ==
  ASSUME NEW a, NEW b, a \in Seq(Items), b \in Seq(Items)
  PROVE  Joins(a \o b, a, b)
<1>0. PICK c : c = a \o b
  OBVIOUS
<1>1. Len(a) \in Nat /\ Len(b) \in Nat
  BY LenProperties
<1>2. /\ c \in Seq(Items) /\ Len(c) = Len(a) + Len(b)
      /\ \A i \in 1..(Len(a) + Len(b)) : c[i] = IF i <= Len(a) THEN a[i] ELSE b[i - Len(a)]
  BY <1>0, ConcatProperties
<1>3. ASSUME NEW i \in 1..Len(a) PROVE c[i] = a[i]
  <2>1. i \in 1..(Len(a) + Len(b)) /\ i <= Len(a)
    BY <1>1
  <2> QED
    BY <1>2, <2>1, Zenon
<1>4. ASSUME NEW i \in 1..Len(b) PROVE c[Len(a) + i] = b[i]
  <2>1. Len(a) + i \in 1..(Len(a) + Len(b)) /\ ~(Len(a) + i <= Len(a)) /\ (Len(a) + i) - Len(a) = i
    BY <1>1
  <2> QED
    BY <1>2, <2>1, Zenon
<1>5. Joins(c, a, b)
  BY <1>1, <1>2, <1>3, <1>4 DEF Joins
<1> QED
  BY <1>0, <1>5, Zenon

\* A part of a list.
IsPart(c, b, m, n) ==
  c \in Seq(Items) /\ Len(c) = n - m + 1 /\ \A k \in 1..(n - m + 1) : c[k] = b[m + k - 1]

\* The cells of SubSeq(b, m, n).
LEMMA Part ==
  ASSUME NEW b, NEW m, NEW n, b \in Seq(Items), m \in 1..(Len(b) + 1), n \in (m - 1)..Len(b)
  PROVE  IsPart(SubSeq(b, m, n), b, m, n)
<1>0. PICK c : c = SubSeq(b, m, n)
  OBVIOUS
<1>1. m \in Int /\ n \in Int /\ Len(b) \in Nat /\ \A i \in m..n : b[i] \in Items
  OBVIOUS
<1>2. /\ c \in Seq(Items) /\ Len(c) = IF m <= n THEN n - m + 1 ELSE 0
      /\ \A k \in 1..(n - m + 1) : c[k] = b[m + k - 1]
  BY <1>0, <1>1, SubSeqProperties
<1>3. ~(m <= n) => n - m + 1 = 0
  BY <1>1
<1>4. IsPart(c, b, m, n)
  BY <1>2, <1>3, Zenon DEF IsPart
<1> QED
  BY <1>0, <1>4, Zenon

\* Lists without common keys, one behind the other.
LEMMA JoinedTidy ==
  ASSUME NEW a, NEW b, Tidy(a), Tidy(b),
         \A i \in 1..Len(a), j \in 1..Len(b) : ~SameKey(a[i], b[j])
  PROVE  Tidy(a \o b)
<1> DEFINE c == a \o b
<1>1. /\ Len(a) \in Nat /\ Len(b) \in Nat /\ c \in Seq(Items) /\ Len(c) = Len(a) + Len(b)
      /\ \A i \in 1..Len(c) : c[i] = IF i <= Len(a) THEN a[i] ELSE b[i - Len(a)]
  BY ConcatProperties DEF Tidy
<1> HIDE DEF c
<1>2. \A i \in 1..Len(c) : IF i <= Len(a) THEN i \in 1..Len(a) ELSE i - Len(a) \in 1..Len(b)
  BY <1>1
<1>3. ASSUME NEW i \in 1..Len(c), NEW j \in 1..Len(c), i < j PROVE c[i] # c[j]
  <2>1. CASE i <= Len(a) /\ j <= Len(a)
    BY <1>1, <1>2, <1>3, <2>1 DEF Tidy
  <2>2. CASE i <= Len(a) /\ ~(j <= Len(a))
    BY <1>1, <1>2, <1>3, <2>2, SameKeyIsEquality
  <2>3. CASE ~(i <= Len(a))
    <3>1. i - Len(a) < j - Len(a) /\ ~(j <= Len(a))
      BY <1>1, <1>3, <2>3
    <3> QED
      BY <1>1, <1>2, <2>3, <3>1, ZenonT(30) DEF Tidy
  <2> QED
    BY <1>1, <2>1, <2>2, <2>3
<1>4. ASSUME NEW i \in 1..Len(c), NEW j \in 1..Len(c), NEW k \in 1..Len(c), i < j, j < k, SameKey(c[i], c[k])
      PROVE  SameKey(c[i], c[j])
  <2>1. CASE i <= Len(a)
    <3>1. k <= Len(a)
      BY <1>1, <1>2, <1>4, <2>1
    <3>2. j <= Len(a)
      BY <1>1, <1>4, <3>1
    <3> QED
      BY <1>1, <1>2, <1>4, <2>1, <3>1, <3>2 DEF Tidy
  <2>2. CASE ~(i <= Len(a))
    <3>1. i - Len(a) < j - Len(a) /\ j - Len(a) < k - Len(a) /\ ~(j <= Len(a)) /\ ~(k <= Len(a))
      BY <1>1, <1>4, <2>2
    <3> QED
      BY <1>1, <1>2, <1>4, <2>2, <3>1 DEF Tidy
  <2> QED
    BY <1>1, <2>1, <2>2
<1> QED
  BY <1>1, <1>3, <1>4 DEF Tidy, c

\* The list with an item more, behind one of the same key, or in front when it
\* has none of that key.
LEMMA InsertedTidy ==
  ASSUME NEW b, Tidy(b), NEW n \in Items, NEW p \in 0..Len(b),
         \A i \in 1..Len(b) : b[i] # n,
         IF p = 0 THEN \A i \in 1..Len(b) : ~SameKey(b[i], n) ELSE SameKey(b[p], n)
  PROVE  /\ Tidy(InsertAt(b, p + 1, n)) /\ Len(InsertAt(b, p + 1, n)) = Len(b) + 1
         /\ \A m : Contains(InsertAt(b, p + 1, n), m) <=> Contains(b, m) \/ m = n
<1>0. PICK c, f, front, back :
         /\ c = InsertAt(b, p + 1, n) /\ front = SubSeq(b, 1, p) /\ back = SubSeq(b, p + 1, Len(b))
         /\ f = [i \in 1..(Len(b) + 1) |-> IF i <= p THEN i ELSE i - 1]
  OBVIOUS
<1>1. b \in Seq(Items) /\ Len(b) \in Nat /\ p \in Int /\ 0 <= p /\ p <= Len(b) /\ \A i \in 1..Len(b) : b[i] \in Items
  BY DEF Tidy
<1>2. /\ c \in Seq(Items) /\ Len(c) = Len(b) + 1
      /\ \A i \in 1..Len(c) : c[i] = IF i = p + 1 THEN n ELSE b[f[i]]
      /\ \A i \in 1..Len(c) : i # p + 1 => f[i] \in 1..Len(b)
      /\ \A i \in 1..Len(c) : f[i] = IF i <= p THEN i ELSE i - 1
  <2>1. /\ front \in Seq(Items) /\ Len(front) = p /\ \A i \in 1..p : front[i] = b[i]
        /\ back \in Seq(Items) /\ Len(back) = Len(b) - p /\ \A i \in 1..(Len(b) - p) : back[i] = b[p + i]
    <3>1. /\ 1 \in 1..(Len(b) + 1) /\ p \in (1 - 1)..Len(b) /\ p - 1 + 1 = p /\ \A i \in 1..p : 1 + i - 1 = i
          /\ p + 1 \in 1..(Len(b) + 1) /\ Len(b) \in ((p + 1) - 1)..Len(b) /\ Len(b) - (p + 1) + 1 = Len(b) - p
          /\ \A i \in 1..(Len(b) - p) : (p + 1) + i - 1 = p + i
      BY <1>1
    <3>2. front \in Seq(Items) /\ Len(front) = p - 1 + 1 /\ \A i \in 1..(p - 1 + 1) : front[i] = b[1 + i - 1]
      <4>1. IsPart(front, b, 1, p)
        BY <1>0, <1>1, <3>1, Part, Zenon
      <4> QED
        BY <4>1, Zenon DEF IsPart
    <3>3. /\ back \in Seq(Items) /\ Len(back) = Len(b) - (p + 1) + 1
          /\ \A i \in 1..(Len(b) - (p + 1) + 1) : back[i] = b[(p + 1) + i - 1]
      <4>1. IsPart(back, b, p + 1, Len(b))
        BY <1>0, <1>1, <3>1, Part, Zenon
      <4> QED
        BY <4>1, Zenon DEF IsPart
    <3> QED
      BY <3>1, <3>2, <3>3
  <2>2. c = (front \o <<n>>) \o back
    <3>1. (p + 1) - 1 = p
      BY <1>1
    <3> QED
      BY <1>0, <3>1, Zenon DEF InsertAt
  <2>3. PICK half : half = front \o <<n>>
    OBVIOUS
  <2>4. <<n>> \in Seq(Items) /\ Len(<<n>>) = 1 /\ <<n>>[1] = n
    OBVIOUS
  <2>5. half \in Seq(Items) /\ Len(half) = p + 1 /\ (\A i \in 1..p : half[i] = b[i]) /\ half[p + 1] = n
    <3>1. /\ half \in Seq(Items) /\ Len(half) = Len(front) + Len(<<n>>)
          /\ \A i \in 1..Len(front) : half[i] = front[i]
          /\ \A i \in 1..Len(<<n>>) : half[Len(front) + i] = <<n>>[i]
      <4>1. Joins(half, front, <<n>>)
        BY <2>1, <2>3, <2>4, Joined, Zenon
      <4> QED
        BY <4>1, Zenon DEF Joins
    <3>2. 1 \in 1..1
      OBVIOUS
    <3> QED
      BY <2>1, <2>4, <3>1, <3>2, Zenon
  <2>6. /\ c \in Seq(Items) /\ Len(c) = (p + 1) + (Len(b) - p)
        /\ \A i \in 1..(p + 1) : c[i] = half[i]
        /\ \A i \in 1..(Len(b) - p) : c[(p + 1) + i] = back[i]
    <3>1. /\ c \in Seq(Items) /\ Len(c) = Len(half) + Len(back)
          /\ \A i \in 1..Len(half) : c[i] = half[i]
          /\ \A i \in 1..Len(back) : c[Len(half) + i] = back[i]
      <4>1. c = half \o back
        BY <2>2, <2>3, Zenon
      <4>2. Joins(c, half, back)
        BY <2>1, <2>5, <4>1, Joined, Zenon
      <4> QED
        BY <4>2, Zenon DEF Joins
    <3> QED
      BY <2>1, <2>5, <3>1, Zenon
  <2>7. Len(c) = Len(b) + 1
    BY <1>1, <2>6
  <2>8. ASSUME NEW i \in 1..Len(c)
        PROVE  /\ c[i] = IF i = p + 1 THEN n ELSE b[f[i]]
               /\ i # p + 1 => f[i] \in 1..Len(b)
               /\ f[i] = IF i <= p THEN i ELSE i - 1
    <3>1. f[i] = IF i <= p THEN i ELSE i - 1
      BY <1>0, <2>7
    <3>2. i \in Int /\ 1 <= i /\ i <= Len(b) + 1
      BY <2>7, <1>1
    <3>3. CASE i <= p
      <4>1. i \in 1..(p + 1) /\ i \in 1..p /\ i # p + 1 /\ i \in 1..Len(b)
        BY <1>1, <3>2, <3>3
      <4> QED
        BY <2>5, <2>6, <3>1, <3>3, <4>1, Zenon
    <3>4. CASE i = p + 1
      <4>1. i \in 1..(p + 1)
        BY <1>1, <3>2, <3>4
      <4> QED
        BY <2>5, <2>6, <3>1, <3>4, <4>1, Zenon
    <3>5. CASE i > p + 1
      <4>1. /\ i - (p + 1) \in 1..(Len(b) - p) /\ p + (i - (p + 1)) = i - 1 /\ (p + 1) + (i - (p + 1)) = i
            /\ ~(i <= p) /\ i # p + 1 /\ i - 1 \in 1..Len(b)
        BY <1>1, <3>2, <3>5
      <4>2. c[i] = back[i - (p + 1)]
        BY <2>6, <4>1, Zenon
      <4>3. back[i - (p + 1)] = b[i - 1]
        BY <2>1, <4>1, Zenon
      <4> QED
        BY <3>1, <4>1, <4>2, <4>3, Zenon
    <3> QED
      <4>1. i <= p \/ i = p + 1 \/ i > p + 1
        BY <1>1, <3>2
      <4> QED
        BY <3>3, <3>4, <3>5, <4>1, Zenon
  <2> QED
    BY <2>6, <2>7, <2>8
<1>3. /\ \A i, j \in 1..Len(c) : i < j /\ i # p + 1 /\ j # p + 1 => f[i] < f[j]
      /\ \A i \in 1..Len(c) : i < p + 1 => f[i] <= p
      /\ \A i \in 1..Len(c) : i > p + 1 => f[i] >= p + 1
      /\ \A i \in 1..Len(b) : \E j \in 1..Len(c) : j # p + 1 /\ f[j] = i
  <2>1. \A i \in 1..Len(c) : f[i] = IF i <= p THEN i ELSE i - 1
    BY <1>2
  <2>2. Len(c) = Len(b) + 1
    BY <1>2
  <2>3. \A i \in 1..Len(b) : \E j \in 1..Len(c) : j # p + 1 /\ f[j] = i
    <3> TAKE i \in 1..Len(b)
    <3>1. CASE i <= p
      <4>1. i \in 1..Len(c) /\ i # p + 1 /\ f[i] = i
        BY <1>1, <2>1, <2>2, <3>1
      <4> QED
        BY <4>1
    <3>2. CASE ~(i <= p)
      <4>1. i + 1 \in 1..Len(c) /\ i + 1 # p + 1 /\ ~(i + 1 <= p) /\ (i + 1) - 1 = i
        BY <1>1, <2>2, <3>2
      <4>2. f[i + 1] = i
        BY <2>1, <4>1, Zenon
      <4> QED
        BY <4>1, <4>2
    <3> QED
      BY <3>1, <3>2
  <2>4. \A i, j \in 1..Len(c) : i < j /\ i # p + 1 /\ j # p + 1 => f[i] < f[j]
    BY <1>1, <2>1, <2>2
  <2>5. \A i \in 1..Len(c) : (i < p + 1 => f[i] <= p) /\ (i > p + 1 => f[i] >= p + 1)
    BY <1>1, <2>1, <2>2
  <2> QED
    BY <2>3, <2>4, <2>5
<1>20. /\ \A i, j \in 1..Len(b) : i < j => b[i] # b[j]
       /\ \A i, j, k \in 1..Len(b) : i < j /\ j < k /\ SameKey(b[i], b[k]) => SameKey(b[i], b[j])
  BY DEF Tidy
<1>4. \A i \in 1..Len(c) : i # p + 1 => f[i] \in 1..Len(b) /\ c[i] = b[f[i]]
  BY <1>2
<1>5. c[p + 1] = n /\ p + 1 \in 1..Len(c)
  BY <1>1, <1>2
<1>6. ASSUME NEW i \in 1..Len(c), NEW j \in 1..Len(c), i < j PROVE c[i] # c[j]
  <2>1. CASE i # p + 1 /\ j # p + 1
    <3>1. f[i] \in 1..Len(b) /\ f[j] \in 1..Len(b) /\ c[i] = b[f[i]] /\ c[j] = b[f[j]]
      BY <1>4, <2>1, Zenon
    <3>2. f[i] < f[j]
      BY <1>3, <1>6, <2>1, Zenon
    <3> QED
      BY <1>20, <3>1, <3>2, Zenon
  <2>2. CASE i = p + 1 /\ j # p + 1
    BY <1>4, <1>5, <2>2
  <2>3. CASE j = p + 1 /\ i # p + 1
    BY <1>4, <1>5, <2>3
  <2> QED
    BY <1>1, <1>6, <2>1, <2>2, <2>3
<1>7. ASSUME NEW i \in 1..Len(c), NEW j \in 1..Len(c), NEW k \in 1..Len(c), i < j, j < k, SameKey(c[i], c[k])
      PROVE  SameKey(c[i], c[j])
  <2>0. i < k
    BY <1>1, <1>2, <1>7
  <2>1. CASE i # p + 1 /\ j # p + 1 /\ k # p + 1
    <3>1. f[i] \in 1..Len(b) /\ f[j] \in 1..Len(b) /\ f[k] \in 1..Len(b)
          /\ c[i] = b[f[i]] /\ c[j] = b[f[j]] /\ c[k] = b[f[k]]
      BY <1>4, <2>1, Zenon
    <3>2. f[i] < f[j] /\ f[j] < f[k]
      BY <1>3, <1>7, <2>1, Zenon
    <3>3. SameKey(b[f[i]], b[f[k]])
      BY <1>7, <3>1, Zenon
    <3>4. SameKey(b[f[i]], b[f[j]])
      BY <1>20, <3>1, <3>2, <3>3, Zenon
    <3> QED
      BY <3>1, <3>4, Zenon
  <2>2. CASE i = p + 1
    \* Then p # 0, and b[p], b[f[j]], b[f[k]] are in this order.
    <3>1. j # p + 1 /\ k # p + 1 /\ j > p + 1 /\ k > p + 1
      BY <1>1, <1>2, <1>7, <2>0, <2>2
    <3>2. c[i] = n /\ c[k] = b[f[k]] /\ f[k] \in 1..Len(b) /\ c[j] = b[f[j]] /\ f[j] \in 1..Len(b)
      BY <1>4, <1>5, <2>2, <3>1
    <3>3. SameKey(b[f[k]], n)
      BY <1>7, <3>2, SameKeyIsEquality
    <3>4. p # 0 /\ SameKey(b[p], n)
      BY <3>2, <3>3
    <3>5. p \in 1..Len(b) /\ p < f[j] /\ f[j] < f[k]
      BY <1>1, <1>3, <1>7, <3>1, <3>2, <3>4
    <3>6. SameKey(b[p], b[f[k]])
      BY <3>3, <3>4, SameKeyIsEquality
    <3>7. SameKey(b[p], b[f[j]])
      BY <3>2, <3>5, <1>20, <3>6
    <3> QED
      BY <3>2, <3>4, <3>7, SameKeyIsEquality
  <2>3. CASE k = p + 1
    <3>1. i # p + 1 /\ j # p + 1 /\ i < p + 1 /\ j < p + 1
      BY <1>1, <1>2, <1>7, <2>0, <2>3
    <3>2. c[k] = n /\ c[i] = b[f[i]] /\ f[i] \in 1..Len(b) /\ c[j] = b[f[j]] /\ f[j] \in 1..Len(b)
      BY <1>4, <1>5, <2>3, <3>1
    <3>3. p # 0 /\ SameKey(b[p], n)
      BY <1>7, <3>2
    <3>4. p \in 1..Len(b) /\ f[i] < f[j] /\ f[j] <= p
      BY <1>1, <1>3, <1>7, <3>1, <3>3
    <3>5. SameKey(b[f[i]], b[p])
      BY <1>7, <3>2, <3>3, SameKeyIsEquality
    <3>6. CASE f[j] = p
      BY <3>2, <3>5, <3>6
    <3>7. CASE f[j] < p
      BY <3>2, <3>4, <3>5, <1>20, <3>7
    <3> QED
      BY <1>1, <3>2, <3>4, <3>6, <3>7
  <2>4. CASE j = p + 1
    \* b[f[i]], b[p] and b[f[k]] in this order, or p = f[i].
    <3>1. i # p + 1 /\ k # p + 1 /\ i < p + 1 /\ k > p + 1
      BY <1>1, <1>2, <1>7, <2>0, <2>4
    <3>2. c[j] = n /\ c[i] = b[f[i]] /\ f[i] \in 1..Len(b) /\ c[k] = b[f[k]] /\ f[k] \in 1..Len(b)
      BY <1>4, <1>5, <2>4, <3>1
    <3>3. f[i] <= p /\ f[k] >= p + 1
      BY <1>3, <3>1
    <3>4. p # 0 /\ p \in 1..Len(b) /\ p < f[k]
      BY <1>1, <3>2, <3>3
    <3>5. SameKey(b[f[i]], b[f[k]])
      BY <1>7, <3>2
    <3>6. SameKey(b[f[i]], b[p])
      <4>1. CASE f[i] = p
        BY <4>1, SameKeyIsEquality
      <4>2. CASE f[i] < p
        BY <3>2, <3>4, <3>5, <1>20, <4>2
      <4> QED
        BY <1>1, <3>2, <3>3, <4>1, <4>2
    <3> QED
      BY <3>2, <3>4, <3>6, SameKeyIsEquality
  <2> QED
    BY <2>1, <2>2, <2>3, <2>4
<1>8. ASSUME NEW m PROVE Contains(c, m) <=> Contains(b, m) \/ m = n
  <2>1. ASSUME Contains(c, m) PROVE Contains(b, m) \/ m = n
    <3>1. PICK i \in 1..Len(c) : c[i] = m
      BY <2>1 DEF Contains
    <3> QED
      BY <1>4, <1>5, <3>1, Zenon DEF Contains
  <2>2. ASSUME Contains(b, m) PROVE Contains(c, m)
    <3>1. PICK i \in 1..Len(b) : b[i] = m
      BY <2>2 DEF Contains
    <3>2. PICK j \in 1..Len(c) : j # p + 1 /\ f[j] = i
      BY <1>3
    <3> QED
      BY <1>4, <3>1, <3>2, Zenon DEF Contains
  <2>3. ASSUME m = n PROVE Contains(c, m)
    BY <1>5, <2>3, Zenon DEF Contains
  <2> QED
    BY <2>1, <2>2, <2>3
<1>9. Tidy(c)
  BY <1>2, <1>6, <1>7 DEF Tidy
<1> QED
  BY <1>0, <1>2, <1>8, <1>9, Zenon

\* The list without some of its items.
LEMMA CutTidy ==
  ASSUME NEW b, Tidy(b), NEW i \in 1..Len(b), NEW j \in (i + 1)..(Len(b) + 1)
  PROVE  /\ Tidy(Cut(b, i, j)) /\ Len(Cut(b, i, j)) = Len(b) - (j - i)
         /\ \A m : Contains(Cut(b, i, j), m) <=> \E k \in 1..Len(b) : b[k] = m /\ ~(i <= k /\ k < j)
<1>0. PICK c, f, front, back :
         /\ c = Cut(b, i, j) /\ front = SubSeq(b, 1, i - 1) /\ back = SubSeq(b, j, Len(b))
         /\ f = [k \in 1..(Len(b) - (j - i)) |-> IF k < i THEN k ELSE k + (j - i)]
  OBVIOUS
<1>1. b \in Seq(Items) /\ Len(b) \in Nat /\ i \in Int /\ j \in Int /\ i < j /\ 1 <= i /\ j <= Len(b) + 1
      /\ \A k \in 1..Len(b) : b[k] \in Items
  BY DEF Tidy
<1>2. /\ c \in Seq(Items) /\ Len(c) = Len(b) - (j - i)
      /\ \A k \in 1..Len(c) : c[k] = b[f[k]] /\ f[k] \in 1..Len(b)
      /\ \A k \in 1..Len(c) : f[k] = IF k < i THEN k ELSE k + (j - i)
  <2>1. /\ front \in Seq(Items) /\ Len(front) = i - 1 /\ \A k \in 1..(i - 1) : front[k] = b[k]
        /\ back \in Seq(Items) /\ Len(back) = Len(b) - j + 1 /\ \A k \in 1..(Len(b) - j + 1) : back[k] = b[j + k - 1]
    <3>1. /\ 1 \in 1..(Len(b) + 1) /\ i - 1 \in (1 - 1)..Len(b) /\ (i - 1) - 1 + 1 = i - 1
          /\ \A k \in 1..(i - 1) : 1 + k - 1 = k
          /\ j \in 1..(Len(b) + 1) /\ Len(b) \in (j - 1)..Len(b)
      BY <1>1
    <3>2. front \in Seq(Items) /\ Len(front) = (i - 1) - 1 + 1 /\ \A k \in 1..((i - 1) - 1 + 1) : front[k] = b[1 + k - 1]
      <4>1. IsPart(front, b, 1, i - 1)
        BY <1>0, <1>1, <3>1, Part, Zenon
      <4> QED
        BY <4>1, Zenon DEF IsPart
    <3>3. /\ back \in Seq(Items) /\ Len(back) = Len(b) - j + 1
          /\ \A k \in 1..(Len(b) - j + 1) : back[k] = b[j + k - 1]
      <4>1. IsPart(back, b, j, Len(b))
        BY <1>0, <1>1, <3>1, Part, Zenon
      <4> QED
        BY <4>1, Zenon DEF IsPart
    <3> QED
      BY <3>1, <3>2, <3>3
  <2>2. c = front \o back
    BY <1>0, Zenon DEF Cut
  <2>3. /\ c \in Seq(Items) /\ Len(c) = Len(front) + Len(back)
        /\ \A k \in 1..Len(front) : c[k] = front[k]
        /\ \A k \in 1..Len(back) : c[Len(front) + k] = back[k]
    <3>1. Joins(c, front, back)
      BY <2>1, <2>2, Joined, Zenon
    <3> QED
      BY <3>1, Zenon DEF Joins
  <2>4. Len(c) = Len(b) - (j - i)
    BY <1>1, <2>1, <2>3
  <2>5. ASSUME NEW k \in 1..Len(c)
        PROVE  /\ c[k] = b[f[k]] /\ f[k] \in 1..Len(b)
               /\ f[k] = IF k < i THEN k ELSE k + (j - i)
    <3>1. f[k] = IF k < i THEN k ELSE k + (j - i)
      BY <1>0, <2>4
    <3>2. k \in Int /\ 1 <= k /\ k <= Len(b) - (j - i)
      BY <1>1, <2>4
    <3>3. CASE k < i
      <4>1. k \in 1..(i - 1) /\ k \in 1..Len(b)
        BY <1>1, <3>2, <3>3
      <4> QED
        BY <2>1, <2>3, <3>1, <3>3, <4>1, Zenon
    <3>4. CASE ~(k < i)
      <4>1. /\ k - (i - 1) \in 1..(Len(b) - j + 1) /\ j + (k - (i - 1)) - 1 = k + (j - i)
            /\ (i - 1) + (k - (i - 1)) = k /\ k + (j - i) \in 1..Len(b)
        BY <1>1, <3>2, <3>4
      <4>2. c[k] = back[k - (i - 1)]
        <5>1. k - (i - 1) \in 1..Len(back) /\ Len(front) + (k - (i - 1)) = k
          BY <2>1, <4>1, Zenon
        <5> QED
          BY <2>3, <5>1, Zenon
      <4>3. back[k - (i - 1)] = b[k + (j - i)]
        BY <2>1, <4>1, Zenon
      <4> QED
        BY <3>1, <3>4, <4>1, <4>2, <4>3, Zenon
    <3> QED
      BY <3>3, <3>4
  <2> QED
    BY <2>3, <2>4, <2>5
<1>3. /\ \A k, l \in 1..Len(c) : k < l => f[k] < f[l]
      /\ \A k \in 1..Len(c) : ~(i <= f[k] /\ f[k] < j)
      /\ \A k \in 1..Len(b) : ~(i <= k /\ k < j) => \E l \in 1..Len(c) : f[l] = k
  <2>1. \A k \in 1..Len(c) : f[k] = IF k < i THEN k ELSE k + (j - i)
    BY <1>2
  <2>2. Len(c) = Len(b) - (j - i)
    BY <1>2
  <2>3. ASSUME NEW k \in 1..Len(b), ~(i <= k /\ k < j) PROVE \E l \in 1..Len(c) : f[l] = k
    <3>1. CASE k < i
      <4>1. k \in 1..Len(c) /\ f[k] = k
        BY <1>1, <2>1, <2>2, <2>3, <3>1
      <4> QED
        BY <4>1
    <3>2. CASE ~(k < i)
      <4>1. k - (j - i) \in 1..Len(c) /\ ~(k - (j - i) < i) /\ (k - (j - i)) + (j - i) = k
        BY <1>1, <2>2, <2>3, <3>2
      <4>2. f[k - (j - i)] = k
        BY <2>1, <4>1, Zenon
      <4> QED
        BY <4>1, <4>2
    <3> QED
      BY <3>1, <3>2
  <2>4. \A k, l \in 1..Len(c) : k < l => f[k] < f[l]
    BY <1>1, <2>1, <2>2
  <2>5. \A k \in 1..Len(c) : ~(i <= f[k] /\ f[k] < j)
    BY <1>1, <2>1, <2>2
  <2> QED
    BY <2>3, <2>4, <2>5
<1>4. Picks(c, b, f)
  BY <1>2, <1>3, Zenon DEF Picks
<1>5. Tidy(c)
  BY <1>2, <1>4, PickedTidy
<1>6. ASSUME NEW m PROVE Contains(c, m) <=> \E k \in 1..Len(b) : b[k] = m /\ ~(i <= k /\ k < j)
  <2>1. ASSUME Contains(c, m) PROVE \E k \in 1..Len(b) : b[k] = m /\ ~(i <= k /\ k < j)
    <3>1. PICK k \in 1..Len(c) : c[k] = m
      BY <2>1 DEF Contains
    <3> QED
      BY <1>2, <1>3, <3>1, Zenon
  <2>2. ASSUME NEW k \in 1..Len(b), b[k] = m, ~(i <= k /\ k < j) PROVE Contains(c, m)
    <3>1. PICK l \in 1..Len(c) : f[l] = k
      BY <1>3, <2>2
    <3> QED
      BY <1>2, <2>2, <3>1, Zenon DEF Contains
  <2> QED
    BY <2>1, <2>2, Zenon
<1> QED
  BY <1>0, <1>2, <1>5, <1>6, Zenon

-----------------------------------------------------------------------------
\* A walk through the table.

\* g joins the first k lists of s, as FlattenSeq does.
Flattens(s, k, g) == g = [i \in 1..k |-> IF i = 1 THEN s[i] ELSE g[i - 1] \o s[i]]

\* FlattenSeq is the last value of a function that joins the lists one by one.
LEMMA FlattenUnfolds ==
  ASSUME NEW s, NEW n \in Nat \ {0}, Len(s) = n
  PROVE  \E g : Flattens(s, n, g) /\ FlattenSeq(s) = g[n]
<1> DEFINE S == {k \in Nat : \E g : Flattens(s, k, g)}
<1>1. 0 \in S
  <2>1. Flattens(s, 0, [i \in 1..0 |-> s])
    BY DEF Flattens
  <2> QED
    BY <2>1
<1>2. ASSUME NEW k \in Nat, k \in S PROVE k + 1 \in S
  <2>1. PICK g : Flattens(s, k, g)
    BY <1>2
  <2>2. PICK h : h = [i \in 1..(k + 1) |-> IF i = k + 1 THEN (IF i = 1 THEN s[i] ELSE g[k] \o s[i]) ELSE g[i]]
    OBVIOUS
  <2>3. \A i \in 1..k : g[i] = IF i = 1 THEN s[i] ELSE g[i - 1] \o s[i]
    BY <2>1, Zenon DEF Flattens
  <2>4. ASSUME NEW i \in 1..(k + 1) PROVE h[i] = IF i = 1 THEN s[i] ELSE h[i - 1] \o s[i]
    <3>1. CASE i = k + 1
      <4>1. h[i] = IF i = 1 THEN s[i] ELSE g[k] \o s[i]
        BY <2>2, <3>1, Zenon
      <4>2. i # 1 => i - 1 = k /\ k \in 1..(k + 1) /\ k # k + 1
        BY <3>1
      <4>3. i # 1 => h[i - 1] = g[k]
        BY <2>2, <4>2, Zenon
      <4> QED
        BY <4>1, <4>3, Zenon
    <3>2. CASE i # k + 1
      <4>1. i \in 1..k
        BY <3>2
      <4>2. h[i] = g[i]
        BY <2>2, <3>2, Zenon
      <4>3. i # 1 => i - 1 \in 1..(k + 1) /\ i - 1 # k + 1
        BY <4>1
      <4>4. i # 1 => h[i - 1] = g[i - 1]
        BY <2>2, <4>3, Zenon
      <4> QED
        BY <2>3, <4>1, <4>2, <4>4, Zenon
    <3> QED
      BY <3>1, <3>2
  <2>5. h = [i \in 1..(k + 1) |-> h[i]]
    BY <2>2
  <2>6. h = [i \in 1..(k + 1) |-> IF i = 1 THEN s[i] ELSE h[i - 1] \o s[i]]
    BY <2>4, <2>5, Zenon
  <2>7. Flattens(s, k + 1, h)
    BY <2>6, Zenon DEF Flattens
  <2> QED
    BY <2>7
<1>3. n \in S
  <2> HIDE DEF S
  <2> QED BY <1>1, <1>2, SetInduction
<1>4. \E g : Flattens(s, n, g)
  BY <1>3
<1>5. PICK f : f = CHOOSE g : Flattens(s, n, g)
  OBVIOUS
<1>6. Flattens(s, n, f)
  BY <1>4, <1>5
<1>7. FlattenSeq(s) = f[n]
  <2>1. Len(s) # 0
    OBVIOUS
  <2> QED
    BY <1>5, <2>1, Zenon DEF FlattenSeq, Flattens
<1> QED
  BY <1>6, <1>7

\* The lists of c buckets: tidy, and the items are those of the bucket's hash.
Placed(b, c) ==
  \A i \in 0..(c - 1) : Tidy(b[i]) /\ \A q \in 1..Len(b[i]) : bucket_index(b[i][q], c) = i

\* w is what a walk through the first k of them meets.
Walks(w, b, k) ==
  Tidy(w) /\ \A m : Contains(w, m) <=> \E i \in 0..(k - 1) : Contains(b[i], m)

\* Items of one key have one bucket.
LEMMA IndexOfKey ==
  ASSUME NEW m, NEW n, NEW c, SameKey(m, n)
  PROVE  bucket_index(m, c) = bucket_index(n, c)
  BY DEF SameKey, bucket_index

\* Every item has one of the buckets.
LEMMA IndexInRange ==
  ASSUME NEW n \in Items, NEW c \in Nat \ {0}
  PROVE  bucket_index(n, c) \in 0..(c - 1)
<1>1. Key(n) \in Int
  BY DEF Items, Key
<1> QED
  BY <1>1 DEF bucket_index

\* What a joined list holds.
LEMMA JoinedContains ==
  ASSUME NEW a, NEW b, a \in Seq(Items), b \in Seq(Items)
  PROVE  \A m : Contains(a \o b, m) <=> Contains(a, m) \/ Contains(b, m)
<1>0. PICK c : c = a \o b
  OBVIOUS
<1>1. Joins(c, a, b)
  BY <1>0, Joined, Zenon
<1>2. ASSUME NEW m, Contains(c, m) PROVE Contains(a, m) \/ Contains(b, m)
  <2>1. PICK i \in 1..Len(c) : c[i] = m
    BY <1>2 DEF Contains
  <2>2. Len(a) \in Nat /\ Len(b) \in Nat /\ Len(c) = Len(a) + Len(b)
    BY <1>1 DEF Joins
  <2>3. CASE i <= Len(a)
    <3>1. i \in 1..Len(a)
      BY <2>2, <2>3
    <3> QED
      BY <1>1, <2>1, <3>1, Zenon DEF Joins, Contains
  <2>4. CASE ~(i <= Len(a))
    <3>1. i - Len(a) \in 1..Len(b) /\ Len(a) + (i - Len(a)) = i
      BY <2>2, <2>4
    <3> QED
      BY <1>1, <2>1, <3>1, Zenon DEF Joins, Contains
  <2> QED
    BY <2>3, <2>4
<1>3. ASSUME NEW m, Contains(a, m) PROVE Contains(c, m)
  <2>1. PICK i \in 1..Len(a) : a[i] = m
    BY <1>3 DEF Contains
  <2>2. i \in 1..Len(c)
    <3>1. Len(a) \in Nat /\ Len(b) \in Nat /\ Len(c) = Len(a) + Len(b)
      BY <1>1 DEF Joins
    <3> QED
      BY <3>1
  <2> QED
    BY <1>1, <2>1, <2>2, Zenon DEF Joins, Contains
<1>4. ASSUME NEW m, Contains(b, m) PROVE Contains(c, m)
  <2>1. PICK i \in 1..Len(b) : b[i] = m
    BY <1>4 DEF Contains
  <2>2. Len(a) + i \in 1..Len(c)
    <3>1. Len(a) \in Nat /\ Len(b) \in Nat /\ Len(c) = Len(a) + Len(b)
      BY <1>1 DEF Joins
    <3> QED
      BY <3>1
  <2> QED
    BY <1>1, <2>1, <2>2, Zenon DEF Joins, Contains
<1> QED
  BY <1>0, <1>2, <1>3, <1>4, Zenon

\* The walk through c buckets meets the items of all of them, each once, and equal
\* items one after the other.
LEMMA FlattenWalks ==
  ASSUME NEW b, NEW c \in Nat \ {0}, Placed(b, c)
  PROVE  Walks(FlattenSeq([i \in 1..c |-> b[i - 1]]), b, c)
<1>0. PICK s : s = [i \in 1..c |-> b[i - 1]]
  OBVIOUS
<1>1. Len(s) = c /\ \A i \in 1..c : s[i] = b[i - 1]
  BY <1>0
<1>2. PICK g : Flattens(s, c, g) /\ FlattenSeq(s) = g[c]
  BY <1>1, FlattenUnfolds
<1>3. \A i \in 1..c : g[i] = IF i = 1 THEN s[i] ELSE g[i - 1] \o s[i]
  BY <1>2, Zenon DEF Flattens
<1> DEFINE S == {k \in Nat : k + 1 <= c => Walks(g[k + 1], b, k + 1)}
<1>4. 0 \in S
  <2>1. 1 \in 1..c /\ 1 - 1 = 0 /\ 0 \in 0..(c - 1) /\ 0..0 = {0} /\ 0 + 1 = 1
    OBVIOUS
  <2>2. g[1] = b[0]
    BY <1>1, <1>3, <2>1, Zenon
  <2>3. Tidy(b[0])
    BY <2>1, Zenon DEF Placed
  <2>4. \A m : Contains(b[0], m) <=> \E i \in {0} : Contains(b[i], m)
    BY Zenon
  <2>5. Walks(g[1], b, 1)
    BY <2>1, <2>2, <2>3, <2>4, Zenon DEF Walks
  <2> QED
    BY <2>1, <2>5
<1>5. ASSUME NEW k \in Nat, k \in S PROVE k + 1 \in S
  <2>1. SUFFICES ASSUME (k + 1) + 1 <= c PROVE Walks(g[(k + 1) + 1], b, (k + 1) + 1)
    OBVIOUS
  <2>2. /\ (k + 1) + 1 \in 1..c /\ (k + 1) + 1 # 1 /\ ((k + 1) + 1) - 1 = k + 1 /\ k + 1 \in 0..(c - 1) /\ k + 1 <= c
        /\ (k + 1) - 1 = k /\ \A i \in 0..k : i \in 0..(c - 1) /\ i # k + 1
        /\ 0..(k + 1) = 0..k \cup {k + 1}
    BY <2>1
  <2>3. g[(k + 1) + 1] = g[k + 1] \o b[k + 1]
    <3>1. PICK x : x = (k + 1) + 1
      OBVIOUS
    <3>2. x \in 1..c /\ x # 1 /\ x - 1 = k + 1
      BY <2>2, <3>1, Zenon
    <3>3. g[x] = g[x - 1] \o s[x] /\ s[x] = b[x - 1]
      BY <1>1, <1>3, <3>2, Zenon
    <3> QED
      BY <3>1, <3>2, <3>3, Zenon
  <2>4. Walks(g[k + 1], b, k + 1)
    BY <1>5, <2>2
  <2>5. PICK w, l : w = g[k + 1] /\ l = b[k + 1]
    OBVIOUS
  <2>6. Tidy(w) /\ Tidy(l) /\ w \in Seq(Items) /\ l \in Seq(Items)
    BY <2>2, <2>4, <2>5 DEF Walks, Placed, Tidy
  <2>7. \A m : Contains(w, m) <=> \E i \in 0..k : Contains(b[i], m)
    BY <2>2, <2>4, <2>5, Zenon DEF Walks
  <2>8. ASSUME NEW p \in 1..Len(w), NEW q \in 1..Len(l) PROVE ~SameKey(w[p], l[q])
    <3>1. PICK i \in 0..k : Contains(b[i], w[p])
      BY <2>7, Zenon DEF Contains
    <3>2. PICK r \in 1..Len(b[i]) : b[i][r] = w[p]
      BY <3>1, Zenon DEF Contains
    <3>3. bucket_index(w[p], c) = i
      BY <2>2, <3>2, Zenon DEF Placed
    <3>4. bucket_index(l[q], c) = k + 1
      BY <2>2, <2>5, Zenon DEF Placed
    <3>5. i # k + 1
      BY <2>2
    <3> QED
      BY <3>3, <3>4, <3>5, IndexOfKey, Zenon
  <2>9. Tidy(w \o l)
    BY <2>6, <2>8, JoinedTidy
  <2>10. \A m : Contains(w \o l, m) <=> Contains(w, m) \/ Contains(l, m)
    BY <2>6, JoinedContains
  <2>11. ASSUME NEW m PROVE Contains(w \o l, m) <=> \E i \in 0..(k + 1) : Contains(b[i], m)
    <3>1. (\E i \in 0..(k + 1) : Contains(b[i], m)) <=> (\E i \in 0..k : Contains(b[i], m)) \/ Contains(b[k + 1], m)
      BY <2>2, Zenon
    <3> QED
      BY <2>5, <2>7, <2>10, <3>1, Zenon
  <2> QED
    BY <2>2, <2>3, <2>5, <2>9, <2>11, Zenon DEF Walks
<1>6. c - 1 \in S
  <2>1. c - 1 \in Nat
    OBVIOUS
  <2> HIDE DEF S
  <2> QED BY <1>4, <1>5, <2>1, SetInduction
<1>7. Walks(g[c], b, c)
  <2>1. (c - 1) + 1 = c /\ c <= c
    OBVIOUS
  <2> QED
    BY <1>6, <2>1
<1> QED
  BY <1>0, <1>2, <1>7, Zenon

-----------------------------------------------------------------------------
\* What a rehash makes of it.

\* g deals out the first k items of w, as Distributed does.
Deals(w, c, k, g) ==
  g = [j \in 0..k |->
         IF j = 0 THEN [i \in 0..(c - 1) |-> <<>>]
         ELSE [g[j - 1] EXCEPT ![bucket_index(w[j], c)] = <<w[j]>> \o @]]

\* Distributed is the last value of a function that deals out item by item.
LEMMA DistributedUnfolds ==
  ASSUME NEW w, NEW c, Len(w) \in Nat
  PROVE  \E g : Deals(w, c, Len(w), g) /\ Distributed(w, c) = g[Len(w)]
<1> DEFINE S == {k \in Nat : \E g : Deals(w, c, k, g)}
           none == [i \in 0..(c - 1) |-> <<>>]
           D(v, j) == [v EXCEPT ![bucket_index(w[j], c)] = <<w[j]>> \o @]
<1>0. \A k, g : Deals(w, c, k, g) <=> g = [j \in 0..k |-> IF j = 0 THEN none ELSE D(g[j - 1], j)]
  BY Zenon DEF Deals
<1> HIDE DEF none, D
<1>1. 0 \in S
  <2>1. PICK g : g = [j \in 0..0 |-> none]
    OBVIOUS
  <2>2. \A j \in 0..0 : g[j] = IF j = 0 THEN none ELSE D(g[j - 1], j)
    BY <2>1
  <2>3. g = [j \in 0..0 |-> g[j]]
    BY <2>1
  <2>4. g = [j \in 0..0 |-> IF j = 0 THEN none ELSE D(g[j - 1], j)]
    BY <2>2, <2>3, Zenon
  <2>5. Deals(w, c, 0, g)
    BY <1>0, <2>4, Zenon
  <2> QED
    BY <2>5
<1>2. ASSUME NEW k \in Nat, k \in S PROVE k + 1 \in S
  <2>1. PICK g : Deals(w, c, k, g)
    BY <1>2
  <2>2. PICK h : h = [j \in 0..(k + 1) |-> IF j = k + 1 THEN D(g[k], j) ELSE g[j]]
    OBVIOUS
  <2>3. g = [j \in 0..k |-> IF j = 0 THEN none ELSE D(g[j - 1], j)]
    BY <1>0, <2>1, Zenon
  <2>4. ASSUME NEW j \in 0..(k + 1) PROVE h[j] = IF j = 0 THEN none ELSE D(h[j - 1], j)
    <3>1. CASE j = k + 1
      <4>1. j # 0 /\ j - 1 = k /\ k \in 0..(k + 1) /\ k # k + 1
        BY <3>1
      <4>2. h[j] = D(g[k], j)
        BY <2>2, <3>1, Zenon
      <4>3. h[j - 1] = g[k]
        BY <2>2, <4>1, Zenon
      <4> QED
        BY <4>1, <4>2, <4>3, Zenon
    <3>2. CASE j # k + 1
      <4>1. j \in 0..k
        BY <3>2
      <4>2. h[j] = g[j]
        BY <2>2, <3>2, Zenon
      <4>3. j # 0 => j - 1 \in 0..(k + 1) /\ j - 1 # k + 1
        BY <4>1
      <4>4. j # 0 => h[j - 1] = g[j - 1]
        BY <2>2, <4>3, Zenon
      <4>5. g[j] = IF j = 0 THEN none ELSE D(g[j - 1], j)
        BY <2>3, <4>1, Zenon
      <4> QED
        BY <4>2, <4>4, <4>5, Zenon
    <3> QED
      BY <3>1, <3>2
  <2>5. h = [j \in 0..(k + 1) |-> h[j]]
    BY <2>2
  <2>6. h = [j \in 0..(k + 1) |-> IF j = 0 THEN none ELSE D(h[j - 1], j)]
    BY <2>4, <2>5, Zenon
  <2>7. Deals(w, c, k + 1, h)
    BY <1>0, <2>6, Zenon
  <2> QED
    BY <2>7
<1>3. Len(w) \in S
  <2> HIDE DEF S
  <2> QED BY <1>1, <1>2, SetInduction
<1>4. \E g : Deals(w, c, Len(w), g)
  BY <1>3
<1>5. PICK f : f = CHOOSE g : Deals(w, c, Len(w), g)
  OBVIOUS
<1>6. Deals(w, c, Len(w), f)
  BY <1>4, <1>5, Zenon
<1>7. Distributed(w, c) = f[Len(w)]
  BY <1>5, Zenon DEF Distributed, Deals
<1> QED
  BY <1>6, <1>7

\* l holds some of the first k items of w, in the reverse of their order.
Takes(l, w, k, f) ==
  /\ \A p \in 1..Len(l) : f[p] \in 1..k /\ l[p] = w[f[p]]
  /\ \A p, q \in 1..Len(l) : p < q => f[q] < f[p]

\* The buckets d when the first k items of w are in.
Dealt(d, w, k, c) ==
  /\ d \in [0..(c - 1) -> Seq(Items)]
  /\ \A i \in 0..(c - 1) : \A q \in 1..Len(d[i]) : bucket_index(d[i][q], c) = i
  /\ \A i \in 0..(c - 1) : \E f : Takes(d[i], w, k, f)
  /\ \A j \in 1..k : bucket_index(w[j], c) \in 0..(c - 1) /\ Contains(d[bucket_index(w[j], c)], w[j])

\* One item more, in front.
LEMMA TakesOneMore ==
  ASSUME NEW l, l \in Seq(Items), NEW w, NEW k \in Nat, NEW f, Takes(l, w, k, f), w[k + 1] \in Items
  PROVE  \E h : Takes(<<w[k + 1]>> \o l, w, k + 1, h)
<1>0. PICK r, h : r = <<w[k + 1]>> \o l /\ h = [p \in 1..(Len(l) + 1) |-> IF p = 1 THEN k + 1 ELSE f[p - 1]]
  OBVIOUS
<1>1. <<w[k + 1]>> \in Seq(Items) /\ Len(<<w[k + 1]>>) = 1 /\ <<w[k + 1]>>[1] = w[k + 1] /\ 1 \in 1..1
  OBVIOUS
<1>2. Joins(r, <<w[k + 1]>>, l)
  BY <1>0, <1>1, Joined, Zenon
<1>3. Len(l) \in Nat /\ Len(r) = 1 + Len(l) /\ r[1] = w[k + 1] /\ \A i \in 1..Len(l) : r[1 + i] = l[i]
  BY <1>1, <1>2, Zenon DEF Joins
<1>4. ASSUME NEW p \in 1..Len(r)
      PROVE  /\ h[p] \in 1..(k + 1) /\ r[p] = w[h[p]]
             /\ p # 1 => p - 1 \in 1..Len(l) /\ h[p] = f[p - 1] /\ h[p] \in 1..k
             /\ p = 1 => h[p] = k + 1
  <2>1. p \in 1..(Len(l) + 1)
    BY <1>3
  <2>2. h[p] = IF p = 1 THEN k + 1 ELSE f[p - 1]
    BY <1>0, <2>1, Zenon
  <2>3. CASE p = 1
    <3>1. h[p] = k + 1 /\ k + 1 \in 1..(k + 1)
      BY <2>2, <2>3
    <3> QED
      BY <1>3, <2>3, <3>1, Zenon
  <2>4. CASE p # 1
    <3>1. p - 1 \in 1..Len(l) /\ 1 + (p - 1) = p
      BY <1>3, <2>4
    <3>2. r[p] = l[p - 1]
      BY <1>3, <3>1, Zenon
    <3>3. h[p] = f[p - 1] /\ h[p] \in 1..k /\ l[p - 1] = w[h[p]]
      BY <2>2, <2>4, <3>1, Zenon DEF Takes
    <3>4. h[p] \in 1..(k + 1)
      BY <3>3
    <3> QED
      BY <2>4, <3>1, <3>2, <3>3, <3>4, Zenon
  <2> QED
    BY <2>3, <2>4, Zenon
<1>5. ASSUME NEW p \in 1..Len(r), NEW q \in 1..Len(r), p < q PROVE h[q] < h[p]
  <2>1. q # 1 /\ h[q] \in 1..k
    <3>1. q # 1
      BY <1>3, <1>5
    <3> QED
      BY <1>4, <3>1, Zenon
  <2>2. CASE p = 1
    <3>1. h[p] = k + 1
      BY <1>4, <2>2, Zenon
    <3> QED
      BY <2>1, <3>1
  <2>3. CASE p # 1
    <3>1. p - 1 \in 1..Len(l) /\ q - 1 \in 1..Len(l) /\ h[p] = f[p - 1] /\ h[q] = f[q - 1]
      BY <1>4, <2>1, <2>3, Zenon
    <3>2. p - 1 < q - 1
      BY <1>3, <1>5
    <3> QED
      BY <3>1, <3>2, Zenon DEF Takes
  <2> QED
    BY <2>2, <2>3
<1>6. Takes(r, w, k + 1, h)
  BY <1>4, <1>5, Zenon DEF Takes
<1> QED
  BY <1>0, <1>6, Zenon

\* The next item goes in front of its bucket.
LEMMA DealtOneMore ==
  ASSUME NEW d, NEW w, NEW k \in Nat, NEW c \in Nat \ {0}, Dealt(d, w, k, c), w[k + 1] \in Items
  PROVE  Dealt([d EXCEPT ![bucket_index(w[k + 1], c)] = <<w[k + 1]>> \o @], w, k + 1, c)
<1>0. PICK e, n, x, r :
         n = w[k + 1] /\ x = bucket_index(n, c) /\ r = <<n>> \o d[x]
         /\ e = [d EXCEPT ![bucket_index(w[k + 1], c)] = <<w[k + 1]>> \o @]
  OBVIOUS
<1>1. n \in Items /\ x \in 0..(c - 1)
  BY <1>0, IndexInRange, Zenon
<1>2. d \in [0..(c - 1) -> Seq(Items)] /\ d[x] \in Seq(Items)
  BY <1>1 DEF Dealt
<1>3. e = [d EXCEPT ![x] = r]
  BY <1>0, Zenon
<1>4. <<n>> \in Seq(Items) /\ Len(<<n>>) = 1 /\ <<n>>[1] = n /\ 1 \in 1..1
  BY <1>1
<1>5. Joins(r, <<n>>, d[x])
  BY <1>0, <1>2, <1>4, Joined, Zenon
<1>6. r \in Seq(Items) /\ Len(d[x]) \in Nat /\ Len(r) = 1 + Len(d[x]) /\ r[1] = n /\ \A i \in 1..Len(d[x]) : r[1 + i] = d[x][i]
  BY <1>4, <1>5, Zenon DEF Joins
<1>7. e \in [0..(c - 1) -> Seq(Items)] /\ e[x] = r /\ \A i \in 0..(c - 1) : i # x => e[i] = d[i]
  BY <1>1, <1>2, <1>3, <1>6
<1>8. ASSUME NEW i \in 0..(c - 1), NEW q \in 1..Len(e[i]) PROVE bucket_index(e[i][q], c) = i
  <2>1. CASE i # x
    BY <1>7, <1>8, <2>1, Zenon DEF Dealt
  <2>2. CASE i = x /\ q = 1
    BY <1>0, <1>6, <1>7, <2>2, Zenon
  <2>3. CASE i = x /\ q # 1
    <3>1. q \in 1..Len(r)
      BY <1>7, <1>8, <2>3, Zenon
    <3>2. q - 1 \in 1..Len(d[x]) /\ 1 + (q - 1) = q
      BY <1>6, <2>3, <3>1
    <3>3. e[i][q] = d[x][q - 1]
      BY <1>6, <1>7, <2>3, <3>2, Zenon
    <3> QED
      BY <1>1, <2>3, <3>2, <3>3, Zenon DEF Dealt
  <2> QED
    BY <2>1, <2>2, <2>3, Zenon
<1>9. ASSUME NEW i \in 0..(c - 1) PROVE \E f : Takes(e[i], w, k + 1, f)
  <2>1. PICK f : Takes(d[i], w, k, f)
    BY Zenon DEF Dealt
  <2>2. CASE i = x
    <3>1. \E h : Takes(<<w[k + 1]>> \o d[i], w, k + 1, h)
      BY <1>2, <2>1, <2>2, TakesOneMore, Zenon
    <3> QED
      BY <1>0, <1>7, <2>2, <3>1, Zenon
  <2>3. CASE i # x
    <3>1. \A j \in 1..k : j \in 1..(k + 1)
      OBVIOUS
    <3>2. Takes(d[i], w, k + 1, f)
      BY <2>1, <3>1, Zenon DEF Takes
    <3> QED
      BY <1>7, <2>3, <3>2, Zenon
  <2> QED
    BY <2>2, <2>3, Zenon
<1>10. ASSUME NEW m PROVE (Contains(d[x], m) \/ m = n) => Contains(e[x], m)
  <2>1. 1 \in 1..Len(r) /\ \A i \in 1..Len(d[x]) : 1 + i \in 1..Len(r)
    BY <1>6
  <2> QED
    BY <1>6, <1>7, <2>1, Zenon DEF Contains
<1>11. ASSUME NEW j \in 1..(k + 1)
       PROVE  bucket_index(w[j], c) \in 0..(c - 1) /\ Contains(e[bucket_index(w[j], c)], w[j])
  <2>1. CASE j = k + 1
    BY <1>0, <1>1, <1>10, <2>1, Zenon
  <2>2. CASE j # k + 1
    <3>1. j \in 1..k
      BY <2>2
    <3>2. PICK y : y = bucket_index(w[j], c)
      OBVIOUS
    <3>3. Contains(d[y], w[j]) /\ y \in 0..(c - 1)
      BY <3>1, <3>2, Zenon DEF Dealt
    <3> QED
      BY <1>7, <1>10, <3>2, <3>3, Zenon
  <2> QED
    BY <2>1, <2>2, Zenon
<1>12. Dealt(e, w, k + 1, c)
  BY <1>7, <1>8, <1>9, <1>11, Zenon DEF Dealt
<1> QED
  BY <1>0, <1>12, Zenon

\* The buckets of the dealt walk are tidy and hold what the walk did.
LEMMA DistributedPlaced ==
  ASSUME NEW w, Tidy(w), NEW c \in Nat \ {0}
  PROVE  /\ Distributed(w, c) \in [0..(c - 1) -> Seq(Items)]
         /\ Placed(Distributed(w, c), c)
         /\ \A m : Contains(w, m) <=> \E i \in 0..(c - 1) : Contains(Distributed(w, c)[i], m)
<1>1. w \in Seq(Items) /\ Len(w) \in Nat /\ \A j \in 1..Len(w) : w[j] \in Items
  BY DEF Tidy
<1>2. PICK g : Deals(w, c, Len(w), g) /\ Distributed(w, c) = g[Len(w)]
  BY <1>1, DistributedUnfolds
<1> DEFINE S == {k \in Nat : k <= Len(w) => Dealt(g[k], w, k, c)}
<1>3. 0 \in S
  <2>1. 0 \in 0..Len(w)
    BY <1>1
  <2>2. g[0] = [i \in 0..(c - 1) |-> <<>>]
    BY <1>2, <2>1, Zenon DEF Deals
  <2>3. PICK d : d = [i \in 0..(c - 1) |-> <<>>]
    OBVIOUS
  <2>4. \A i \in 0..(c - 1) : d[i] = <<>> /\ 1..Len(d[i]) = {}
    BY <2>3
  <2>5. d \in [0..(c - 1) -> Seq(Items)]
    BY <2>3
  <2>6. \A i \in 0..(c - 1) : \E f : Takes(d[i], w, 0, f)
    BY <2>4, Zenon DEF Takes
  <2>7. 1..0 = {}
    OBVIOUS
  <2>8. Dealt(d, w, 0, c)
    BY <2>4, <2>5, <2>6, <2>7, Zenon DEF Dealt
  <2>9. Dealt(g[0], w, 0, c)
    BY <2>2, <2>3, <2>8, Zenon
  <2> QED
    BY <2>9
<1>4. ASSUME NEW k \in Nat, k \in S PROVE k + 1 \in S
  <2>1. SUFFICES ASSUME k + 1 <= Len(w) PROVE Dealt(g[k + 1], w, k + 1, c)
    OBVIOUS
  <2>2. k <= Len(w) /\ k + 1 \in 0..Len(w) /\ k + 1 # 0 /\ (k + 1) - 1 = k /\ k + 1 \in 1..Len(w)
    BY <1>1, <2>1
  <2>3. Dealt(g[k], w, k, c)
    BY <1>4, <2>2
  <2>4. g[k + 1] = [g[k] EXCEPT ![bucket_index(w[k + 1], c)] = <<w[k + 1]>> \o @]
    BY <1>2, <2>2, Zenon DEF Deals
  <2>5. w[k + 1] \in Items
    BY <1>1, <2>2
  <2>6. PICK e : e = [g[k] EXCEPT ![bucket_index(w[k + 1], c)] = <<w[k + 1]>> \o @]
    OBVIOUS
  <2>7. Dealt(e, w, k + 1, c)
    BY <2>3, <2>5, <2>6, DealtOneMore
  <2> QED
    BY <2>4, <2>6, <2>7, Zenon
<1>5. Len(w) \in S
  <2> HIDE DEF S
  <2> QED BY <1>1, <1>3, <1>4, SetInduction
<1>6. PICK d : d = Distributed(w, c)
  OBVIOUS
<1>7. Dealt(d, w, Len(w), c)
  <2>1. Len(w) <= Len(w)
    BY <1>1
  <2> QED
    BY <1>2, <1>5, <1>6, <2>1
<1>8. ASSUME NEW i \in 0..(c - 1) PROVE Tidy(d[i])
  <2>1. PICK f : Takes(d[i], w, Len(w), f)
    BY <1>7, Zenon DEF Dealt
  <2>2. Picks(d[i], w, f)
    BY <2>1, Zenon DEF Takes, Picks
  <2>3. d[i] \in Seq(Items)
    BY <1>7 DEF Dealt
  <2> QED
    BY <2>2, <2>3, PickedTidy
<1>9. Placed(d, c)
  BY <1>7, <1>8, Zenon DEF Dealt, Placed
<1>10. ASSUME NEW m, Contains(w, m) PROVE \E i \in 0..(c - 1) : Contains(d[i], m)
  <2>1. PICK j \in 1..Len(w) : w[j] = m
    BY <1>10, Zenon DEF Contains
  <2>2. bucket_index(m, c) \in 0..(c - 1)
    BY <1>1, <2>1, IndexInRange, Zenon
  <2>3. Contains(d[bucket_index(m, c)], m)
    BY <1>7, <2>1, Zenon DEF Dealt
  <2> QED
    BY <2>2, <2>3, Zenon
<1>11. ASSUME NEW m, NEW i \in 0..(c - 1), Contains(d[i], m) PROVE Contains(w, m)
  <2>1. PICK p \in 1..Len(d[i]) : d[i][p] = m
    BY <1>11, Zenon DEF Contains
  <2>2. PICK f : Takes(d[i], w, Len(w), f)
    BY <1>7, Zenon DEF Dealt
  <2> QED
    BY <2>1, <2>2, Zenon DEF Takes, Contains
<1>12. d \in [0..(c - 1) -> Seq(Items)]
  BY <1>7, Zenon DEF Dealt
<1> QED
  BY <1>6, <1>9, <1>10, <1>11, <1>12, Zenon

-----------------------------------------------------------------------------
\* Tables.

Table(t) == t = [bucket |-> t.bucket, count |-> t.count, mnNextResize |-> t.mnNextResize]

\* The items in c buckets b.
Held(b, c) == {m \in Items : \E i \in 0..(c - 1) : Contains(b[i], m)}

\* A table of c buckets.
Formed(t, c) ==
  /\ Table(t) /\ c \in Nat \ {0}
  /\ t.bucket \in [0..(c - 1) -> Seq(Items)] /\ Placed(t.bucket, c)
  /\ t.mnNextResize \in Nat /\ t.count = Cardinality(Held(t.bucket, c))
  /\ c = 1 => t.mnNextResize = 0 /\ t.bucket[0] = <<>>

Sound(t) == \E c : Formed(t, c)
HeldBy(t) == Held(t.bucket, Count(t))

\* The updates of one and two fields.
LEMMA Updates ==
  ASSUME NEW t, Table(t)
  PROVE  /\ \A x : [t EXCEPT !.bucket = x] = [bucket |-> x, count |-> t.count, mnNextResize |-> t.mnNextResize]
         /\ \A x : [t EXCEPT !.mnNextResize = x] = [bucket |-> t.bucket, count |-> t.count, mnNextResize |-> x]
         /\ \A x, y : [t EXCEPT !.bucket = x, !.count = y] = [bucket |-> x, count |-> y, mnNextResize |-> t.mnNextResize]
         /\ \A i, x, y : [t EXCEPT !.bucket[i] = x, !.count = y] = [t EXCEPT !.bucket = [t.bucket EXCEPT ![i] = x], !.count = y]
<1>1. PICK b, n, r : b = t.bucket /\ n = t.count /\ r = t.mnNextResize
  OBVIOUS
<1>2. t = [bucket |-> b, count |-> n, mnNextResize |-> r]
  BY <1>1 DEF Table
<1>3. ASSUME NEW x PROVE [t EXCEPT !.bucket = x] = [bucket |-> x, count |-> n, mnNextResize |-> r]
  BY <1>2
<1>4. ASSUME NEW x PROVE [t EXCEPT !.mnNextResize = x] = [bucket |-> b, count |-> n, mnNextResize |-> x]
  BY <1>2
<1>5. ASSUME NEW x, NEW y PROVE [t EXCEPT !.bucket = x, !.count = y] = [bucket |-> x, count |-> y, mnNextResize |-> r]
  <2>1. PICK u : u = [t EXCEPT !.bucket = x, !.count = y]
    OBVIOUS
  <2>2. DOMAIN u = {"bucket", "count", "mnNextResize"} /\ u.bucket = x /\ u.count = y /\ u.mnNextResize = r
    BY <1>2, <2>1
  <2>3. u = [f \in {"bucket", "count", "mnNextResize"} |-> u[f]]
    BY <1>2, <2>1
  <2>4. u = [bucket |-> x, count |-> y, mnNextResize |-> r]
    BY <2>2, <2>3
  <2> QED
    BY <2>1, <2>4
<1>6. ASSUME NEW i, NEW x, NEW y
      PROVE  [t EXCEPT !.bucket[i] = x, !.count = y] = [t EXCEPT !.bucket = [t.bucket EXCEPT ![i] = x], !.count = y]
  BY <1>2
<1> QED
  BY <1>1, <1>3, <1>4, <1>5, <1>6, Zenon

\* The fields of a table.
LEMMA TableFields ==
  ASSUME NEW u, NEW b, NEW n, NEW r, u = [bucket |-> b, count |-> n, mnNextResize |-> r]
  PROVE  Table(u) /\ u.bucket = b /\ u.count = n /\ u.mnNextResize = r
  BY DEF Table

\* The items are finitely many numbers.
LEMMA ItemsFinite ==
  /\ IsFiniteSet(Items) /\ Cardinality(Items) = ItemCount /\ ItemCount \in Nat
  /\ \A i \in Items : i \in Nat
<1>1. ItemCount \in Nat
  BY PrimesSuffice
<1>2. IsFiniteSet(1..ItemCount) /\ Cardinality(1..ItemCount) = IF 1 > ItemCount THEN 0 ELSE ItemCount - 1 + 1
  BY <1>1, FS_Interval
<1>3. Cardinality(1..ItemCount) = ItemCount
  BY <1>1, <1>2
<1> QED
  BY <1>1, <1>2, <1>3 DEF Items

\* So are those of any buckets.
LEMMA HeldFinite ==
  ASSUME NEW b, NEW c
  PROVE  /\ Held(b, c) \subseteq Items /\ IsFiniteSet(Held(b, c))
         /\ Cardinality(Held(b, c)) \in Nat /\ Cardinality(Held(b, c)) <= ItemCount
<1>1. Held(b, c) \in SUBSET Items
  BY DEF Held
<1>2. IsFiniteSet(Held(b, c)) /\ Cardinality(Held(b, c)) <= ItemCount
  BY <1>1, ItemsFinite, FS_Subset
<1> QED
  BY <1>1, <1>2, FS_CardinalityType

\* The number of buckets, the walk and the members of a table.
LEMMA CountIs ==
  ASSUME NEW t, NEW c, Formed(t, c)
  PROVE  Count(t) = c /\ HeldBy(t) = Held(t.bucket, c)
<1>1. DOMAIN t.bucket = 0..(c - 1) /\ c \in Nat \ {0}
  BY DEF Formed
<1>2. Cardinality(0..(c - 1)) = IF 0 > c - 1 THEN 0 ELSE (c - 1) - 0 + 1
  BY <1>1, FS_Interval
<1>3. Count(t) = c
  BY <1>1, <1>2 DEF Count
<1> QED
  BY <1>3, Zenon DEF HeldBy

\* A sound table is formed of its own number of buckets.
LEMMA SoundFormed ==
  ASSUME NEW t, Sound(t)
  PROVE  Formed(t, Count(t)) /\ HeldBy(t) \subseteq Items
<1>1. PICK c : Formed(t, c)
  BY DEF Sound
<1>2. Count(t) = c
  BY <1>1, CountIs
<1> QED
  BY <1>1, <1>2, HeldFinite, Zenon DEF HeldBy

\* The walk through a table meets what its buckets hold.
LEMMA WalkIs ==
  ASSUME NEW t, NEW c, Formed(t, c)
  PROVE  Walks(Walk(t), t.bucket, c)
<1>1. Count(t) = c
  BY CountIs
<1>2. c \in Nat \ {0} /\ Placed(t.bucket, c)
  BY DEF Formed
<1>3. Walks(FlattenSeq([i \in 1..c |-> t.bucket[i - 1]]), t.bucket, c)
  BY <1>2, FlattenWalks
<1> QED
  BY <1>1, <1>3, Zenon DEF Walk

\* An item is held when it is in the bucket of its hash.
LEMMA HeldInItsBucket ==
  ASSUME NEW t, NEW c, Formed(t, c), NEW m \in Items
  PROVE  m \in HeldBy(t) <=> Contains(Bucket(t, m), m)
<1>1. Count(t) = c /\ HeldBy(t) = Held(t.bucket, c) /\ c \in Nat \ {0}
  BY CountIs DEF Formed
<1>2. bucket_index(m, c) \in 0..(c - 1)
  BY <1>1, IndexInRange
<1>3. Bucket(t, m) = t.bucket[bucket_index(m, c)]
  BY <1>1, Zenon DEF Bucket
<1>4. ASSUME NEW i \in 0..(c - 1), Contains(t.bucket[i], m) PROVE i = bucket_index(m, c)
  <2>1. PICK q \in 1..Len(t.bucket[i]) : t.bucket[i][q] = m
    BY <1>4, Zenon DEF Contains
  <2> QED
    BY <2>1, Zenon DEF Formed, Placed
<1> QED
  BY <1>1, <1>2, <1>3, <1>4, Zenon DEF Held

\* The length of a list without repetitions.
LEMMA LengthIsCardinality ==
  ASSUME NEW w, Tidy(w), NEW T, \A m : Contains(w, m) <=> m \in T
  PROVE  Len(w) = Cardinality(T)
<1>1. w \in Seq(Items) /\ Len(w) \in Nat /\ \A i, j \in 1..Len(w) : i < j => w[i] # w[j]
  BY DEF Tidy
<1>2. w \in [1..Len(w) -> T]
  <2>1. DOMAIN w = 1..Len(w) /\ w = [i \in 1..Len(w) |-> w[i]]
    BY <1>1
  <2>2. \A i \in 1..Len(w) : w[i] \in T
    BY Zenon DEF Contains
  <2> QED
    BY <2>1, <2>2
<1>3. \A i, j \in 1..Len(w) : w[i] = w[j] => i = j
  BY <1>1
<1>4. \A m \in T : \E i \in 1..Len(w) : w[i] = m
  BY Zenon DEF Contains
<1>5. w \in Bijection(1..Len(w), T)
  BY <1>2, <1>3, <1>4 DEF Bijection, Injection, Surjection, IsInjective
<1>6. IsFiniteSet(1..Len(w)) /\ Cardinality(1..Len(w)) = Len(w)
  <2>1. IsFiniteSet(1..Len(w)) /\ Cardinality(1..Len(w)) = IF 1 > Len(w) THEN 0 ELSE Len(w) - 1 + 1
    BY <1>1, FS_Interval
  <2> QED
    BY <1>1, <2>1
<1>7. ExistsBijection(1..Len(w), T)
  BY <1>5 DEF ExistsBijection
<1> QED
  BY <1>6, <1>7, FS_Bijection

\* The members of a sound table are the items its buckets hold, each once.
LEMMA MembersAre ==
  ASSUME NEW t, Sound(t)
  PROVE  Range(Walk(t)) = HeldBy(t) /\ Len(Walk(t)) = Cardinality(HeldBy(t))
<1>1. PICK c : Formed(t, c)
  BY DEF Sound
<1>2. PICK w : w = Walk(t)
  OBVIOUS
<1>3. Walks(w, t.bucket, c) /\ HeldBy(t) = Held(t.bucket, c)
  BY <1>1, <1>2, WalkIs, CountIs
<1>4. w \in Seq(Items) /\ \A p \in 1..Len(w) : w[p] \in Items
  BY <1>3 DEF Walks, Tidy
<1>5. \A m : Contains(w, m) <=> m \in HeldBy(t)
  <2>1. \A m : Contains(w, m) => m \in Items
    BY <1>4, Zenon DEF Contains
  <2> QED
    BY <1>3, <2>1, Zenon DEF Walks, Held
<1>6. Len(w) = Cardinality(HeldBy(t))
  BY <1>3, <1>5, LengthIsCardinality DEF Walks
<1>7. Range(w) = HeldBy(t)
  <2>1. DOMAIN w = 1..Len(w)
    BY <1>4
  <2>2. \A m : m \in Range(w) <=> Contains(w, m)
    BY <2>1, Zenon DEF Range, Contains
  <2> QED
    BY <1>5, <2>2
<1> QED
  BY <1>2, <1>6, <1>7, Zenon

\* A table of these parts.
Fits(b, r, c) ==
  /\ c \in Nat \ {0} /\ b \in [0..(c - 1) -> Seq(Items)] /\ Placed(b, c) /\ r \in Nat
  /\ c = 1 => r = 0 /\ b[0] = <<>>

\* Buckets that fit make a table that is formed.
LEMMA FormedOf ==
  ASSUME NEW b, NEW r, NEW c, Fits(b, r, c),
         NEW u, u = [bucket |-> b, count |-> Cardinality(Held(b, c)), mnNextResize |-> r]
  PROVE  Formed(u, c) /\ HeldBy(u) = Held(b, c)
<1>1. Table(u) /\ u.bucket = b /\ u.count = Cardinality(Held(b, c)) /\ u.mnNextResize = r
  BY TableFields, Zenon
<1>2. Formed(u, c)
  BY <1>1, Zenon DEF Formed, Fits
<1> QED
  BY <1>1, <1>2, CountIs, Zenon

\* One bucket replaced.
Replaces(l, x, S, t, c) ==
  /\ Tidy(l) /\ \A q \in 1..Len(l) : bucket_index(l[q], c) = x
  /\ S \subseteq Items
  /\ \A m \in Items : m \in S <=> IF bucket_index(m, c) = x THEN Contains(l, m) ELSE m \in HeldBy(t)

WithBucket(t, x, l, S) == [t EXCEPT !.bucket[x] = l, !.count = Cardinality(S)]

\* A table with one bucket replaced by a list of its items.
LEMMA BucketReplaced ==
  ASSUME NEW t, NEW c, Formed(t, c), c # 1, NEW x \in 0..(c - 1),
         NEW l, NEW S, Replaces(l, x, S, t, c)
  PROVE  Formed(WithBucket(t, x, l, S), c) /\ HeldBy(WithBucket(t, x, l, S)) = S
<1>0. PICK u : u = WithBucket(t, x, l, S)
  OBVIOUS
<1>1. /\ Table(t) /\ c \in Nat \ {0} /\ t.bucket \in [0..(c - 1) -> Seq(Items)]
      /\ Placed(t.bucket, c) /\ t.mnNextResize \in Nat
  BY DEF Formed
<1>2. PICK b : b = [t.bucket EXCEPT ![x] = l]
  OBVIOUS
<1>3. l \in Seq(Items)
  BY DEF Tidy, Replaces
<1>4. b \in [0..(c - 1) -> Seq(Items)] /\ b[x] = l /\ \A i \in 0..(c - 1) : i # x => b[i] = t.bucket[i]
  BY <1>1, <1>2, <1>3
<1>5. Placed(b, c)
  <2>1. ASSUME NEW i \in 0..(c - 1) PROVE Tidy(b[i]) /\ \A q \in 1..Len(b[i]) : bucket_index(b[i][q], c) = i
    <3>1. CASE i = x
      BY <1>4, <3>1, Zenon DEF Replaces
    <3>2. CASE i # x
      BY <1>1, <1>4, <3>2, Zenon DEF Placed
    <3> QED
      BY <3>1, <3>2, Zenon
  <2> QED
    BY <2>1, Zenon DEF Placed
<1>6. Held(b, c) = S
  <2>1. ASSUME NEW m \in Items PROVE m \in Held(b, c) <=> m \in S
    <3>1. PICK y : y = bucket_index(m, c)
      OBVIOUS
    <3>2. y \in 0..(c - 1)
      BY <1>1, <3>1, IndexInRange, Zenon
    <3>3. ASSUME NEW i \in 0..(c - 1), Contains(b[i], m) PROVE i = y
      <4>1. PICK q \in 1..Len(b[i]) : b[i][q] = m
        BY <3>3, Zenon DEF Contains
      <4> QED
        BY <1>5, <3>1, <4>1, Zenon DEF Placed
    <3>4. m \in Held(b, c) <=> Contains(b[y], m)
      BY <3>2, <3>3, Zenon DEF Held
    <3>5. m \in HeldBy(t) <=> Contains(t.bucket[y], m)
      <4>1. Bucket(t, m) = t.bucket[y]
        BY <3>1, CountIs, Zenon DEF Bucket
      <4> QED
        BY <4>1, HeldInItsBucket, Zenon
    <3>6. CASE y = x
      BY <1>4, <3>1, <3>4, <3>6, Zenon DEF Replaces
    <3>7. CASE y # x
      BY <1>4, <3>1, <3>2, <3>4, <3>5, <3>7, Zenon DEF Replaces
    <3> QED
      BY <3>6, <3>7, Zenon
  <2>2. Held(b, c) \subseteq Items
    BY DEF Held
  <2>3. S \subseteq Items
    BY DEF Replaces
  <2> QED
    BY <2>1, <2>2, <2>3
<1>7. u = [bucket |-> b, count |-> Cardinality(S), mnNextResize |-> t.mnNextResize]
  <2>1. u = [t EXCEPT !.bucket[x] = l, !.count = Cardinality(S)]
    BY <1>0, Zenon DEF WithBucket
  <2>2. PICK k : k = Cardinality(S)
    OBVIOUS
  <2>3. [t EXCEPT !.bucket[x] = l, !.count = k] = [bucket |-> b, count |-> k, mnNextResize |-> t.mnNextResize]
    <3>1. [t EXCEPT !.bucket[x] = l, !.count = k] = [t EXCEPT !.bucket = [t.bucket EXCEPT ![x] = l], !.count = k]
      BY <1>1, Updates, Zenon
    <3>2. [t EXCEPT !.bucket = b, !.count = k] = [bucket |-> b, count |-> k, mnNextResize |-> t.mnNextResize]
      <4>1. PICK v : v = [t EXCEPT !.bucket = b, !.count = k]
        OBVIOUS
      <4>2. \A p, q : [t EXCEPT !.bucket = p, !.count = q] = [bucket |-> p, count |-> q, mnNextResize |-> t.mnNextResize]
        BY <1>1, Updates, Zenon
      <4>3. v = [bucket |-> b, count |-> k, mnNextResize |-> t.mnNextResize]
        BY <4>1, <4>2, Zenon
      <4> QED
        BY <4>1, <4>3, Zenon
    <3> QED
      BY <1>2, <3>1, <3>2, Zenon
  <2> QED
    BY <2>1, <2>2, <2>3, Zenon
<1> QED
  <2>1. c = 1 => t.mnNextResize = 0 /\ b[0] = <<>>
    OBVIOUS
  <2>2. Fits(b, t.mnNextResize, c)
    BY <1>1, <1>4, <1>5, <2>1, Zenon DEF Fits
  <2>3. Formed(u, c) /\ HeldBy(u) = Held(b, c)
    BY <1>6, <1>7, <2>2, FormedOf, Zenon
  <2> QED
    BY <1>0, <1>6, <2>3, Zenon

\* A bucket of a table, and its items.
BucketHolds(t, c, n, b) ==
  /\ Tidy(b) /\ bucket_index(n, c) \in 0..(c - 1) /\ b = t.bucket[bucket_index(n, c)]
  /\ \A q \in 1..Len(b) : bucket_index(b[q], c) = bucket_index(n, c) /\ b[q] \in HeldBy(t)
  /\ \A m \in Items : bucket_index(m, c) = bucket_index(n, c) => (m \in HeldBy(t) <=> Contains(b, m))

\* The bucket of an item of a formed table.
LEMMA BucketOf ==
  ASSUME NEW t, NEW c, Formed(t, c), NEW n \in Items, NEW b, b = Bucket(t, n)
  PROVE  BucketHolds(t, c, n, b)
<1>1. Count(t) = c /\ c \in Nat \ {0} /\ Placed(t.bucket, c)
  BY CountIs DEF Formed
<1>2. PICK x : x = bucket_index(n, c)
  OBVIOUS
<1>3. x \in 0..(c - 1) /\ b = t.bucket[x]
  BY <1>1, <1>2, IndexInRange, Zenon DEF Bucket
<1>4. Tidy(b) /\ \A q \in 1..Len(b) : bucket_index(b[q], c) = x
  BY <1>1, <1>3, Zenon DEF Placed
<1>5. ASSUME NEW m \in Items, bucket_index(m, c) = x PROVE m \in HeldBy(t) <=> Contains(b, m)
  <2>1. Bucket(t, m) = b
    BY <1>1, <1>3, <1>5, Zenon DEF Bucket
  <2> QED
    BY <2>1, HeldInItsBucket, Zenon
<1>6. ASSUME NEW q \in 1..Len(b) PROVE b[q] \in HeldBy(t)
  <2>1. b[q] \in Items
    BY <1>4 DEF Tidy
  <2>2. Contains(b, b[q])
    BY Zenon DEF Contains
  <2> QED
    BY <1>4, <1>5, <2>1, <2>2, Zenon
<1> QED
  BY <1>2, <1>3, <1>4, <1>5, <1>6, Zenon DEF BucketHolds

\* PutAt adds an item that is new, behind one of its key or in front.
LEMMA PutIn ==
  ASSUME NEW t, NEW c, Formed(t, c), c # 1, NEW n \in Items, n \notin HeldBy(t),
         NEW b, b = Bucket(t, n), NEW p \in 0..Len(b),
         IF p = 0 THEN \A i \in 1..Len(b) : ~SameKey(b[i], n) ELSE SameKey(b[p], n)
  PROVE  Formed(PutAt(t, n, p + 1), c) /\ HeldBy(PutAt(t, n, p + 1)) = HeldBy(t) \cup {n}
<1>1. PICK x, l, S : x = bucket_index(n, c) /\ l = InsertAt(b, p + 1, n) /\ S = HeldBy(t) \cup {n}
  OBVIOUS
<1>2. /\ Tidy(b) /\ x \in 0..(c - 1) /\ b = t.bucket[x]
      /\ \A q \in 1..Len(b) : bucket_index(b[q], c) = x /\ b[q] \in HeldBy(t)
      /\ \A m \in Items : bucket_index(m, c) = x => (m \in HeldBy(t) <=> Contains(b, m))
  <2>1. BucketHolds(t, c, n, b)
    BY BucketOf, Zenon
  <2> QED
    BY <1>1, <2>1, Zenon DEF BucketHolds
<1>3. \A i \in 1..Len(b) : b[i] # n
  BY <1>2, Zenon
<1>4. Tidy(l) /\ \A m : Contains(l, m) <=> Contains(b, m) \/ m = n
  BY <1>1, <1>2, <1>3, InsertedTidy, Zenon
<1>5. ASSUME NEW q \in 1..Len(l) PROVE bucket_index(l[q], c) = x
  <2>1. Contains(b, l[q]) \/ l[q] = n
    BY <1>4, Zenon DEF Contains
  <2> QED
    BY <1>1, <1>2, <2>1, Zenon DEF Contains
<1>6. S \subseteq Items /\ Cardinality(S) = t.count + 1
  <2>1. HeldBy(t) = Held(t.bucket, c) /\ t.count = Cardinality(Held(t.bucket, c))
    BY CountIs DEF Formed
  <2>2. IsFiniteSet(HeldBy(t)) /\ HeldBy(t) \subseteq Items
    BY <2>1, HeldFinite
  <2>3. Cardinality(HeldBy(t) \cup {n}) = Cardinality(HeldBy(t)) + 1
    BY <2>2, FS_AddElement
  <2> QED
    BY <1>1, <2>1, <2>2, <2>3
<1>7. ASSUME NEW m \in Items PROVE m \in S <=> IF bucket_index(m, c) = x THEN Contains(l, m) ELSE m \in HeldBy(t)
  <2>1. CASE bucket_index(m, c) = x
    <3>1. m \in S <=> m \in HeldBy(t) \/ m = n
      BY <1>1
    <3> QED
      BY <1>2, <1>4, <2>1, <3>1, Zenon
  <2>2. CASE bucket_index(m, c) # x
    <3>1. m # n
      BY <1>1, <2>2, Zenon
    <3>2. m \in S <=> m \in HeldBy(t)
      BY <1>1, <3>1
    <3> QED
      BY <2>2, <3>2, Zenon
  <2> QED
    BY <2>1, <2>2, Zenon
<1>8. PICK u : u = WithBucket(t, x, l, S)
  OBVIOUS
<1>9. PutAt(t, n, p + 1) = u
  <2>1. Count(t) = c
    BY CountIs
  <2>2. PutAt(t, n, p + 1) = [t EXCEPT !.bucket[x] = InsertAt(t.bucket[x], p + 1, n), !.count = t.count + 1]
    <3>1. PutAt(t, n, p + 1) = [t EXCEPT !.bucket[bucket_index(n, Count(t))] = InsertAt(t.bucket[bucket_index(n, Count(t))], p + 1, n), !.count = t.count + 1]
      BY DEF PutAt
    <3> QED
      BY <1>1, <2>1, <3>1, Zenon
  <2>3. u = [t EXCEPT !.bucket[x] = l, !.count = Cardinality(S)]
    BY <1>8 DEF WithBucket
  <2> QED
    BY <1>1, <1>2, <1>6, <2>2, <2>3, Zenon
<1>10. Formed(u, c) /\ HeldBy(u) = S
  <2>1. Replaces(l, x, S, t, c)
    BY <1>4, <1>5, <1>6, <1>7, Zenon DEF Replaces
  <2>2. Formed(WithBucket(t, x, l, S), c) /\ HeldBy(WithBucket(t, x, l, S)) = S
    BY <1>2, <2>1, BucketReplaced
  <2> QED
    BY <1>8, <2>2, Zenon
<1> QED
  BY <1>1, <1>9, <1>10, Zenon

\* DoFindNode finds the first item of a key.
LEMMA FindIs ==
  ASSUME NEW t, NEW c, Formed(t, c), NEW n \in Items, NEW b, b = Bucket(t, n), NEW p, p = DoFindNode(t, n)
  PROVE  /\ p \in 0..Len(b)
         /\ IF p = 0 THEN \A i \in 1..Len(b) : ~SameKey(b[i], n) ELSE SameKey(b[p], n)
         /\ \A i \in 1..Len(b) : SameKey(b[i], n) => p <= i
         /\ p = 0 <=> \A m \in HeldBy(t) : ~SameKey(m, n)
<1>1. /\ Tidy(b) /\ b \in Seq(Items) /\ Len(b) \in Nat /\ DOMAIN b = 1..Len(b)
      /\ \A q \in 1..Len(b) : bucket_index(b[q], c) = bucket_index(n, c) /\ b[q] \in HeldBy(t)
      /\ \A m \in Items : bucket_index(m, c) = bucket_index(n, c) => (m \in HeldBy(t) <=> Contains(b, m))
  <2>1. /\ Tidy(b)
        /\ \A q \in 1..Len(b) : bucket_index(b[q], c) = bucket_index(n, c) /\ b[q] \in HeldBy(t)
        /\ \A m \in Items : bucket_index(m, c) = bucket_index(n, c) => (m \in HeldBy(t) <=> Contains(b, m))
    <3>1. BucketHolds(t, c, n, b)
      BY BucketOf, Zenon
    <3> QED
      BY <3>1, Zenon DEF BucketHolds
  <2>2. b \in Seq(Items) /\ Len(b) \in Nat /\ DOMAIN b = 1..Len(b)
    BY <2>1 DEF Tidy
  <2> QED
    BY <2>1, <2>2
<1>2. PICK found : found = {i \in DOMAIN b : SameKey(b[i], n)}
  OBVIOUS
<1>3. p = IF found = {} THEN 0 ELSE Min(found)
  BY <1>2, Zenon DEF DoFindNode
<1>4. found \subseteq Nat /\ \A i : i \in found <=> i \in 1..Len(b) /\ SameKey(b[i], n)
  BY <1>1, <1>2
<1>5. found # {} => Min(found) \in found /\ \A i \in found : Min(found) <= i
  BY <1>4, MinIsLeast
<1>6. CASE found = {}
  <2>1. p = 0 /\ 0 \in 0..Len(b) /\ \A i \in 1..Len(b) : ~SameKey(b[i], n)
    BY <1>1, <1>3, <1>4, <1>6
  <2>2. ASSUME NEW m \in HeldBy(t), SameKey(m, n) PROVE FALSE
    <3>1. m \in Items
      BY HeldFinite, Zenon DEF HeldBy
    <3>2. Contains(b, m)
      <4>1. bucket_index(m, c) = bucket_index(n, c)
        BY <2>2, IndexOfKey, Zenon
      <4> QED
        BY <1>1, <2>2, <3>1, <4>1, Zenon
    <3> QED
      BY <2>1, <2>2, <3>2, Zenon DEF Contains
  <2> QED
    BY <2>1, <2>2, Zenon
<1>7. CASE found # {}
  <2>1. p \in 1..Len(b) /\ SameKey(b[p], n) /\ \A i \in 1..Len(b) : SameKey(b[i], n) => p <= i
    BY <1>3, <1>4, <1>5, <1>7, Zenon
  <2>2. p # 0 /\ p \in 0..Len(b)
    BY <1>1, <2>1
  <2> QED
    BY <1>1, <2>1, <2>2, Zenon
<1> QED
  BY <1>6, <1>7, Zenon

-----------------------------------------------------------------------------
\* Rehashing.

\* t with its walk dealt out to c buckets.
Rehashed(t, r, c) == [bucket |-> Distributed(Walk(t), c), count |-> t.count, mnNextResize |-> r]

\* The walk depends on the buckets only.
LEMMA WalkOfBuckets ==
  ASSUME NEW t, NEW u, u.bucket = t.bucket
  PROVE  Count(u) = Count(t) /\ Walk(u) = Walk(t)
<1>1. Count(u) = Count(t)
  BY Zenon DEF Count
<1>2. PICK b, c : b = t.bucket /\ c = Count(t)
  OBVIOUS
<1>3. Walk(t) = FlattenSeq([i \in 1..c |-> b[i - 1]])
  BY <1>2, Zenon DEF Walk
<1>4. Walk(u) = FlattenSeq([i \in 1..c |-> b[i - 1]])
  BY <1>1, <1>2, Zenon DEF Walk
<1> QED
  BY <1>1, <1>3, <1>4, Zenon

\* The walk and the buckets of a table do not depend on mnNextResize.
LEMMA ResizedIs ==
  ASSUME NEW t, Table(t), NEW r, NEW u, u = [t EXCEPT !.mnNextResize = r]
  PROVE  /\ Table(u) /\ u.bucket = t.bucket /\ u.count = t.count /\ u.mnNextResize = r
         /\ Count(u) = Count(t) /\ Walk(u) = Walk(t)
<1>1. u = [bucket |-> t.bucket, count |-> t.count, mnNextResize |-> r]
  BY Updates
<1>2. Table(u) /\ u.bucket = t.bucket /\ u.count = t.count /\ u.mnNextResize = r
  BY <1>1, TableFields
<1>3. Count(u) = Count(t) /\ Walk(u) = Walk(t)
  BY <1>2, WalkOfBuckets
<1> QED
  BY <1>2, <1>3, Zenon

\* DoRehash leaves mnElementCount and mnNextResize.
LEMMA DoRehashIs ==
  ASSUME NEW t, Table(t), NEW c
  PROVE  DoRehash(t, c) = Rehashed(t, t.mnNextResize, c)
<1>1. PICK d : d = Distributed(Walk(t), c)
  OBVIOUS
<1>2. [t EXCEPT !.bucket = d] = [bucket |-> d, count |-> t.count, mnNextResize |-> t.mnNextResize]
  BY Updates, Zenon
<1> QED
  BY <1>1, <1>2, Zenon DEF DoRehash, Rehashed

\* So it does with a new mnNextResize.
LEMMA ResizedRehashIs ==
  ASSUME NEW t, Table(t), NEW r, NEW c
  PROVE  DoRehash([t EXCEPT !.mnNextResize = r], c) = Rehashed(t, r, c)
<1>1. PICK u : u = [t EXCEPT !.mnNextResize = r]
  OBVIOUS
<1>2. Table(u) /\ u.count = t.count /\ u.mnNextResize = r /\ Walk(u) = Walk(t)
  BY <1>1, ResizedIs
<1>3. DoRehash(u, c) = Rehashed(u, u.mnNextResize, c)
  BY <1>2, DoRehashIs, Zenon
<1> QED
  BY <1>1, <1>2, <1>3, Zenon DEF Rehashed

\* A rehash to two buckets or more loses nothing.
LEMMA RehashSound ==
  ASSUME NEW t, NEW k, Formed(t, k), NEW r \in Nat, NEW c \in Nat \ {0, 1}
  PROVE  Formed(Rehashed(t, r, c), c) /\ HeldBy(Rehashed(t, r, c)) = HeldBy(t)
<1>1. PICK w, d : w = Walk(t) /\ d = Distributed(w, c)
  OBVIOUS
<1>2. Walks(w, t.bucket, k) /\ HeldBy(t) = Held(t.bucket, k) /\ t.count = Cardinality(Held(t.bucket, k))
  <2>1. t.count = Cardinality(Held(t.bucket, k))
    BY DEF Formed
  <2> QED
    BY <1>1, <2>1, WalkIs, CountIs, Zenon
<1>3. c \in Nat \ {0} /\ c # 1
  OBVIOUS
<1>4. /\ d \in [0..(c - 1) -> Seq(Items)] /\ Placed(d, c)
      /\ \A m : Contains(w, m) <=> \E i \in 0..(c - 1) : Contains(d[i], m)
  BY <1>1, <1>2, <1>3, DistributedPlaced, Zenon DEF Walks
<1>5. Held(d, c) = Held(t.bucket, k)
  BY <1>2, <1>4, Zenon DEF Held, Walks
<1>6. Fits(d, r, c)
  BY <1>3, <1>4, Zenon DEF Fits
<1>7. PICK u : u = [bucket |-> d, count |-> Cardinality(Held(d, c)), mnNextResize |-> r]
  OBVIOUS
<1>8. Formed(u, c) /\ HeldBy(u) = Held(d, c)
  BY <1>6, <1>7, FormedOf
<1>9. u = Rehashed(t, r, c)
  BY <1>1, <1>2, <1>5, <1>7, Zenon DEF Rehashed
<1> QED
  BY <1>2, <1>5, <1>8, <1>9, Zenon

\* Another mnNextResize, but for the table without memory only 0.
LEMMA ResizedSound ==
  ASSUME NEW t, NEW c, Formed(t, c), NEW r \in Nat, c = 1 => r = 0
  PROVE  Formed([t EXCEPT !.mnNextResize = r], c) /\ HeldBy([t EXCEPT !.mnNextResize = r]) = HeldBy(t)
<1>1. PICK u : u = [t EXCEPT !.mnNextResize = r]
  OBVIOUS
<1>2. Table(u) /\ u.bucket = t.bucket /\ u.count = t.count /\ u.mnNextResize = r
  <2>1. Table(t)
    BY DEF Formed
  <2> QED
    BY <1>1, <2>1, ResizedIs
<1>3. Formed(u, c)
  BY <1>2 DEF Formed
<1>4. HeldBy(u) = HeldBy(t)
  BY <1>2, Zenon DEF HeldBy, Count
<1> QED
  BY <1>1, <1>3, <1>4, Zenon

\* The primes reach as far as any table can ask for.
LEMMA AtLeastIs ==
  ASSUME NEW n \in Nat, n <= 2 * ItemCount + 2
  PROVE  AtLeast(n) \in Nat \ {0, 1} /\ AtLeast(n) >= n
<1>1. PICK T : T = {p \in gPrimeNumberArray : p >= n}
  OBVIOUS
<1>2. T \subseteq Nat \ {0, 1} /\ T # {} /\ \A p \in T : p >= n
  <2>1. ItemCount \in Nat /\ gPrimeNumberArray \subseteq Nat \ {0, 1}
    BY PrimesSuffice
  <2>2. PICK p \in gPrimeNumberArray : p >= 2 * ItemCount + 2
    BY PrimesSuffice
  <2>3. p >= n
    BY <2>1, <2>2
  <2> QED
    BY <1>1, <2>1, <2>2, <2>3
<1>3. T \subseteq Nat
  BY <1>2
<1>4. Min(T) \in T
  BY <1>2, <1>3, MinIsLeast
<1>5. AtLeast(n) = Min(T)
  BY <1>1, Zenon DEF AtLeast
<1> QED
  BY <1>2, <1>4, <1>5

\* g is t with memory.
Grown(g, t) == \E c : c # 1 /\ Formed(g, c) /\ HeldBy(g) = HeldBy(t)

\* Before an insertion there is room, and never in the bucket of all empty tables.
LEMMA GrownSound ==
  ASSUME NEW t, Sound(t), NEW more \in 1..2
  PROVE  Grown(RehashIfRequired(t, more), t)
<1>1. PICK c : Formed(t, c)
  BY DEF Sound
<1>2. /\ Table(t) /\ c \in Nat \ {0} /\ t.mnNextResize \in Nat /\ t.count \in Nat /\ t.count <= ItemCount
      /\ c = 1 => t.mnNextResize = 0
  BY <1>1, HeldFinite DEF Formed
<1>3. PICK items, buckets, prime :
        items = t.count + more /\ buckets = (IF c = 1 THEN 0 ELSE c) /\ prime = AtLeast(Max({items, 2 * buckets}))
  OBVIOUS
<1>4. Count(t) = c
  BY <1>1, CountIs
<1>5. RehashIfRequired(t, more) =
        CASE items <= t.mnNextResize -> t
          [] items > t.mnNextResize /\ items > buckets -> DoRehash([t EXCEPT !.mnNextResize = prime], prime)
          [] OTHER -> [t EXCEPT !.mnNextResize = buckets]
  BY <1>3, <1>4, Zenon DEF RehashIfRequired
<1>6. items \in Nat /\ buckets \in Nat /\ items >= 1 /\ items <= ItemCount + 2
  BY <1>2, <1>3, ItemsFinite
<1>0. items > t.mnNextResize <=> ~(items <= t.mnNextResize)
  BY <1>2, <1>6
<1>7. CASE items <= t.mnNextResize
  <2>1. RehashIfRequired(t, more) = t
    BY <1>0, <1>5, <1>7, Zenon
  <2>2. c # 1
    BY <1>2, <1>6, <1>7
  <2> QED
    BY <1>1, <2>1, <2>2, Zenon DEF Grown
<1>8. CASE ~(items <= t.mnNextResize) /\ items > buckets
  <2>1. items > t.mnNextResize
    BY <1>2, <1>6, <1>8
  <2>2. RehashIfRequired(t, more) = DoRehash([t EXCEPT !.mnNextResize = prime], prime)
    BY <1>5, <1>8, <2>1, Zenon
  <2>3. prime \in Nat \ {0, 1}
    <3>1. PICK x : x = Max({items, 2 * buckets})
      OBVIOUS
    <3>2. 2 * buckets \in Nat
      BY <1>6
    <3>3. x = IF items >= 2 * buckets THEN items ELSE 2 * buckets
      BY <1>6, <3>1, <3>2, MaxOfTwo
    <3>4. x \in Nat /\ x <= 2 * ItemCount + 2
      BY <1>6, <1>8, <3>3, ItemsFinite
    <3> QED
      BY <1>3, <3>1, <3>4, AtLeastIs
  <2>4. prime \in Nat /\ prime # 1
    BY <2>3
  <2>5. Formed(Rehashed(t, prime, prime), prime) /\ HeldBy(Rehashed(t, prime, prime)) = HeldBy(t)
    BY <1>1, <2>3, <2>4, RehashSound, Zenon
  <2>6. RehashIfRequired(t, more) = Rehashed(t, prime, prime)
    BY <1>2, <2>2, ResizedRehashIs, Zenon
  <2> QED
    BY <2>4, <2>5, <2>6, Zenon DEF Grown
<1>9. CASE ~(items <= t.mnNextResize) /\ ~(items > buckets)
  <2>1. c # 1 /\ buckets = c
    BY <1>3, <1>6, <1>9
  <2>2. RehashIfRequired(t, more) = [t EXCEPT !.mnNextResize = buckets]
    BY <1>0, <1>5, <1>9, Zenon
  <2>3. Formed([t EXCEPT !.mnNextResize = buckets], c) /\ HeldBy([t EXCEPT !.mnNextResize = buckets]) = HeldBy(t)
    BY <1>1, <1>6, <2>1, ResizedSound, Zenon
  <2> QED
    BY <2>1, <2>2, <2>3, Zenon DEF Grown
<1> QED
  BY <1>7, <1>8, <1>9

-----------------------------------------------------------------------------
\* Insertions.

\* g is a sound table of the items T.
SoundOf(g, T) == Sound(g) /\ HeldBy(g) = T

\* With unique keys, an item is its key.
LEMMA KeysUnique ==
  ASSUME uniqueKeys = TRUE
  PROVE  \A m, n : SameKey(m, n) => m = n
  BY DEF SameKey, Key

\* insert adds the item, unless one of its key is there and keys are unique.
LEMMA InsertSound ==
  ASSUME NEW t, Sound(t), NEW n \in Items, uniqueKeys \in BOOLEAN, uniqueKeys = FALSE => n \notin HeldBy(t)
  PROVE  SoundOf(DoInsertValue(t, n), HeldBy(t) \cup {n})
<1>1. PICK g, k : g = RehashIfRequired(t, 1) /\ Formed(t, k)
  BY DEF Sound
<1>2. PICK c : c # 1 /\ Formed(g, c) /\ HeldBy(g) = HeldBy(t)
  <2>1. 1 \in 1..2
    OBVIOUS
  <2>2. Grown(g, t)
    BY <1>1, <2>1, GrownSound, Zenon
  <2> QED
    BY <2>2, Zenon DEF Grown
<1>3. PICK b, p : b = Bucket(g, n) /\ p = DoFindNode(g, n)
  OBVIOUS
<1>4. /\ p \in 0..Len(b)
      /\ IF p = 0 THEN \A i \in 1..Len(b) : ~SameKey(b[i], n) ELSE SameKey(b[p], n)
      /\ p = 0 <=> \A m \in HeldBy(g) : ~SameKey(m, n)
  BY <1>2, <1>3, FindIs
<1>5. ASSUME n \notin HeldBy(t)
      PROVE  SoundOf(PutAt(g, n, p + 1), HeldBy(t) \cup {n})
  <2>1. Formed(PutAt(g, n, p + 1), c) /\ HeldBy(PutAt(g, n, p + 1)) = HeldBy(g) \cup {n}
    <3>1. n \notin HeldBy(g)
      BY <1>2, <1>5, Zenon
    <3>2. IF p = 0 THEN \A i \in 1..Len(b) : ~SameKey(b[i], n) ELSE SameKey(b[p], n)
      BY <1>4, Zenon
    <3> QED
      BY <1>2, <1>3, <1>4, <3>1, <3>2, PutIn
  <2> QED
    BY <1>2, <2>1, Zenon DEF SoundOf, Sound
<1>6. CASE uniqueKeys = TRUE /\ DoFindNode(t, n) # 0
  <2>1. DoInsertValue(t, n) = t
    BY <1>6, Zenon DEF DoInsertValue
  <2>2. PICK m \in HeldBy(t) : SameKey(m, n)
    BY <1>1, <1>6, FindIs
  <2>3. n \in HeldBy(t)
    BY <1>6, <2>2, KeysUnique
  <2>4. HeldBy(t) \cup {n} = HeldBy(t)
    BY <2>3
  <2> QED
    BY <2>1, <2>4, Zenon DEF SoundOf
<1>7. CASE uniqueKeys = TRUE /\ DoFindNode(t, n) = 0
  <2>1. DoInsertValue(t, n) = PutAt(g, n, 1)
    BY <1>1, <1>7, Zenon DEF DoInsertValue
  <2>2. \A m \in HeldBy(t) : ~SameKey(m, n)
    BY <1>1, <1>7, FindIs
  <2>3. p = 0
    BY <1>2, <1>4, <2>2, Zenon
  <2>4. n \notin HeldBy(t)
    BY <2>2, SameKeyIsEquality, Zenon
  <2>5. p + 1 = 1
    BY <2>3
  <2> QED
    BY <1>5, <2>1, <2>4, <2>5, Zenon
<1>8. CASE uniqueKeys = FALSE
  <2>1. DoInsertValue(t, n) = PutAt(g, n, p + 1)
    BY <1>1, <1>3, <1>8, Zenon DEF DoInsertValue
  <2> QED
    BY <1>5, <1>8, <2>1, Zenon
<1> QED
  BY <1>6, <1>7, <1>8

\* insert(first, last) adds both.
LEMMA InsertRangeSound ==
  ASSUME NEW t, Sound(t), NEW m \in Items, NEW n \in Items, m # n, uniqueKeys \in BOOLEAN,
         uniqueKeys = FALSE => m \notin HeldBy(t) /\ n \notin HeldBy(t)
  PROVE  SoundOf(InsertRange(t, m, n), (HeldBy(t) \cup {m}) \cup {n})
<1>1. PICK g, h : g = RehashIfRequired(t, 2) /\ h = DoInsertValue(g, m)
  OBVIOUS
<1>2. SoundOf(g, HeldBy(t))
  <2>1. 2 \in 1..2
    OBVIOUS
  <2>2. Grown(g, t)
    BY <1>1, <2>1, GrownSound, Zenon
  <2> QED
    BY <2>2, Zenon DEF Grown, SoundOf, Sound
<1>3. SoundOf(h, HeldBy(t) \cup {m})
  <2>1. Sound(g) /\ HeldBy(g) = HeldBy(t)
    BY <1>2, Zenon DEF SoundOf
  <2>2. SoundOf(DoInsertValue(g, m), HeldBy(g) \cup {m})
    BY <2>1, InsertSound
  <2> QED
    BY <1>1, <2>1, <2>2, Zenon
<1>4. SoundOf(DoInsertValue(h, n), HeldBy(h) \cup {n})
  <2>1. Sound(h) /\ HeldBy(h) = HeldBy(t) \cup {m}
    BY <1>3, Zenon DEF SoundOf
  <2>2. uniqueKeys = FALSE => n \notin HeldBy(h)
    BY <2>1
  <2> QED
    BY <2>1, <2>2, InsertSound
<1>5. InsertRange(t, m, n) = DoInsertValue(h, n)
  BY <1>1, Zenon DEF InsertRange
<1> QED
  BY <1>3, <1>4, <1>5, Zenon DEF SoundOf

-----------------------------------------------------------------------------
\* Erasures.

\* A table that holds an item has memory.
LEMMA HolderHasMemory ==
  ASSUME NEW t, NEW c, Formed(t, c), NEW n \in Items, NEW b, b = Bucket(t, n), b # <<>>
  PROVE  c # 1
<1>1. SUFFICES ASSUME c = 1 PROVE FALSE
  OBVIOUS
<1>2. b = t.bucket[bucket_index(n, c)] /\ bucket_index(n, c) \in 0..(c - 1)
  <2>1. BucketHolds(t, c, n, b)
    BY BucketOf, Zenon
  <2> QED
    BY <2>1, Zenon DEF BucketHolds
<1>3. bucket_index(n, c) = 0
  BY <1>1, <1>2
<1>4. t.bucket[0] = <<>>
  BY <1>1 DEF Formed
<1> QED
  BY <1>2, <1>3, <1>4, Zenon

\* The items of the cells from i to j - 1.
CellsOf(b, i, j) == {b[k] : k \in i..(j - 1)}

\* r lists T, each item once.
Lists(r, T) == r \in Seq(Items) /\ Len(r) = Cardinality(T) /\ \A m : Contains(r, m) <=> m \in T

\* A part of a tidy list lists the items of its cells, each once.
LEMMA CellsTidy ==
  ASSUME NEW b, Tidy(b), NEW i \in 1..Len(b), NEW j \in (i + 1)..(Len(b) + 1)
  PROVE  Lists(SubSeq(b, i, j - 1), CellsOf(b, i, j)) /\ Cardinality(CellsOf(b, i, j)) = j - i
<1>1. PICK s, f : s = SubSeq(b, i, j - 1) /\ f = [k \in 1..(j - i) |-> i + k - 1]
  OBVIOUS
<1>2. b \in Seq(Items) /\ Len(b) \in Nat
  BY DEF Tidy
<1>3. /\ i \in 1..(Len(b) + 1) /\ j - 1 \in (i - 1)..Len(b) /\ (j - 1) - i + 1 = j - i
      /\ \A k \in 1..(j - i) : i + k - 1 \in 1..Len(b) /\ i + k - 1 \in i..(j - 1)
      /\ \A p, q \in 1..(j - i) : p < q => i + p - 1 < i + q - 1
      /\ \A k \in i..(j - 1) : k - i + 1 \in 1..(j - i) /\ i + (k - i + 1) - 1 = k
  BY <1>2
<1>4. s \in Seq(Items) /\ Len(s) = j - i /\ \A k \in 1..(j - i) : s[k] = b[i + k - 1]
  <2>1. IsPart(s, b, i, j - 1)
    BY <1>1, <1>2, <1>3, Part, Zenon
  <2> QED
    BY <1>3, <2>1, Zenon DEF IsPart
<1>5. Picks(s, b, f)
  BY <1>1, <1>3, <1>4 DEF Picks
<1>6. Tidy(s)
  BY <1>4, <1>5, PickedTidy
<1>7. ASSUME NEW m PROVE Contains(s, m) <=> m \in CellsOf(b, i, j)
  <2>1. ASSUME Contains(s, m) PROVE m \in CellsOf(b, i, j)
    <3>1. PICK k \in 1..(j - i) : s[k] = m
      BY <1>4, <2>1, Zenon DEF Contains
    <3>2. m = b[i + k - 1] /\ i + k - 1 \in i..(j - 1)
      BY <1>3, <1>4, <3>1, Zenon
    <3> QED
      BY <3>2 DEF CellsOf
  <2>2. ASSUME m \in CellsOf(b, i, j) PROVE Contains(s, m)
    <3>1. PICK k \in i..(j - 1) : m = b[k]
      BY <2>2 DEF CellsOf
    <3>2. PICK y : y = k - i + 1
      OBVIOUS
    <3>3. y \in 1..(j - i) /\ i + y - 1 = k
      BY <1>3, <3>2, Zenon
    <3>4. s[y] = m
      BY <1>4, <3>1, <3>3, Zenon
    <3> QED
      BY <1>4, <3>3, <3>4, Zenon DEF Contains
  <2> QED
    BY <2>1, <2>2
<1>8. Len(s) = Cardinality(CellsOf(b, i, j))
  BY <1>6, <1>7, LengthIsCardinality
<1> QED
  BY <1>1, <1>4, <1>7, <1>8, Zenon DEF Lists

\* The table without the cells from i to j - 1 of n's bucket b.
WithoutCells(t, n, b, i, j) ==
  [t EXCEPT !.bucket[bucket_index(n, Count(t))] = Cut(b, i, j), !.count = t.count - (j - i)]

\* It is sound, and exactly the items of these cells are gone.
LEMMA CutOut ==
  ASSUME NEW t, NEW c, Formed(t, c), NEW n \in Items, NEW b, b = Bucket(t, n),
         NEW i \in 1..Len(b), NEW j \in (i + 1)..(Len(b) + 1)
  PROVE  SoundOf(WithoutCells(t, n, b, i, j), HeldBy(t) \ CellsOf(b, i, j))
<1>0. PICK R : R = {b[k] : k \in i..(j - 1)}
  OBVIOUS
<1>1. PICK x, l, S : x = bucket_index(n, c) /\ l = Cut(b, i, j) /\ S = HeldBy(t) \ R
  OBVIOUS
<1>2. /\ Tidy(b) /\ x \in 0..(c - 1) /\ b = t.bucket[x]
      /\ \A q \in 1..Len(b) : bucket_index(b[q], c) = x /\ b[q] \in HeldBy(t)
      /\ \A m \in Items : bucket_index(m, c) = x => (m \in HeldBy(t) <=> Contains(b, m))
  <2>1. BucketHolds(t, c, n, b)
    BY BucketOf, Zenon
  <2> QED
    BY <1>1, <2>1, Zenon DEF BucketHolds
<1>3. b \in Seq(Items) /\ Len(b) \in Nat /\ \A p, q \in 1..Len(b) : p < q => b[p] # b[q]
  BY <1>2 DEF Tidy
<1>4. \A k : k \in i..(j - 1) <=> k \in 1..Len(b) /\ i <= k /\ k < j
  BY <1>3
<1>5. Tidy(l) /\ \A m : Contains(l, m) <=> \E k \in 1..Len(b) : b[k] = m /\ ~(i <= k /\ k < j)
  <2>1. /\ Tidy(Cut(b, i, j))
        /\ \A m : Contains(Cut(b, i, j), m) <=> \E k \in 1..Len(b) : b[k] = m /\ ~(i <= k /\ k < j)
    <3>1. Tidy(b)
      BY <1>2, Zenon
    <3> QED
      BY <3>1, CutTidy, Zenon
  <2> QED
    BY <1>1, <2>1, Zenon
<1>6. \A m : Contains(l, m) <=> Contains(b, m) /\ m \notin R
  <2>1. ASSUME NEW m, Contains(l, m) PROVE Contains(b, m) /\ m \notin R
    <3>1. PICK k \in 1..Len(b) : b[k] = m /\ ~(i <= k /\ k < j)
      BY <1>5, <2>1
    <3>2. ASSUME m \in R PROVE FALSE
      <4>1. PICK p \in i..(j - 1) : b[p] = m
        BY <1>0, <3>2
      <4>2. p \in 1..Len(b) /\ p # k
        BY <1>4, <3>1, <4>1
      <4>3. p < k \/ k < p
        BY <1>3, <4>2
      <4> QED
        BY <1>3, <3>1, <4>1, <4>2, <4>3, Zenon
    <3> QED
      BY <3>1, <3>2, Zenon DEF Contains
  <2>2. ASSUME NEW m, Contains(b, m), m \notin R PROVE Contains(l, m)
    <3>1. PICK k \in 1..Len(b) : b[k] = m
      BY <2>2, Zenon DEF Contains
    <3>2. k \notin i..(j - 1)
      BY <1>0, <2>2, <3>1
    <3> QED
      BY <1>4, <1>5, <3>1, <3>2, Zenon
  <2> QED
    BY <2>1, <2>2, Zenon
<1>7. R \subseteq HeldBy(t) /\ IsFiniteSet(HeldBy(t)) /\ HeldBy(t) \subseteq Items /\ t.count = Cardinality(HeldBy(t))
  <2>1. HeldBy(t) = Held(t.bucket, c) /\ t.count = Cardinality(Held(t.bucket, c))
    BY CountIs DEF Formed
  <2>2. R \subseteq HeldBy(t)
    BY <1>0, <1>2, <1>4
  <2> QED
    BY <2>1, <2>2, HeldFinite
<1>8. Cardinality(R) = j - i
  BY <1>0, <1>2, CellsTidy DEF CellsOf
<1>9. Cardinality(S) = t.count - (j - i)
  <2>1. HeldBy(t) \cap R = R
    BY <1>7
  <2>2. Cardinality(HeldBy(t) \ R) = Cardinality(HeldBy(t)) - Cardinality(HeldBy(t) \cap R)
    BY <1>7, FS_Difference
  <2> QED
    BY <1>1, <1>7, <1>8, <2>1, <2>2
<1>10. Replaces(l, x, S, t, c)
  <2>1. ASSUME NEW q \in 1..Len(l) PROVE bucket_index(l[q], c) = x
    <3>1. Contains(b, l[q])
      BY <1>6, Zenon DEF Contains
    <3> QED
      BY <1>2, <3>1, Zenon DEF Contains
  <2>2. S \subseteq Items
    BY <1>1, <1>7
  <2>3. ASSUME NEW m \in Items PROVE m \in S <=> IF bucket_index(m, c) = x THEN Contains(l, m) ELSE m \in HeldBy(t)
    <3>1. m \in S <=> m \in HeldBy(t) /\ m \notin R
      BY <1>1
    <3>2. m \in R => bucket_index(m, c) = x
      BY <1>0, <1>2, <1>4
    <3> QED
      BY <1>2, <1>6, <3>1, <3>2, Zenon
  <2> QED
    BY <1>5, <2>1, <2>2, <2>3, Zenon DEF Replaces
<1>11. c # 1
  <2>1. b # <<>>
    BY <1>3
  <2> QED
    BY <2>1, HolderHasMemory
<1>12. Formed(WithBucket(t, x, l, S), c) /\ HeldBy(WithBucket(t, x, l, S)) = S
  BY <1>2, <1>10, <1>11, BucketReplaced
<1>13. WithBucket(t, x, l, S) = WithoutCells(t, n, b, i, j)
  <2>1. Count(t) = c
    BY CountIs
  <2>2. WithBucket(t, x, l, S) = [t EXCEPT !.bucket[x] = l, !.count = Cardinality(S)]
    BY DEF WithBucket
  <2> QED
    BY <1>1, <1>9, <2>1, <2>2, Zenon DEF WithoutCells
<1> QED
  BY <1>0, <1>1, <1>12, <1>13, Zenon DEF SoundOf, Sound, CellsOf

\* erase(iterator) removes the item.
LEMMA EraseNodeSound ==
  ASSUME NEW t, Sound(t), NEW n \in HeldBy(t)
  PROVE  SoundOf(EraseNode(t, n), HeldBy(t) \ {n})
<1>1. PICK c, b, i : Formed(t, c) /\ b = Bucket(t, n) /\ i = CHOOSE k \in DOMAIN b : b[k] = n
  BY DEF Sound
<1>2. n \in Items
  BY SoundFormed
<1>3. Contains(b, n)
  BY <1>1, <1>2, HeldInItsBucket
<1>4. b \in Seq(Items) /\ DOMAIN b = 1..Len(b) /\ Len(b) \in Nat
  <2>1. BucketHolds(t, c, n, b)
    BY <1>1, <1>2, BucketOf
  <2> QED
    BY <2>1 DEF BucketHolds, Tidy
<1>5. i \in 1..Len(b) /\ b[i] = n
  <2>1. \E k \in DOMAIN b : b[k] = n
    BY <1>3, <1>4, Zenon DEF Contains
  <2> QED
    BY <1>1, <1>4, <2>1, Zenon
<1>6. i + 1 \in (i + 1)..(Len(b) + 1) /\ i..((i + 1) - 1) = {i} /\ (i + 1) - i = 1
  BY <1>4, <1>5
<1>7. PICK u : u = WithoutCells(t, n, b, i, i + 1)
  OBVIOUS
<1>9. SoundOf(WithoutCells(t, n, b, i, i + 1), HeldBy(t) \ CellsOf(b, i, i + 1))
  BY <1>1, <1>2, <1>5, <1>6, CutOut, Zenon
<1>10. CellsOf(b, i, i + 1) = {n}
  BY <1>5, <1>6 DEF CellsOf
<1>11. EraseNode(t, n) = [t EXCEPT !.bucket[bucket_index(n, Count(t))] = Cut(b, i, i + 1), !.count = t.count - 1]
  BY <1>1, Zenon DEF EraseNode
<1> QED
  BY <1>6, <1>7, <1>9, <1>10, <1>11, Zenon DEF WithoutCells

\* The items of n's key in its bucket.
Runs(t, n, b, i, j) ==
  /\ i \in 1..Len(b) /\ j \in (i + 1)..(Len(b) + 1)
  /\ \A k \in 1..Len(b) : SameKey(b[k], n) <=> i <= k /\ k < j

\* From the first item of a key to RunEnd are the items of the key.
LEMMA RunEndIs ==
  ASSUME NEW t, NEW c, Formed(t, c), NEW n \in Items, DoFindNode(t, n) # 0
  PROVE  Runs(t, n, Bucket(t, n), DoFindNode(t, n), RunEnd(t, n))
<1>1. PICK b, i, j : b = Bucket(t, n) /\ i = DoFindNode(t, n) /\ j = RunEnd(t, n)
  OBVIOUS
<1>2. Tidy(b) /\ Len(b) \in Nat
  <2>1. BucketHolds(t, c, n, b)
    BY <1>1, BucketOf
  <2> QED
    BY <2>1 DEF BucketHolds, Tidy
<1>3. i \in 1..Len(b) /\ SameKey(b[i], n) /\ \A k \in 1..Len(b) : SameKey(b[k], n) => i <= k
  <2>1. /\ i \in 0..Len(b)
        /\ IF i = 0 THEN \A k \in 1..Len(b) : ~SameKey(b[k], n) ELSE SameKey(b[i], n)
        /\ \A k \in 1..Len(b) : SameKey(b[k], n) => i <= k
    BY <1>1, FindIs
  <2>2. i # 0
    BY <1>1
  <2>3. i \in 1..Len(b)
    BY <1>2, <2>1, <2>2
  <2> QED
    BY <2>1, <2>2, <2>3, Zenon
<1>4. PICK T : T = {k \in i..Len(b) : ~SameKey(b[k], n)} \cup {Len(b) + 1}
  OBVIOUS
<1>5. j = Min(T)
  BY <1>1, <1>4, Zenon DEF RunEnd
<1>6. T \subseteq Nat /\ T # {}
  BY <1>2, <1>3, <1>4
<1>7. j \in T /\ \A k \in T : j <= k
  BY <1>5, <1>6, MinIsLeast
<1>8. j \in (i + 1)..(Len(b) + 1)
  <2>1. i \notin T
    BY <1>2, <1>3, <1>4
  <2>2. j \in i..(Len(b) + 1) /\ j # i
    BY <1>2, <1>3, <1>4, <1>7, <2>1
  <2> QED
    BY <1>2, <1>3, <2>2
<1>9. \A p, q, r \in 1..Len(b) : p < q /\ q < r /\ SameKey(b[p], b[r]) => SameKey(b[p], b[q])
  BY <1>2 DEF Tidy
<1>10. ASSUME NEW k \in 1..Len(b), SameKey(b[k], n) PROVE i <= k /\ k < j
  <2>1. i <= k
    BY <1>3, <1>10
  <2>2. ASSUME ~(k < j) PROVE FALSE
    <3>1. j \in i..Len(b) /\ j \in 1..Len(b) /\ i < j /\ j <= k
      BY <1>2, <1>3, <1>8, <2>2
    <3>2. ~SameKey(b[j], n)
      BY <1>2, <1>4, <1>7, <3>1
    <3>3. j < k
      <4>1. j # k
        BY <1>10, <3>2
      <4> QED
        BY <3>1, <4>1
    <3>4. SameKey(b[i], b[k])
      BY <1>3, <1>10, SameKeyIsEquality, Zenon
    <3>5. SameKey(b[i], b[j])
      BY <1>3, <1>9, <3>1, <3>3, <3>4, Zenon
    <3> QED
      BY <1>3, <3>2, <3>5, SameKeyIsEquality, Zenon
  <2> QED
    BY <2>1, <2>2
<1>11. ASSUME NEW k \in 1..Len(b), i <= k, k < j PROVE SameKey(b[k], n)
  <2>1. k \notin T
    <3>1. ~(j <= k)
      BY <1>2, <1>3, <1>8, <1>11
    <3> QED
      BY <1>7, <3>1
  <2>2. k \in i..Len(b)
    BY <1>2, <1>3, <1>11
  <2> QED
    BY <1>4, <2>1, <2>2
<1> QED
  BY <1>1, <1>3, <1>8, <1>10, <1>11, Zenon DEF Runs

\* All items of n's key are in the run.
LEMMA RunHolds ==
  ASSUME NEW t, NEW c, Formed(t, c), NEW n \in Items, NEW b, b = Bucket(t, n), NEW i, NEW j, Runs(t, n, b, i, j)
  PROVE  CellsOf(b, i, j) = {m \in HeldBy(t) : SameKey(m, n)}
<1>1. BucketHolds(t, c, n, b)
  BY BucketOf
<1>2. /\ Len(b) \in Nat /\ \A q \in 1..Len(b) : b[q] \in HeldBy(t)
      /\ \A m \in Items : bucket_index(m, c) = bucket_index(n, c) => (m \in HeldBy(t) <=> Contains(b, m))
  BY <1>1 DEF BucketHolds, Tidy
<1>3. \A k : k \in i..(j - 1) <=> k \in 1..Len(b) /\ SameKey(b[k], n)
  <2>1. /\ i \in 1..Len(b) /\ j \in (i + 1)..(Len(b) + 1)
        /\ \A k \in 1..Len(b) : SameKey(b[k], n) <=> i <= k /\ k < j
    BY DEF Runs
  <2>2. \A k : k \in i..(j - 1) <=> k \in 1..Len(b) /\ i <= k /\ k < j
    BY <1>2, <2>1
  <2> QED
    BY <2>1, <2>2
<1>4. ASSUME NEW m \in HeldBy(t), SameKey(m, n) PROVE \E k \in i..(j - 1) : m = b[k]
  <2>1. m \in Items
    BY SoundFormed DEF Sound
  <2>2. bucket_index(m, c) = bucket_index(n, c)
    BY <1>4, IndexOfKey, Zenon
  <2>3. PICK k \in 1..Len(b) : b[k] = m
    BY <1>2, <1>4, <2>1, <2>2, Zenon DEF Contains
  <2> QED
    BY <1>3, <1>4, <2>3
<1> QED
  BY <1>2, <1>3, <1>4 DEF CellsOf

\* erase(key) removes the items of the key and counts them.
LEMMA EraseKeySound ==
  ASSUME NEW t, Sound(t), NEW n \in Items
  PROVE  SoundOf(EraseKey(t, n), HeldBy(t) \ {m \in HeldBy(t) : SameKey(m, n)})
<1>1. PICK c, b, i, j : Formed(t, c) /\ b = Bucket(t, n) /\ i = DoFindNode(t, n) /\ j = RunEnd(t, n)
  BY DEF Sound
<1>2. CASE i = 0
  <2>1. EraseKey(t, n) = t
    BY <1>1, <1>2, Zenon DEF EraseKey
  <2>2. \A m \in HeldBy(t) : ~SameKey(m, n)
    BY <1>1, <1>2, FindIs
  <2>3. HeldBy(t) \ {m \in HeldBy(t) : SameKey(m, n)} = HeldBy(t)
    BY <2>2
  <2> QED
    BY <2>1, <2>3, Zenon DEF SoundOf
<1>3. CASE i # 0
  <2>1. Runs(t, n, b, i, j)
    BY <1>1, <1>3, RunEndIs
  <2>3. CellsOf(b, i, j) = {m \in HeldBy(t) : SameKey(m, n)}
    BY <1>1, <2>1, RunHolds
  <2>4. PICK u : u = WithoutCells(t, n, b, i, j)
    OBVIOUS
  <2>5. i \in 1..Len(b) /\ j \in (i + 1)..(Len(b) + 1)
    BY <2>1 DEF Runs
  <2>6. SoundOf(WithoutCells(t, n, b, i, j), HeldBy(t) \ CellsOf(b, i, j))
    BY <1>1, <2>5, CutOut, Zenon
  <2>7. EraseKey(t, n) = u
    <3>1. EraseKey(t, n) = [t EXCEPT !.bucket[bucket_index(n, Count(t))] = Cut(t.bucket[bucket_index(n, Count(t))], i, j), !.count = t.count - (j - i)]
      BY <1>1, <1>3, Zenon DEF EraseKey
    <3>2. b = t.bucket[bucket_index(n, Count(t))]
      BY <1>1, Zenon DEF Bucket
    <3> QED
      BY <2>4, <3>1, <3>2, Zenon DEF WithoutCells
  <2> QED
    BY <2>3, <2>4, <2>6, <2>7, Zenon
<1> QED
  BY <1>2, <1>3

-----------------------------------------------------------------------------
\* The other calls.

\* c empty buckets.
LEMMA EmptyFits ==
  ASSUME NEW c \in Nat \ {0}, NEW b, b = [i \in 0..(c - 1) |-> <<>>], NEW r \in Nat, c = 1 => r = 0
  PROVE  Fits(b, r, c) /\ Held(b, c) = {}
<1>1. b \in [0..(c - 1) -> Seq(Items)] /\ \A i \in 0..(c - 1) : b[i] = <<>> /\ 1..Len(b[i]) = {}
  OBVIOUS
<1>2. Tidy(<<>>)
  <2>1. <<>> \in Seq(Items) /\ 1..Len(<<>>) = {}
    OBVIOUS
  <2> QED
    BY <2>1, Zenon DEF Tidy
<1>3. Placed(b, c)
  BY <1>1, <1>2, Zenon DEF Placed
<1>4. Held(b, c) = {}
  BY <1>1, Zenon DEF Held, Contains
<1>5. c = 1 => b[0] = <<>>
  BY <1>1
<1> QED
  BY <1>1, <1>3, <1>4, <1>5, Zenon DEF Fits

\* A table of empty buckets is sound.
LEMMA EmptySound ==
  ASSUME NEW c \in Nat \ {0}, NEW b, b = [i \in 0..(c - 1) |-> <<>>], NEW r \in Nat, c = 1 => r = 0,
         NEW u, u = [bucket |-> b, count |-> 0, mnNextResize |-> r]
  PROVE  SoundOf(u, {})
<1>1. Fits(b, r, c) /\ Held(b, c) = {}
  BY EmptyFits
<1>2. Cardinality(Held(b, c)) = 0
  BY <1>1, FS_EmptySet
<1>3. Formed(u, c) /\ HeldBy(u) = Held(b, c)
  BY <1>1, <1>2, FormedOf
<1> QED
  BY <1>1, <1>3, Zenon DEF SoundOf, Sound

\* So is the one without memory.
LEMMA ForgetSound ==
  SoundOf([bucket |-> gpEmptyBucketArray, count |-> 0, mnNextResize |-> 0], {})
<1>1. gpEmptyBucketArray = [i \in 0..(1 - 1) |-> <<>>]
  <2>1. 0..(1 - 1) = {0}
    OBVIOUS
  <2> QED
    BY <2>1 DEF gpEmptyBucketArray
<1>2. PICK u : u = [bucket |-> gpEmptyBucketArray, count |-> 0, mnNextResize |-> 0]
  OBVIOUS
<1>3. SoundOf(u, {})
  <2>1. PICK b : b = [i \in 0..(1 - 1) |-> <<>>]
    OBVIOUS
  <2>2. u = [bucket |-> b, count |-> 0, mnNextResize |-> 0]
    BY <1>1, <1>2, <2>1, Zenon
  <2>3. 1 \in Nat \ {0} /\ 0 \in Nat /\ (1 = 1 => 0 = 0)
    OBVIOUS
  <2> QED
    BY <2>1, <2>2, <2>3, EmptySound
<1> QED
  BY <1>2, <1>3, Zenon

\* clear removes all.
LEMMA ClearSound ==
  ASSUME NEW t, Sound(t)
  PROVE  SoundOf(ClearTable(t), {})
<1>1. PICK c, b : Formed(t, c) /\ b = [i \in DOMAIN t.bucket |-> <<>>]
  BY DEF Sound
<1>2. /\ Table(t) /\ c \in Nat \ {0} /\ DOMAIN t.bucket = 0..(c - 1) /\ t.mnNextResize \in Nat
      /\ c = 1 => t.mnNextResize = 0
  BY <1>1 DEF Formed
<1>3. PICK u : u = [bucket |-> b, count |-> 0, mnNextResize |-> t.mnNextResize]
  OBVIOUS
<1>4. ClearTable(t) = [t EXCEPT !.bucket = b, !.count = 0]
  BY <1>1, Zenon DEF ClearTable
<1>5. \A p, q : [t EXCEPT !.bucket = p, !.count = q] = [bucket |-> p, count |-> q, mnNextResize |-> t.mnNextResize]
  BY <1>2, Updates, Zenon
<1>6. ClearTable(t) = u
  BY <1>3, <1>4, <1>5, Zenon
<1>7. b = [i \in 0..(c - 1) |-> <<>>]
  BY <1>1, <1>2, Zenon
<1>8. SoundOf(u, {})
  BY <1>2, <1>3, <1>7, EmptySound
<1> QED
  BY <1>6, <1>8, Zenon

\* DoRehash, with a new mnNextResize or not, moves the items and loses none.
LEMMA RehashesSound ==
  ASSUME NEW t, Sound(t)
  PROVE  /\ \A c \in Nat \ {0, 1} : SoundOf(DoRehash(t, c), HeldBy(t))
         /\ \A r \in Nat, c \in Nat \ {0, 1} : SoundOf(DoRehash([t EXCEPT !.mnNextResize = r], c), HeldBy(t))
<1>1. PICK k : Formed(t, k)
  BY DEF Sound
<1>2. Table(t) /\ t.mnNextResize \in Nat
  BY <1>1 DEF Formed
<1>3. ASSUME NEW r \in Nat, NEW c \in Nat \ {0, 1} PROVE SoundOf(Rehashed(t, r, c), HeldBy(t))
  BY <1>1, RehashSound, Zenon DEF SoundOf, Sound
<1>4. ASSUME NEW c \in Nat \ {0, 1} PROVE SoundOf(DoRehash(t, c), HeldBy(t))
  <2>1. DoRehash(t, c) = Rehashed(t, t.mnNextResize, c)
    BY <1>2, DoRehashIs, Zenon
  <2> QED
    BY <1>2, <1>3, <2>1, Zenon
<1>5. ASSUME NEW r \in Nat, NEW c \in Nat \ {0, 1} PROVE SoundOf(DoRehash([t EXCEPT !.mnNextResize = r], c), HeldBy(t))
  <2>1. DoRehash([t EXCEPT !.mnNextResize = r], c) = Rehashed(t, r, c)
    BY <1>2, ResizedRehashIs, Zenon
  <2> QED
    BY <1>3, <2>1, Zenon
<1> QED
  BY <1>4, <1>5, Zenon

\* reserve and rehash keep the items, whatever the number asked for.
LEMMA ReserveSound ==
  ASSUME NEW t, Sound(t), NEW n \in 0..ItemCount
  PROVE  SoundOf(Reserve(t, n), HeldBy(t))
<1>1. AtLeast(n) \in Nat \ {0, 1}
  <2>1. n \in Nat /\ n <= 2 * ItemCount + 2
    BY ItemsFinite
  <2> QED
    BY <2>1, AtLeastIs
<1>2. PICK p : p = AtLeast(n)
  OBVIOUS
<1>3. p \in Nat
  BY <1>1, <1>2
<1>4. SoundOf(DoRehash([t EXCEPT !.mnNextResize = p], p), HeldBy(t))
  BY <1>1, <1>2, <1>3, RehashesSound, Zenon
<1> QED
  BY <1>2, <1>4, Zenon DEF Reserve

\* rehash_policy keeps them, whatever limit the policy comes with: the table without
\* memory, whose limit must be 0, is rehashed at once.
LEMMA SetPolicySound ==
  ASSUME NEW t, Sound(t), NEW limit \in Nat
  PROVE  SoundOf(SetPolicy(t, limit), HeldBy(t))
<1>1. PICK c, s, p : Formed(t, c) /\ s = [t EXCEPT !.mnNextResize = limit] /\ p = AtLeast(t.count)
  BY DEF Sound
<1>2. Table(t) /\ c \in Nat \ {0} /\ t.count \in Nat /\ t.count <= ItemCount
  BY <1>1, HeldFinite DEF Formed
<1>3. s.count = t.count /\ Count(s) = Count(t)
  BY <1>1, <1>2, ResizedIs, Zenon
<1>4. Count(s) = c
  BY <1>1, <1>3, CountIs, Zenon
<1>5. SetPolicy(t, limit) = IF p > c THEN DoRehash(s, p) ELSE s
  <2>1. SetPolicy(t, limit) = IF AtLeast(s.count) > Count(s) THEN DoRehash(s, AtLeast(s.count)) ELSE s
    BY <1>1 DEF SetPolicy
  <2> QED
    BY <1>1, <1>3, <1>4, <2>1, Zenon
<1>6. p \in Nat \ {0, 1}
  <2>1. t.count <= 2 * ItemCount + 2
    BY <1>2, ItemsFinite
  <2> QED
    BY <1>1, <1>2, <2>1, AtLeastIs
<1>7. CASE p > c
  <2>1. SoundOf(DoRehash([t EXCEPT !.mnNextResize = limit], p), HeldBy(t))
    BY <1>6, RehashesSound, Zenon
  <2> QED
    BY <1>1, <1>5, <1>7, <2>1, Zenon
<1>8. CASE ~(p > c)
  <2>1. c = 1 => limit = 0
    BY ONLY <1>2, <1>6, <1>8
  <2>2. Formed(s, c) /\ HeldBy(s) = HeldBy(t)
    BY <1>1, <2>1, ResizedSound, Zenon
  <2> QED
    BY <1>5, <1>8, <2>2, Zenon DEF SoundOf, Sound
<1> QED
  BY <1>7, <1>8

\* A copy has the items of its original.
LEMMA CopySound ==
  ASSUME NEW t, Sound(t)
  PROVE  SoundOf(CopyTable(t), HeldBy(t))
<1>1. CASE t.count # 0
  BY <1>1, Zenon DEF CopyTable, SoundOf
<1>2. CASE t.count = 0
  <2>1. CopyTable(t) = [bucket |-> gpEmptyBucketArray, count |-> 0, mnNextResize |-> 0]
    BY <1>2, Zenon DEF CopyTable, reset_lose_memory
  <2>2. PICK c : Formed(t, c)
    BY DEF Sound
  <2>3. IsFiniteSet(HeldBy(t)) /\ Cardinality(HeldBy(t)) = 0
    <3>1. HeldBy(t) = Held(t.bucket, c) /\ t.count = Cardinality(Held(t.bucket, c))
      BY <2>2, CountIs DEF Formed
    <3> QED
      BY <1>2, <3>1, HeldFinite
  <2>4. HeldBy(t) = {}
    BY <2>3, FS_EmptySet
  <2> QED
    BY <2>1, <2>4, ForgetSound, Zenon
<1> QED
  BY <1>1, <1>2, Zenon

-----------------------------------------------------------------------------
\* The inductive invariant: the table is sound.

TableInv == Sound(table) /\ uniqueKeys \in BOOLEAN

\* What becomes of a sound table in every call, and of its items.
CallsSound ==
  /\ \A n \in Fresh : SoundOf(DoInsertValue(table, n), Members \cup {n})
  /\ \A m, n \in Fresh : m # n => SoundOf(InsertRange(table, m, n), Members \cup {m, n})
  /\ \A n \in Members : SoundOf(EraseNode(table, n), Members \ {n})
  /\ \A n \in Items : SoundOf(EraseKey(table, n), {m \in Members : ~SameKey(m, n)})
  /\ SoundOf(ClearTable(table), {})
  /\ SoundOf(reset_lose_memory(ClearTable(table)), {})
  /\ \A n \in 0..ItemCount : SoundOf(Reserve(table, n), Members)
  /\ \A c \in {2, 3} : SoundOf(DoRehash(table, c), Members)
  /\ \A limit \in Limits : SoundOf(SetPolicy(table, limit), Members)
  /\ SoundOf(CopyTable(table), Members)

\* A limit is a number.
LEMMA LimitsAreNat == Limits \subseteq Nat
<1>1. ASSUME NEW n \in 0..ItemCount PROVE AtLeast(n) \in Nat
  <2>1. n \in Nat /\ n <= 2 * ItemCount + 2
    BY ItemsFinite
  <2> QED
    BY <2>1, AtLeastIs
<1> QED
  BY <1>1 DEF Limits

\* Every call keeps a sound table sound, and does to its items what it is asked.
LEMMA CallsAreSound == TableInv => CallsSound
<1>1. SUFFICES ASSUME TableInv PROVE CallsSound
  OBVIOUS
<1>2. PICK t : t = table
  OBVIOUS
<1>3. Sound(t) /\ uniqueKeys \in BOOLEAN
  BY <1>1, <1>2, Zenon DEF TableInv
<1>4. Members = HeldBy(t) /\ HeldBy(t) \subseteq Items
  BY <1>2, <1>3, MembersAre, SoundFormed, Zenon DEF Members
<1>5. \A n : n \in Fresh => n \in Items /\ (uniqueKeys = FALSE => n \notin HeldBy(t))
  BY <1>4 DEF Fresh
<1>6. ASSUME NEW n \in Fresh PROVE SoundOf(DoInsertValue(t, n), HeldBy(t) \cup {n})
  BY <1>3, <1>5, InsertSound
<1>7. ASSUME NEW m \in Fresh, NEW n \in Fresh, m # n
      PROVE  SoundOf(InsertRange(t, m, n), HeldBy(t) \cup {m, n})
  <2>1. m \in Items /\ n \in Items /\ (uniqueKeys = FALSE => m \notin HeldBy(t) /\ n \notin HeldBy(t))
    BY <1>5
  <2>2. SoundOf(InsertRange(t, m, n), (HeldBy(t) \cup {m}) \cup {n})
    BY <1>3, <1>7, <2>1, InsertRangeSound
  <2>3. HeldBy(t) \cup {m, n} = (HeldBy(t) \cup {m}) \cup {n}
    OBVIOUS
  <2> QED
    BY <2>2, <2>3, Zenon
<1>8. ASSUME NEW n \in Members PROVE SoundOf(EraseNode(t, n), HeldBy(t) \ {n})
  BY <1>3, <1>4, EraseNodeSound, Zenon
<1>9. ASSUME NEW n \in Items PROVE SoundOf(EraseKey(t, n), {m \in HeldBy(t) : ~SameKey(m, n)})
  <2>1. SoundOf(EraseKey(t, n), HeldBy(t) \ {m \in HeldBy(t) : SameKey(m, n)})
    BY <1>3, EraseKeySound, Zenon
  <2>2. HeldBy(t) \ {m \in HeldBy(t) : SameKey(m, n)} = {m \in HeldBy(t) : ~SameKey(m, n)}
    OBVIOUS
  <2> QED
    BY <2>1, <2>2, Zenon
<1>10. SoundOf(ClearTable(t), {}) /\ SoundOf(reset_lose_memory(ClearTable(t)), {})
  BY <1>3, ClearSound, ForgetSound, Zenon DEF reset_lose_memory
<1>11. ASSUME NEW n \in 0..ItemCount PROVE SoundOf(Reserve(t, n), HeldBy(t))
  BY <1>3, ReserveSound, Zenon
<1>12. ASSUME NEW c \in {2, 3} PROVE SoundOf(DoRehash(t, c), HeldBy(t))
  <2>1. c \in Nat \ {0, 1}
    OBVIOUS
  <2> QED
    BY <1>3, <2>1, RehashesSound, Zenon
<1>13. ASSUME NEW limit \in Limits PROVE SoundOf(SetPolicy(t, limit), HeldBy(t))
  <2>1. limit \in Nat
    BY LimitsAreNat
  <2> QED
    BY <1>3, <2>1, SetPolicySound, Zenon
<1>14. SoundOf(CopyTable(t), HeldBy(t))
  BY <1>3, CopySound, Zenon
<1> QED
  BY <1>2, <1>4, <1>6, <1>7, <1>8, <1>9, <1>10, <1>11, <1>12, <1>13, <1>14, Zenon DEF CallsSound

\* A step of the table is one of these calls.
LEMMA StepIsSound ==
  ASSUME TableInv, TableNext
  PROVE  Sound(table')
<1>1. CallsSound
  BY CallsAreSound
<1>2. PICK u : u = table'
  OBVIOUS
<1>3. \E T : SoundOf(u, T)
  BY <1>1, <1>2, Zenon DEF CallsSound, TableNext, Becomes
<1> QED
  BY <1>2, <1>3, Zenon DEF SoundOf

\* The kind of the table stays.
LEMMA KeysStay ==
  ASSUME TableNext \/ UNCHANGED tableVars
  PROVE  uniqueKeys' = uniqueKeys
  BY Zenon DEF TableNext, Becomes, tableVars

\* What is sound stays it while the kind of the table stays.
LEMMA SoundStays ==
  ASSUME uniqueKeys' = uniqueKeys, NEW t, Sound(t)
  PROVE  Sound(t)'
<1>1. \A n : Key(n)' = Key(n)
  BY DEF Key
<1>2. \A m, n : SameKey(m, n)' <=> SameKey(m, n)
  BY <1>1, Zenon DEF SameKey
<1>3. \A n, c : bucket_index(n, c)' = bucket_index(n, c)
  BY <1>1, Zenon DEF bucket_index
<1>4. \A b : Tidy(b) => Tidy(b)'
  BY <1>2, Zenon DEF Tidy
<1>5. \A b, c : Placed(b, c) => Placed(b, c)'
  BY <1>3, <1>4, Zenon DEF Placed
<1>6. \A c : Formed(t, c) => Formed(t, c)'
  BY <1>5, Zenon DEF Formed
<1> QED
  BY <1>6, Zenon DEF Sound

\* The inductive invariant holds whatever the calls.
LEMMA TableInvHolds == TableSpec => []TableInv
<1>1. TableInit => TableInv
  BY ForgetSound, Zenon DEF TableInit, TableInv, SoundOf
<1>2. TableInv /\ [TableNext]_tableVars => TableInv'
  <2>1. SUFFICES ASSUME TableInv, [TableNext]_tableVars PROVE TableInv'
    OBVIOUS
  <2>2. uniqueKeys' = uniqueKeys
    BY <2>1, KeysStay, Zenon
  <2>3. Sound(table')
    <3>1. CASE TableNext
      BY <2>1, <3>1, StepIsSound, Zenon
    <3>2. CASE UNCHANGED tableVars
      BY <2>1, <3>2, Zenon DEF TableInv, tableVars
    <3> QED
      BY <2>1, <3>1, <3>2
  <2>4. PICK t : t = table'
    OBVIOUS
  <2>5. Sound(t)'
    BY <2>2, <2>3, <2>4, SoundStays, Zenon
  <2>6. Sound(table)'
    BY <2>4, <2>5, Zenon DEF Sound
  <2> QED
    BY <2>1, <2>2, <2>6, Zenon DEF TableInv
<1> QED
  BY <1>1, <1>2, PTL DEF TableSpec

-----------------------------------------------------------------------------
\* Searches.

\* equal_range lists the items of a key.
LEMMA RangeLists ==
  ASSUME NEW t, Sound(t), NEW n \in Items
  PROVE  /\ Lists(equal_range(t, n), {m \in HeldBy(t) : SameKey(m, n)})
         /\ count(t, n) = Cardinality({m \in HeldBy(t) : SameKey(m, n)})
         /\ DoFindNode(t, n) # 0 <=> {m \in HeldBy(t) : SameKey(m, n)} # {}
<1>1. PICK c, b, i, j, T : /\ Formed(t, c) /\ b = Bucket(t, n) /\ i = DoFindNode(t, n) /\ j = RunEnd(t, n)
                           /\ T = {m \in HeldBy(t) : SameKey(m, n)}
  BY DEF Sound
<1>2. Tidy(b) /\ Len(b) \in Nat /\ DOMAIN b = 1..Len(b)
  <2>1. BucketHolds(t, c, n, b)
    BY <1>1, BucketOf
  <2> QED
    BY <2>1 DEF BucketHolds, Tidy
<1>3. i = 0 <=> T = {}
  <2>1. i = 0 <=> \A m \in HeldBy(t) : ~SameKey(m, n)
    BY <1>1, FindIs
  <2> QED
    BY <1>1, <2>1
<1>4. PICK K : K = {k \in DOMAIN b : SameKey(b[k], n)}
  OBVIOUS
<1>5. count(t, n) = Cardinality(K)
  BY <1>1, <1>4, Zenon DEF count
<1>6. CASE i = 0
  <2>1. equal_range(t, n) = <<>>
    BY <1>1, <1>6, Zenon DEF equal_range, RunOf
  <2>2. Cardinality({}) = 0
    BY FS_EmptySet
  <2>3. K = {}
    <3>1. i = 0 => \A k \in 1..Len(b) : ~SameKey(b[k], n)
      BY <1>1, FindIs
    <3> QED
      BY <1>2, <1>4, <1>6, <3>1
  <2>4. <<>> \in Seq(Items) /\ Len(<<>>) = 0 /\ 1..Len(<<>>) = {}
    OBVIOUS
  <2>5. Lists(<<>>, T)
    BY <1>3, <1>6, <2>2, <2>4, Zenon DEF Lists, Contains
  <2> QED
    BY <1>1, <1>3, <1>5, <1>6, <2>1, <2>2, <2>3, <2>5, Zenon
<1>7. CASE i # 0
  <2>1. Runs(t, n, b, i, j)
    BY <1>1, <1>7, RunEndIs
  <2>2. /\ i \in 1..Len(b) /\ j \in (i + 1)..(Len(b) + 1)
        /\ \A k \in 1..Len(b) : SameKey(b[k], n) <=> i <= k /\ k < j
    BY <2>1 DEF Runs
  <2>3. T = CellsOf(b, i, j)
    BY <1>1, <2>1, RunHolds
  <2>4. Lists(SubSeq(b, i, j - 1), T) /\ Cardinality(T) = j - i
    BY <1>2, <2>2, <2>3, CellsTidy
  <2>5. equal_range(t, n) = SubSeq(b, i, j - 1)
    BY <1>1, <1>7, Zenon DEF equal_range, RunOf
  <2>6. K = i..(j - 1)
    BY <1>2, <1>4, <2>2
  <2>7. Cardinality(i..(j - 1)) = j - i
    <3>1. i \in Int /\ j - 1 \in Int /\ ~(i > j - 1) /\ (j - 1) - i + 1 = j - i
      BY <1>2, <2>2
    <3>2. Cardinality(i..(j - 1)) = IF i > j - 1 THEN 0 ELSE (j - 1) - i + 1
      BY <3>1, FS_Interval
    <3> QED
      BY <3>1, <3>2
  <2> QED
    BY <1>1, <1>3, <1>5, <1>7, <2>4, <2>5, <2>6, <2>7, Zenon
<1> QED
  BY <1>6, <1>7

\* A sound table has both parts of TableSound.
LEMMA SoundIsTableSound == TableInv => TableSound
<1>1. SUFFICES ASSUME TableInv PROVE TableSound
  OBVIOUS
<1>2. PICK c : Formed(table, c)
  BY <1>1 DEF TableInv, Sound
<1>3. Sound(table) /\ Members = HeldBy(table) /\ Len(Walk(table)) = Cardinality(HeldBy(table))
  BY <1>1, MembersAre, Zenon DEF TableInv, Members
<1>4. Count(table) = c /\ HeldBy(table) = Held(table.bucket, c)
  BY <1>2, CountIs
<1>5. table.count = Len(Walk(table))
  BY <1>2, <1>3, <1>4, Zenon DEF Formed
<1>6. ASSUME Count(table) = 1 PROVE Walk(table) = <<>>
  <2>1. table.bucket[0] = <<>>
    BY <1>2, <1>4, <1>6 DEF Formed
  <2>2. HeldBy(table) = {}
    <3>1. 0..(1 - 1) = {0} /\ 1..Len(<<>>) = {}
      OBVIOUS
    <3> QED
      BY <1>4, <1>6, <2>1, <3>1, Zenon DEF Held, Contains
  <2>3. Len(Walk(table)) = 0
    BY <1>3, <2>2, FS_EmptySet
  <2>4. Walk(table) \in Seq(Items)
    BY <1>2, WalkIs DEF Walks, Tidy
  <2>5. PICK w : w = Walk(table)
    OBVIOUS
  <2> QED
    BY <2>3, <2>4, <2>5
<1>7. ASSUME NEW n \in Items, NEW T, T = {m \in Members : SameKey(m, n)}
      PROVE  /\ count(table, n) = Cardinality(T)
             /\ ToSet(equal_range(table, n)) = T
             /\ DoFindNode(table, n) # 0 <=> T # {}
  <2>1. PICK r : r = equal_range(table, n)
    OBVIOUS
  <2>2. T = {m \in HeldBy(table) : SameKey(m, n)}
    BY <1>3, <1>7
  <2>3. Lists(r, T) /\ count(table, n) = Cardinality(T) /\ (DoFindNode(table, n) # 0 <=> T # {})
    BY <1>3, <2>1, <2>2, RangeLists, Zenon
  <2>4. DOMAIN r = 1..Len(r) /\ \A m : Contains(r, m) <=> m \in T
    BY <2>3 DEF Lists
  <2>5. ToSet(r) = T
    <3>1. \A m : m \in ToSet(r) <=> Contains(r, m)
      BY <2>4, Zenon DEF ToSet, Contains
    <3> QED
      BY <2>4, <3>1
  <2> QED
    BY <2>1, <2>3, <2>5, Zenon
<1> QED
  BY <1>5, <1>6, <1>7, Zenon DEF TableSound, SharedBucketEmpty, SearchesSeeAll

\* TableSound, whatever the calls before: no item is in the bucket that all empty
\* tables share, and count, find and equal_range tell of exactly the items that a
\* walk through the table meets.
THEOREM EveryTableIsSound == TableSpec => []TableSound
  BY TableInvHolds, SoundIsTableSound, PTL

\* A sound table of some items holds just them, each once.
LEMMA SoundOfHolds ==
  ASSUME NEW t, NEW T, SoundOf(t, T)
  PROVE  HasExactly(t, T)
<1>1. Sound(t) /\ HeldBy(t) = T
  BY Zenon DEF SoundOf
<1>2. Range(Walk(t)) = HeldBy(t) /\ Len(Walk(t)) = Cardinality(HeldBy(t))
  BY <1>1, MembersAre, Zenon
<1> QED
  BY <1>1, <1>2, Zenon DEF HasExactly

\* CallsChangeAsAsked, whatever the calls before: an insertion adds the items of its
\* keys, an erasure takes out those it names, and no rehash, reserve, rehash_policy or
\* copy loses or repeats an item.
THEOREM CallsDoAsAsked == TableSpec => []CallsChangeAsAsked
<1>1. TableInv => CallsChangeAsAsked
  <2>1. SUFFICES ASSUME TableInv PROVE CallsChangeAsAsked
    OBVIOUS
  <2>2. CallsSound
    BY <2>1, CallsAreSound
  <2> QED
    BY <2>2, SoundOfHolds, Zenon DEF CallsSound, CallsChangeAsAsked
<1> QED
  BY <1>1, TableInvHolds, PTL
=============================================================================
