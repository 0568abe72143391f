------------------------------- MODULE Deque --------------------------------
(* eastl::deque (EASTL/include/EASTL/deque.h), which the work queue of        *)
(* DriverThread.cpp keeps its items in.                                      *)
(* An array of pointers leads to subarrays of SubarraySize cells.  A place is *)
(* (index of the pointer) * SubarraySize + (index in the subarray), so that   *)
(* an iterator is a place and its arithmetic is that of integers; the cells   *)
(* of a deque are a function whose domain are the places of the subarrays     *)
(* that are allocated.  A pointer outside the used ones is null, as the debug *)
(* build makes it.                                                           *)
EXTENDS Integers, Sequences, SequencesExt, Functions, FiniteSetsExt

CONSTANTS
  SubarraySize,     \* kDequeSubarraySize
  MinPtrArraySize,  \* kMinPtrArraySize
  Elements,         \* what an element can be, not of the words below
  MaxSize           \* Bound: elements of the deque

\* What the sizes are in every instantiation of deque.h.
DequeAssumption ==
  SubarraySize \in Nat \ {0} /\ MinPtrArraySize \in Nat /\ MaxSize \in Nat

ASSUME SizesAsInstantiated == DequeAssumption

VARIABLE deque

dequeVars == deque

Raw == "raw"       \* memory without an object
Moved == "moved"   \* an object whose contents were moved away
Ruined == "ruined" \* memory after a subarray was freed that was not allocated

Slot(p) == p \div SubarraySize
Offset(p) == p % SubarraySize
PlacesOf(slots) == {s * SubarraySize + i : s \in slots, i \in 0..(SubarraySize - 1)}

Size(d) == d.end - d.begin

\* The elements from front to back, the abstraction of every property.
Contents(d) == [i \in 1..Size(d) |-> d.cell[d.begin + i - 1]]

-----------------------------------------------------------------------------
(* Memory *)

Fill(cell, places, v) ==
  [p \in places \cup DOMAIN cell |-> IF p \in places THEN v ELSE cell[p]]

Allocate(d, slots) == [d EXCEPT !.cell = Fill(@, PlacesOf(slots), Raw)]

\* DoFreeSubarray of each; a second free of one of them ruins them all.
CellsLeft(cell, slots) ==
  IF PlacesOf(slots) \subseteq DOMAIN cell
  THEN Restrict(cell, DOMAIN cell \ PlacesOf(slots))
  ELSE Fill(cell, DOMAIN cell, Ruined)

FreeSubarrays(d, slots) == [d EXCEPT !.cell = CellsLeft(@, slots)]

Destroy(d, places) == [d EXCEPT !.cell = Fill(@, places, Raw)]

\* The pointers move k further in an array of the given size.
Shift(d, k, size) ==
  LET by == k * SubarraySize
  IN  [size |-> size, begin |-> d.begin + by, end |-> d.end + by,
       cell |-> [p \in {q + by : q \in DOMAIN d.cell} |-> d.cell[p - by]]]

\* n more pointers are needed on one side: those of the other side serve when
\* there are enough, or else a larger array.
DoReallocPtrArray(d, n, side) ==
  LET front == Slot(d.begin)
      back == d.size - 1 - Slot(d.end)
  IN  CASE side = "back" /\ n <= front -> Shift(d, -Max({n, front \div 2}), d.size)
        [] side = "front" /\ n <= back -> Shift(d, Max({n, back \div 2}), d.size)
        [] OTHER -> Shift(d, IF side = "front" THEN n ELSE 0, d.size + Max({d.size, n}) + 2)

\* Room for n more elements on one side; begin and end stay at the elements.
DoReallocSubarray(d, n, side) ==
  LET room == IF side = "front" THEN Offset(d.begin) ELSE SubarraySize - 1 - Offset(d.end)
      more == IF room < n THEN (n - room + SubarraySize - 1) \div SubarraySize ELSE 0
      have == IF side = "front" THEN Slot(d.begin) ELSE d.size - Slot(d.end) - 1
      e == IF more > have THEN DoReallocPtrArray(d, more - have, side) ELSE d
  IN  Allocate(e, IF side = "front" THEN (Slot(e.begin) - more)..(Slot(e.begin) - 1)
                                    ELSE (Slot(e.end) + 1)..(Slot(e.end) + more))

\* A deque of n cells in the middle of a fresh array.
DoInit(n) ==
  LET used == n \div SubarraySize + 1
      size == Max({MinPtrArraySize, used + 2})
      first == (size - used) \div 2
  IN  [size |-> size, begin |-> first * SubarraySize, end |-> first * SubarraySize + n,
       cell |-> [p \in PlacesOf(first..(first + used - 1)) |-> Raw]]

\* n elements from first on move to the place to, one after the other, the
\* first one first or the last one first.  Onto its own place (an insertion of
\* no values in the middle) an element keeps its contents, as EASTL's own
\* types do; the code asks it of every type.
Move(cell, first, n, to, backward) ==
  LET step(j) == IF backward THEN n - j ELSE j - 1
      f[j \in 0..n] ==
        IF j = 0 THEN cell
        ELSE [f[j - 1] EXCEPT ![to + step(j)] = f[j - 1][first + step(j)],
                              ![first + step(j)] = IF to = first THEN @ ELSE Moved]
  IN  f[n]

-----------------------------------------------------------------------------
(* Operations.  An argument is a value, or the index of an element of the    *)
(* deque that the caller's reference denotes.                                *)

Argument(d, a) == IF a \in Elements THEN a ELSE d.cell[d.begin + a.element]

EmplaceFront(d, v) ==
  LET e == DoReallocSubarray(d, 1, "front")
  IN  [e EXCEPT !.begin = @ - 1, !.cell[e.begin - 1] = v]

EmplaceBack(d, v) ==
  LET e == DoReallocSubarray(d, 1, "back")
  IN  [e EXCEPT !.end = @ + 1, !.cell[e.end] = v]

\* Mutant of PopFront: the subarray it leaves is not freed.
PopFrontKeepsSubarray(d) == [Destroy(d, {d.begin}) EXCEPT !.begin = @ + 1]

\* The subarray goes with the last element it holds.
PopFront(d) ==
  LET e == [Destroy(d, {d.begin}) EXCEPT !.begin = @ + 1]
  IN  IF Offset(e.begin) = 0 THEN FreeSubarrays(e, {Slot(d.begin)}) ELSE e

PopBack(d) ==
  LET e == IF Offset(d.end) = 0 THEN FreeSubarrays(d, {Slot(d.end)}) ELSE d
  IN  [Destroy(e, {e.end - 1}) EXCEPT !.end = @ - 1]

\* Before the element i: the shorter side moves by one.  The value is saved
\* first, as it may come from the elements that move.
Opened(d, i) ==
  LET front == EmplaceFront([d EXCEPT !.cell[d.begin] = Moved], d.cell[d.begin])
      back == EmplaceBack([d EXCEPT !.cell[d.end - 1] = Moved], d.cell[d.end - 1])
  IN  IF i < Size(d) \div 2
      THEN [front EXCEPT !.cell = Move(@, front.begin + 2, i - 1, front.begin + 1, FALSE)]
      ELSE [back EXCEPT !.cell = Move(@, back.begin + i, Size(d) - i - 1, back.begin + i + 1, TRUE)]

\* Mutant of Emplace: the value is read after the elements have moved.
EmplaceUnsaved(d, i, a) ==
  LET e == Opened(d, i)
  IN  CASE i = Size(d) -> EmplaceBack(d, Argument(d, a))
        [] i = 0 /\ i # Size(d) -> EmplaceFront(d, Argument(d, a))
        [] OTHER -> [e EXCEPT !.cell[e.begin + i] = Argument(e, a)]

Emplace(d, i, a) ==
  LET saved == Argument(d, a)
      e == Opened(d, i)
  IN  CASE i = Size(d) -> EmplaceBack(d, saved)
        [] i = 0 /\ i # Size(d) -> EmplaceFront(d, saved)
        [] OTHER -> [e EXCEPT !.cell[e.begin + i] = saved]

\* n values before the element i, into room made on the shorter side; what is
\* in front of (or behind) them moves n places outwards.
DoInsertValues(d, i, n, a) ==
  LET saved == Argument(d, a)
      f == DoReallocSubarray(d, n, "front")
      b == DoReallocSubarray(d, n, "back")
      pushed == Size(d) - i
  IN  IF i = 0 \/ (i # Size(d) /\ i < Size(d) \div 2)
      THEN [f EXCEPT !.begin = @ - n,
                     !.cell = Fill(Move(@, f.begin, i, f.begin - n, FALSE),
                                   (f.begin - n + i)..(f.begin + i - 1), saved)]
      ELSE [b EXCEPT !.end = @ + n,
                     !.cell = Fill(Move(@, b.end - pushed, pushed, b.end - pushed + n, TRUE),
                                   (b.end - pushed)..(b.end - pushed + n - 1), saved)]

Clear(d) ==
  [FreeSubarrays(Destroy(d, d.begin..(d.end - 1)), (Slot(d.begin) + 1)..Slot(d.end))
     EXCEPT !.end = d.begin]

\* One element leaves; the shorter rest moves over it.
ErasePosition(d, i) ==
  IF i < Size(d) \div 2
  THEN PopFront([d EXCEPT !.cell = Move(@, d.begin, i, d.begin + 1, TRUE)])
  ELSE PopBack([d EXCEPT !.cell = Move(@, d.begin + i + 1, Size(d) - i - 1, d.begin + i, FALSE)])

\* The elements from i up to before j leave; the shorter rest moves.
Erase(d, i, j) ==
  LET n == j - i
      f == Destroy([d EXCEPT !.cell = Move(@, d.begin, i, d.begin + n, TRUE)],
                   d.begin..(d.begin + n - 1))
      b == Destroy([d EXCEPT !.cell = Move(@, d.begin + j, Size(d) - j, d.begin + i, FALSE)],
                   (d.end - n)..(d.end - 1))
  IN  CASE i = 0 /\ j = Size(d) -> Clear(d)
        [] n < Size(d) /\ i < (Size(d) - n) \div 2 ->
             FreeSubarrays([f EXCEPT !.begin = @ + n], Slot(d.begin)..(Slot(d.begin + n) - 1))
        [] OTHER ->
             FreeSubarrays([b EXCEPT !.end = @ - n], (Slot(d.end - n) + 1)..Slot(d.end))

Resize(d, n, a) ==
  IF n > Size(d) THEN DoInsertValues(d, Size(d), n - Size(d), a) ELSE Erase(d, n, Size(d))

\* assign(n, value)
DoAssignValues(d, n, v) ==
  LET e == Resize(d, n, v) IN [e EXCEPT !.cell = Fill(@, e.begin..(e.end - 1), v)]

\* A new deque takes the elements over (DoInitFromIterator), the old one goes.
ShrinkToFit(d) ==
  LET x == DoInit(Size(d))
  IN  [x EXCEPT !.cell = [p \in DOMAIN @ |->
         IF p \in x.begin..(x.end - 1) THEN d.cell[p - x.begin + d.begin] ELSE @[p]]]

-----------------------------------------------------------------------------
(* A call has its result, and what it promises: the elements from i up to     *)
(* before j give way to the run.                                             *)

Call(result, i, j, run) == [result |-> result, i |-> i, j |-> j, run |-> run]

Arguments(d) == Elements \cup {[element |-> i] : i \in 0..(Size(d) - 1)}

Copies(d, k, a) == [l \in 1..k |-> Argument(d, a)]

Insertions(d) ==
  LET n == Size(d)
      one == {a \in Arguments(d) : n < MaxSize}
  IN  {Call(EmplaceFront(d, Argument(d, a)), 0, 0, Copies(d, 1, a)) : a \in one}
        \cup {Call(EmplaceBack(d, Argument(d, a)), n, n, Copies(d, 1, a)) : a \in one}
        \cup {Call(Emplace(d, i, a), i, i, Copies(d, 1, a)) : i \in 0..n, a \in one}
        \cup {Call(DoInsertValues(d, i, k, a), i, i, Copies(d, k, a)) :
                i \in 0..n, k \in 0..(MaxSize - n), a \in Arguments(d)}

Removals(d) ==
  LET n == Size(d)
  IN  {Call(PopFront(d), 0, 1, <<>>) : x \in {0} \cap 0..(n - 1)}
        \cup {Call(PopBack(d), n - 1, n, <<>>) : x \in {0} \cap 0..(n - 1)}
        \cup {Call(ErasePosition(d, i), i, i + 1, <<>>) : i \in 0..(n - 1)}
        \cup {Call(Erase(d, r[1], r[2]), r[1], r[2], <<>>) : r \in {s \in (0..n) \X (0..n) : s[1] <= s[2]}}
        \cup {Call(Clear(d), 0, n, <<>>)}

\* The deque that was moved from or swapped with an empty one is DoInit(0).
Replacements(d) ==
  LET n == Size(d)
  IN  {Call(Resize(d, k, a), IF k < n THEN k ELSE n, n, Copies(d, k - n, a)) : k \in 0..MaxSize, a \in Arguments(d)}
        \cup {Call(DoAssignValues(d, k, v), 0, n, Copies(d, k, v)) : k \in 0..MaxSize, v \in Elements}
        \cup {Call(ShrinkToFit(d), 0, 0, <<>>), Call(DoInit(0), 0, n, <<>>)}

Calls(d) == Insertions(d) \cup Removals(d) \cup Replacements(d)

DequeInit == deque = DoInit(0)

DequeNext == \E c \in Calls(deque) : deque' = c.result

DequeSpec == DequeInit /\ [][DequeNext]_dequeVars

-----------------------------------------------------------------------------
(* Properties                                                                *)

\* The subarrays that are allocated are those from begin to end, all of them
\* within the array of pointers, and the objects alive are those from begin up
\* to before end, none of them moved from: however the calls follow each other
\* nothing leaks, nothing is freed or destroyed twice, and every place an
\* iterator can go to is memory of the deque.
StorageExact ==
  /\ DOMAIN deque.cell = PlacesOf(Slot(deque.begin)..Slot(deque.end))
  /\ Slot(deque.begin) >= 0 /\ Slot(deque.end) < deque.size
  /\ \A p \in DOMAIN deque.cell :
       deque.cell[p] \in IF p \in deque.begin..(deque.end - 1) THEN Elements ELSE {Raw}

\* Every call, made now, leaves the elements it promises in their order: also
\* when its argument is an element that the call itself moves, when the other
\* side's pointers are used up, and when the array of pointers is replaced.
CallsDoAsPromised ==
  \A c \in Calls(deque) :
    Contents(c.result) =
      SubSeq(Contents(deque), 1, c.i) \o c.run \o SubSeq(Contents(deque), c.j + 1, Size(deque))
=============================================================================
