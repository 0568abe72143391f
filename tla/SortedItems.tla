---------------------------- MODULE SortedItems -----------------------------
(* What a set, map, multiset or multimap promises: items in the order of      *)
(* their keys, joined one at a time and left in runs, the others in place.   *)
EXTENDS Sequences, Integers

CONSTANTS
  Members,    \* what can be an item
  Key(_, _)   \* the key of an item, by whether keys are unique

VARIABLES items, unique

Sorted(s) ==
  \A i, j \in DOMAIN s : i < j =>
    Key(unique, s[i]) <= Key(unique, s[j]) /\ (unique => Key(unique, s[i]) # Key(unique, s[j]))

Init == items = <<>> /\ unique \in BOOLEAN

\* The item n joins the sequence s somewhere and makes it t.
Joins(n, s, t) ==
  /\ \A j \in DOMAIN s : s[j] # n
  /\ \E i \in 0..Len(s) : t = SubSeq(s, 1, i) \o <<n>> \o SubSeq(s, i + 1, Len(s))
  /\ Sorted(t)

\* A run of s leaves.
Leaves(s, t) ==
  \E i \in 0..Len(s), j \in 1..Len(s) :
    i < j /\ t = SubSeq(s, 1, i) \o SubSeq(s, j + 1, Len(s))

Changes(s, t) == Leaves(s, t) \/ \E n \in Members : Joins(n, s, t)

\* Bound, so that TLC walks the sequences but once a step.
Next == (\E s \in {items}, t \in {items'} : Changes(s, t)) /\ UNCHANGED unique

Spec == Init /\ [][Next]_<<items, unique>>
=============================================================================
