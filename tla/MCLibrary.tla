----------------------------- MODULE MCLibrary ------------------------------
(* What the driver's code is built from: the heap, shared pointers, the        *)
(* containers and the conversions, one behaviour for each subject.           *)
(* KcrtHeap: two addresses, a size_t of eight values with a header of four    *)
(* cells, so that a size of 4 wraps, and some products do.                   *)
(* SharedPtr: four handles of one value that may hold a weak_ptr to itself.  *)
(* RedBlackTree: all trees of eight items, enough for every case of both      *)
(* rebalancings.  Hashtable: five items, up to 23 buckets.                   *)
(* Deque: five elements in subarrays of two and an array of at least three    *)
(* pointers, so that its ends pass subarrays, recentre and reallocate.       *)
(* Strings: a type of sixteen bits, formats of up to four characters, and     *)
(* arguments with braces in them.                                            *)
EXTENDS SharedPtr, KcrtHeap, RedBlackTree, Deque, Hashtable, Strings

CONSTANTS v1, v2

VARIABLE subject

\* What becomes of arguments: texts with braces, whole and in halves.
ArgumentTexts == {<<>>, <<"x">>, <<"{", "}">>, <<"{">>}

\* The state of what is not the subject is that of one of its beginnings.
LibraryInit ==
  /\ subject \in {"SharedPtr", "KcrtHeap", "RedBlackTree", "Deque", "Hashtable", "Strings"}
  /\ Init
  /\ HeapInit /\ (subject = "KcrtHeap" \/ pool[1].cell[0] = 0)
  /\ TreeInit /\ (subject = "RedBlackTree" \/ unique)
  /\ DequeInit
  /\ TableInit /\ (subject = "Hashtable" \/ uniqueKeys)
  /\ StringsInit /\ (subject = "Strings" \/ call = [name |-> "format", fmt |-> <<>>, args |-> <<>>])

LibraryNext ==
  /\ UNCHANGED subject
  /\ \/ subject = "SharedPtr" /\ Next /\ UNCHANGED <<heapVars, treeVars, dequeVars, tableVars, stringsVars>>
     \/ subject = "KcrtHeap" /\ HeapNext /\ UNCHANGED <<vars, treeVars, dequeVars, tableVars, stringsVars>>
     \/ subject = "RedBlackTree" /\ TreeNext /\ UNCHANGED <<vars, heapVars, dequeVars, tableVars, stringsVars>>
     \/ subject = "Deque" /\ DequeNext /\ UNCHANGED <<vars, heapVars, treeVars, tableVars, stringsVars>>
     \/ subject = "Hashtable" /\ TableNext /\ UNCHANGED <<vars, heapVars, treeVars, dequeVars, stringsVars>>
     \/ subject = "Strings" /\ StringsNext /\ UNCHANGED <<vars, heapVars, treeVars, dequeVars, tableVars>>

LibrarySpec ==
  LibraryInit /\ [][LibraryNext]_<<subject, vars, heapVars, treeVars, dequeVars, tableVars, stringsVars>>
=============================================================================
