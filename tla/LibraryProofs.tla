---------------------------- MODULE LibraryProofs ----------------------------
(* Proofs about the heap, the shared pointers and the conversions.           *)
(*                                                                           *)
(* SharedPtr: for any finite number of handles, an owner has the value and a  *)
(* handle its counts, and both are freed once, when nothing refers to them.  *)
(* KcrtHeap: for every pool, every width of a size_t, every size of a header  *)
(* and every set of sizes, blocks keep what they hold and can be returned.   *)
(* Strings: the conversions say what they were asked to say, for every width  *)
(* of the type, every format and all arguments.  Numbers: four halvings are a *)
(* division by sixteen (HalvedByDigit), so that what the first k digits show  *)
(* is the number shifted by the rest of them (DigitsShowNumber).  Formats:    *)
(* after k arguments, what is out is what the pieces of the format up to some *)
(* place say, and what is left is the format behind it, with k placeholders   *)
(* passed (Through, ArgumentFillsIn).                                        *)
EXTENDS SharedPtr, KcrtHeap, Strings, SequenceTheorems, FiniteSetTheorems, WellFoundedInduction, TLAPS

-----------------------------------------------------------------------------
(* SharedPtr.                                                                *)

Owns(h) == state[h] \in {"count", "shared"}
HoldsCounts(h) == state[h] \in {"shared", "weak", "free_value", "self", "weak_release"}

Owners == {h \in Handles : Owns(h)}
Holders == {h \in Handles : HoldsCounts(h)}

\* The value's weak_ptr to itself, from the value's construction to the
\* weak_release that its destructor ends with.
SelfCount == IF self /\ (value = "alive" \/ \E h \in Handles : state[h] = "self") THEN 1 ELSE 0

Counted ==
  /\ mRefCount = Cardinality(Owners)
  /\ mWeakRefCount = Cardinality(Holders) + SelfCount

\* A copy has a source that counts for the block, and lock a count to start from.
Sourced ==
  \A h \in Handles :
    /\ state[h] \in Copying => state[source[h]] \in {"shared", "weak"}
    /\ state[h] = "cas" => refCountTemp[h] # 0 /\ state[source[h]] = "weak"

ValueLife ==
  /\ value # "freed twice"
  /\ value = "alive" => \E h \in Handles : Owns(h) \/ state[h] = "free_value"
  /\ \A h \in Handles :
       /\ Owns(h) => value = "alive"
       /\ state[h] = "free_value" =>
            value = "alive" /\ \A g \in Handles : ~Owns(g) /\ (state[g] = "free_value" => g = h)
       /\ state[h] = "self" =>
            value = "freed" /\ self /\ \A g \in Handles : state[g] = "self" => g = h

BlockLife ==
  /\ block # "freed twice"
  /\ block = "none" <=> value = "none"
  /\ block = "alive" => \E h \in Handles : state[h] # "none"
  /\ \A h \in Handles :
       /\ state[h] # "none" => block = "alive"
       /\ state[h] = "free_ref_count_sp" => \A g \in Handles : g # h => state[g] = "none"

\* The types, but for the sign of the counts, which Counted settles.
Types ==
  /\ mRefCount \in Int /\ mWeakRefCount \in Int
  /\ value \in Lives /\ block \in Lives /\ self \in BOOLEAN
  /\ state \in [Handles -> States]
  /\ source \in [Handles -> Handles]
  /\ refCountTemp \in [Handles -> Int]

Inv == Types /\ Counted /\ Sourced /\ ValueLife /\ BlockLife

-----------------------------------------------------------------------------
(* Sets of handles: what joining and leaving them does to their size.        *)

LEMMA SubsetSizes ==
  ASSUME NEW S \in SUBSET Handles
  PROVE  /\ IsFiniteSet(S)
         /\ Cardinality(S) \in Nat
         /\ Cardinality(S) = 0 <=> S = {}
         /\ \A h \in Handles \ S : Cardinality(S \cup {h}) = Cardinality(S) + 1
         /\ \A h \in S : Cardinality(S \ {h}) = Cardinality(S) - 1
         /\ \A h \in S : Cardinality(S) = 1 => S = {h}
<1>1. IsFiniteSet(S)
  BY HandlesAssumption, FS_Subset
<1>2. Cardinality(S) \in Nat /\ (Cardinality(S) = 0 <=> S = {})
  BY <1>1, FS_CardinalityType, FS_EmptySet
<1>3. \A h \in Handles \ S : Cardinality(S \cup {h}) = Cardinality(S) + 1
  BY <1>1, FS_AddElement
<1>4. \A h \in S : Cardinality(S \ {h}) = Cardinality(S) - 1
  BY <1>1, FS_RemoveElement
<1>5. \A h \in S : Cardinality(S) = 1 => S = {h}
  <2>1. TAKE h \in S
  <2>2. HAVE Cardinality(S) = 1
  <2>3. S \ {h} \subseteq Handles /\ IsFiniteSet(S \ {h})
    BY <1>1, FS_RemoveElement
  <2>4. Cardinality(S \ {h}) = 0
    BY <1>4, <2>2
  <2>5. S \ {h} = {}
    BY <2>3, <2>4, FS_EmptySet
  <2>6. QED
    BY <2>5
<1>6. QED
  BY <1>1, <1>2, <1>3, <1>4, <1>5

LEMMA OwnersAndHolders == Owners \subseteq Handles /\ Holders \subseteq Handles
BY DEF Owners, Holders

\* The sizes of the two sets and the value's own handle are numbers.
LEMMA CountTypes ==
  Cardinality(Owners) \in Nat /\ Cardinality(Holders) \in Nat /\ SelfCount \in {0, 1}
BY SubsetSizes, OwnersAndHolders DEF SelfCount

-----------------------------------------------------------------------------
(* What the invariant says in its useful forms.                              *)

\* The last owner finds the count at one, and is alone.
LEMMA LastOwner ==
  ASSUME Inv, mRefCount = 1, NEW h \in Handles, Owns(h)
  PROVE  \A g \in Handles : Owns(g) => g = h
<1>1. h \in Owners /\ Cardinality(Owners) = 1
  BY DEF Inv, Counted, Owners
<1>2. Owners = {h}
  BY <1>1, SubsetSizes, OwnersAndHolders
<1>3. QED
  BY <1>2 DEF Owners

\* Nobody owns the value of which the count is zero.
LEMMA NoOwner ==
  ASSUME Inv, mRefCount = 0
  PROVE  \A g \in Handles : ~Owns(g)
<1>1. Owners = {}
  BY SubsetSizes, OwnersAndHolders DEF Inv, Counted
<1>2. QED
  BY <1>1 DEF Owners

\* Whoever owns is counted.
LEMMA OwnerIsCounted ==
  ASSUME Inv, NEW h \in Handles, Owns(h)
  PROVE  mRefCount # 0
BY NoOwner

\* The last holder of the counts finds them at one, and is alone.
LEMMA LastHolder ==
  ASSUME Inv, mWeakRefCount = 1, NEW h \in Handles, HoldsCounts(h), Free(h)
  PROVE  /\ \A g \in Handles : g # h => state[g] = "none"
         /\ state[h] # "self"
<1>1. h \in Holders /\ Cardinality(Holders) + SelfCount = 1
  BY DEF Inv, Counted, Holders
<1>2. Cardinality(Holders) \in Nat /\ Cardinality(Holders) # 0 /\ SelfCount \in {0, 1}
  BY <1>1, SubsetSizes, OwnersAndHolders DEF SelfCount
<1>3. Cardinality(Holders) = 1 /\ SelfCount = 0
  BY <1>1, <1>2
<1>4. Holders = {h}
  BY <1>1, <1>3, SubsetSizes, OwnersAndHolders
<1>5. state[h] # "self"
  <2>1. SUFFICES ASSUME state[h] = "self" PROVE FALSE
    OBVIOUS
  <2>2. self
    BY <2>1 DEF Inv, ValueLife
  <2>3. SelfCount = 1
    BY <2>1, <2>2 DEF SelfCount
  <2>4. QED
    BY <1>3, <2>3
<1>6. ASSUME NEW g \in Handles, g # h
      PROVE  state[g] = "none"
  <2>1. ~HoldsCounts(g)
    BY <1>4, <1>6 DEF Holders
  <2>2. state[g] \notin Copying
    <3>1. SUFFICES ASSUME state[g] \in Copying PROVE FALSE
      OBVIOUS
    <3>2. state[source[g]] \in {"shared", "weak"} /\ source[g] \in Handles
      BY <1>6, <3>1 DEF Inv, Sourced, Types
    <3>3. source[g] = h
      BY <1>4, <3>2 DEF Holders, HoldsCounts
    <3>4. QED
      BY <1>6, <3>1, <3>3 DEF Free
  <2>3. state[g] # "free_ref_count_sp"
    BY <1>6 DEF Inv, BlockLife, HoldsCounts
  <2>4. QED
    BY <1>6, <2>1, <2>2, <2>3 DEF Inv, Types, States, Copying, HoldsCounts
<1>7. QED
  BY <1>5, <1>6

-----------------------------------------------------------------------------
(* Every step keeps the invariant.                                           *)

LEMMA TypeStep == Types /\ [Next]_vars => Types'
<1>1. SUFFICES ASSUME Types, [Next]_vars PROVE Types'
  OBVIOUS
<1>2. (mRefCount \in Int /\ mWeakRefCount \in Int)'
  BY <1>1 DEF Types, Next, vars, counts, objects, Create, CreateFails, Copy, MakeWeak, Lock,
     Test, AddWeak, Exchange, Increment, Release, FreeValue, WeakRelease, FreeRefCount
<1>3. (value \in Lives /\ block \in Lives)'
  BY <1>1, ZenonT(30) DEF Types, Next, vars, counts, objects, Create, CreateFails, Copy, MakeWeak, Lock,
     Test, AddWeak, Exchange, Increment, Release, FreeValue, WeakRelease, FreeRefCount,
     Lives, Freed
<1>4. self' \in BOOLEAN
  BY <1>1, HandlesAssumption DEF Types, Next, vars, counts, objects, Create, CreateFails,
     Copy, MakeWeak, Lock, Test, AddWeak, Exchange, Increment, Release, FreeValue,
     WeakRelease, FreeRefCount
<1>5. state' \in [Handles -> States]
  BY <1>1 DEF Types, Next, vars, counts, objects, Create, CreateFails, Copy, MakeWeak, Lock,
     Test, AddWeak, Exchange, Increment, Release, FreeValue, WeakRelease, FreeRefCount,
     Goto, States, Copying
<1>6. (source \in [Handles -> Handles] /\ refCountTemp \in [Handles -> Int])'
  BY <1>1 DEF Types, Next, vars, counts, objects, Create, CreateFails, Copy, MakeWeak, Lock,
     Test, AddWeak, Exchange, Increment, Release, FreeValue, WeakRelease, FreeRefCount,
     Return
<1>7. QED
  BY <1>2, <1>3, <1>4, <1>5, <1>6 DEF Types


\* A copy owns the value before it holds the counts.
LEMMA CopyStep ==
  ASSUME Inv, Types', NEW h \in Handles, NEW g \in Handles, Copy(h, g)
  PROVE  Inv'
<1>1. Counted'
  <2>1. h \notin Owners /\ Owners' = Owners \cup {h}
    BY DEF Inv, Types, Copy, Goto, objects, Owners, Owns, Holders, HoldsCounts
  <2>2. Holders' = Holders
    BY DEF Inv, Types, Copy, Goto, objects, Owners, Owns, Holders, HoldsCounts
  <2>3. SelfCount' = SelfCount
    BY DEF Inv, Types, ValueLife, SelfCount, Copy, Goto, objects
  <2>4. QED
    BY <2>1, <2>2, <2>3, SubsetSizes, OwnersAndHolders, CountTypes DEF Inv, Types, Counted, Copy, Goto, objects
<1>2. Sourced'
  BY DEF Inv, Types, Sourced, Copy, Goto, objects, Copying
<1>3. ValueLife'
  BY ZenonT(30) DEF Inv, Types, ValueLife, Owns, Copy, Goto, objects
<1>4. BlockLife'
  BY DEF Inv, Types, BlockLife, Copy, Goto, objects
<1>5. QED
  BY <1>1, <1>2, <1>3, <1>4 DEF Inv

\* A new weak_ptr holds the counts.
LEMMA MakeWeakStep ==
  ASSUME Inv, Types', NEW h \in Handles, NEW g \in Handles, MakeWeak(h, g)
  PROVE  Inv'
<1>1. Counted'
  <2>1. Owners' = Owners
    BY DEF Inv, Types, MakeWeak, Goto, objects, Owners, Owns, Holders, HoldsCounts
  <2>2. h \notin Holders /\ Holders' = Holders \cup {h}
    BY DEF Inv, Types, MakeWeak, Goto, objects, Owners, Owns, Holders, HoldsCounts
  <2>3. SelfCount' = SelfCount
    BY DEF Inv, Types, ValueLife, SelfCount, MakeWeak, Goto, objects
  <2>4. QED
    BY <2>1, <2>2, <2>3, SubsetSizes, OwnersAndHolders, CountTypes DEF Inv, Types, Counted, MakeWeak, Goto, objects
<1>2. Sourced'
  BY DEF Inv, Types, Sourced, MakeWeak, Goto, objects, Copying
<1>3. ValueLife'
  BY DEF Inv, Types, ValueLife, Owns, MakeWeak, Goto, objects
<1>4. BlockLife'
  BY DEF Inv, Types, BlockLife, MakeWeak, Goto, objects
<1>5. QED
  BY <1>1, <1>2, <1>3, <1>4 DEF Inv

\* A test of lock's loop changes no count, whether it goes on or ends it.
LEMMA TestStep ==
  ASSUME Inv, Types', NEW h \in Handles, NEW g \in Handles,
         state[h] \in {"none", "cas"}, state[g] = "weak",
         Test(h, g), UNCHANGED <<counts, objects>>
  PROVE  Inv'
<1>1. /\ state'[h] \in {"none", "cas"}
      /\ state'[h] = "cas" => source'[h] = g /\ refCountTemp'[h] # 0
  BY DEF Inv, Types, Test, Return, Goto
<1>2. \A x \in Handles : x # h =>
        state'[x] = state[x] /\ source'[x] = source[x] /\ refCountTemp'[x] = refCountTemp[x]
  BY DEF Inv, Types, Test, Return, Goto
<1>3. UNCHANGED <<mRefCount, mWeakRefCount, value, block, self>>
  BY DEF counts, objects
<1>4. Counted'
  <2>1. Owners' = Owners /\ Holders' = Holders
    BY <1>1, <1>2 DEF Owners, Owns, Holders, HoldsCounts
  <2>2. (\E x \in Handles : state'[x] = "self") <=> (\E x \in Handles : state[x] = "self")
    BY <1>1, <1>2
  <2>3. SelfCount' = SelfCount
    BY <2>2, <1>3 DEF SelfCount
  <2>4. QED
    BY <2>1, <2>3, <1>3 DEF Inv, Counted
<1>5. Sourced'
  <2>1. \A x \in Handles : state'[x] \in {"shared", "weak"} <=> state[x] \in {"shared", "weak"}
    BY <1>1, <1>2
  <2>2. \A x \in Handles : state'[x] = "weak" <=> state[x] = "weak"
    BY <1>1, <1>2
  <2>3. QED
    BY <1>1, <1>2, <2>1, <2>2 DEF Inv, Types, Sourced, Copying
<1>6. ValueLife'
  <2>1. \A x \in Handles :
           /\ state'[x] \in {"count", "shared"} <=> state[x] \in {"count", "shared"}
           /\ state'[x] = "free_value" <=> state[x] = "free_value"
           /\ state'[x] = "self" <=> state[x] = "self"
    BY <1>1, <1>2
  <2>2. QED
    BY <1>3, <2>1 DEF Inv, ValueLife, Owns
<1>7. BlockLife'
  <2>1. \A x \in Handles : state'[x] # "none" => block = "alive"
    BY <1>1, <1>2 DEF Inv, BlockLife
  <2>2. \A x \in Handles : state'[x] # "free_ref_count_sp"
    BY <1>1, <1>2 DEF Inv, BlockLife
  <2>3. g # h /\ state'[g] # "none"
    BY <1>2
  <2>4. QED
    BY <1>3, <2>1, <2>2, <2>3 DEF Inv, BlockLife
<1>8. QED
  BY <1>4, <1>5, <1>6, <1>7 DEF Inv

\* The second half of addref: the copy holds the counts too.
LEMMA AddWeakStep ==
  ASSUME Inv, Types', NEW h \in Handles, AddWeak(h)
  PROVE  Inv'
<1>1. Counted'
  <2>1. Owners' = Owners
    BY DEF Inv, Types, AddWeak, Return, Goto, objects, Owners, Owns, Holders, HoldsCounts
  <2>2. h \notin Holders /\ Holders' = Holders \cup {h}
    BY DEF Inv, Types, AddWeak, Return, Goto, objects, Owners, Owns, Holders, HoldsCounts
  <2>3. SelfCount' = SelfCount
    BY DEF Inv, Types, ValueLife, SelfCount, AddWeak, Return, Goto, objects
  <2>4. QED
    BY <2>1, <2>2, <2>3, SubsetSizes, OwnersAndHolders, CountTypes DEF Inv, Types, Counted, AddWeak, Return, Goto, objects
<1>2. Sourced'
  BY DEF Inv, Types, Sourced, AddWeak, Return, Goto, objects, Copying
<1>3. ValueLife'
  BY DEF Inv, Types, ValueLife, Owns, AddWeak, Return, Goto, objects
<1>4. BlockLife'
  BY DEF Inv, Types, BlockLife, AddWeak, Return, Goto, objects
<1>5. QED
  BY <1>1, <1>2, <1>3, <1>4 DEF Inv

\* A successful exchange owns the value: the count was not zero, so it lives.
LEMMA IncrementStep ==
  ASSUME Inv, Types', NEW h \in Handles, state[h] = "cas",
         mRefCount = refCountTemp[h], Increment(h)
  PROVE  Inv'
<1>1. Counted'
  <2>1. h \notin Owners /\ Owners' = Owners \cup {h}
    BY DEF Inv, Types, Increment, Goto, Owners, Owns
  <2>2. Holders' = Holders
    BY DEF Inv, Types, Increment, Goto, Holders, HoldsCounts
  <2>3. SelfCount' = SelfCount
    BY DEF Inv, Types, Increment, Goto, objects, SelfCount
  <2>4. mRefCount' = mRefCount + 1 /\ mWeakRefCount' = mWeakRefCount
    BY DEF Increment
  <2>5. Cardinality(Owners') = Cardinality(Owners) + 1
    BY <2>1, SubsetSizes, OwnersAndHolders
  <2>6. QED
    BY <2>2, <2>3, <2>4, <2>5 DEF Inv, Counted
<1>2. PICK o \in Handles : Owns(o)
  <2>1. Cardinality(Owners) # 0
    BY DEF Inv, Counted, Sourced
  <2>2. QED
    BY <2>1, SubsetSizes, OwnersAndHolders DEF Owners
<1>3. value = "alive"
  BY <1>2 DEF Inv, ValueLife
<1>4. Sourced'
  BY DEF Inv, Types, Sourced, Increment, Goto, Copying
<1>5. ValueLife'
  BY <1>2, <1>3 DEF Inv, Types, ValueLife, Owns, Increment, Goto, objects
<1>6. BlockLife'
  BY DEF Inv, Types, BlockLife, Increment, Goto, objects
<1>7. QED
  BY <1>1, <1>4, <1>5, <1>6 DEF Inv

\* The last release begins to free the value, any other goes on to the counts.
LEMMA ReleaseStep ==
  ASSUME Inv, Types', NEW h \in Handles, Release(h)
  PROVE  Inv'
<1>1. /\ state'[h] = IF mRefCount = 1 THEN "free_value" ELSE "weak_release"
      /\ \A x \in Handles : x # h => state'[x] = state[x]
      /\ state[h] = "shared"
  BY DEF Inv, Types, Release, Goto
<1>2. UNCHANGED <<mWeakRefCount, value, block, self, source, refCountTemp>>
  BY DEF Release, objects
<1>3. Counted'
  <2>1. h \in Owners /\ Owners' = Owners \ {h}
    BY <1>1 DEF Owners, Owns
  <2>2. Holders' = Holders
    BY <1>1 DEF Holders, HoldsCounts
  <2>3. SelfCount' = SelfCount
    <3>1. (\E x \in Handles : state'[x] = "self") <=> (\E x \in Handles : state[x] = "self")
      BY <1>1
    <3>2. QED
      BY <3>1, <1>2 DEF SelfCount
  <2>4. QED
    BY <1>2, <2>1, <2>2, <2>3, SubsetSizes, OwnersAndHolders, CountTypes
    DEF Inv, Types, Counted, Release
<1>4. Sourced'
  BY <1>1, <1>2 DEF Inv, Types, Sourced, Release, Free, Copying
<1>5. ValueLife'
  <2>1. value = "alive"
    BY <1>1 DEF Inv, ValueLife, Owns
  <2>2. CASE mRefCount = 1
    <3>1. \A x \in Handles : x # h => ~Owns(x)
      BY <1>1, <2>2, LastOwner DEF Owns
    <3>2. \A x \in Handles : ~(Owns(x))'
      BY <1>1, <2>2, <3>1 DEF Owns
    <3>3. \A x \in Handles : (state'[x] = "free_value" <=> x = h) /\ state'[x] # "self"
      BY <1>1, <2>1, <2>2 DEF Inv, ValueLife, Owns
    <3>4. QED
      BY <1>2, <2>1, <3>2, <3>3 DEF ValueLife
  <2>3. CASE mRefCount # 1
    <3>1. PICK o \in Handles : o # h /\ Owns(o)
      <4>1. h \in Owners /\ Cardinality(Owners) # 1
        BY <1>1, <2>3 DEF Inv, Counted, Owners, Owns
      <4>2. Owners # {h}
        BY <4>1, FS_Singleton
      <4>3. QED
        BY <4>1, <4>2 DEF Owners
    <3>2. (Owns(o))'
      BY <1>1, <3>1 DEF Owns
    <3>3. \A x \in Handles : state'[x] # "free_value" /\ state'[x] # "self"
      BY <1>1, <2>1, <2>3 DEF Inv, ValueLife, Owns
    <3>4. QED
      BY <1>2, <2>1, <3>2, <3>3 DEF ValueLife
  <2>4. QED
    BY <2>2, <2>3
<1>6. BlockLife'
  BY <1>1, <1>2 DEF Inv, BlockLife
<1>7. QED
  BY <1>3, <1>4, <1>5, <1>6 DEF Inv

\* The value is freed by the one thread that found its count at one.
LEMMA FreeValueStep ==
  ASSUME Inv, Types', NEW h \in Handles, FreeValue(h)
  PROVE  Inv'
<1>1. /\ state'[h] = IF self THEN "self" ELSE "weak_release"
      /\ \A x \in Handles : x # h => state'[x] = state[x]
      /\ state[h] = "free_value"
  BY DEF Inv, Types, FreeValue, Goto
<1>2. UNCHANGED <<mRefCount, mWeakRefCount, block, self, source, refCountTemp>>
  BY DEF FreeValue, counts
<1>3. value = "alive" /\ value' = "freed"
  BY <1>1 DEF Inv, ValueLife, FreeValue, Freed
<1>4. \A x \in Handles : ~Owns(x) /\ state[x] # "self" /\ (state[x] = "free_value" => x = h)
  BY <1>1, <1>3 DEF Inv, ValueLife
<1>5. self \in BOOLEAN
  BY DEF Inv, Types
<1>6. Counted'
  <2>1. Owners' = Owners
    BY <1>1 DEF Owners, Owns
  <2>2. Holders' = Holders
    BY <1>1 DEF Holders, HoldsCounts
  <2>3. SelfCount' = SelfCount
    <3>1. CASE self
      <4>1. SelfCount = 1
        BY <1>3, <3>1 DEF SelfCount
      <4>2. self' /\ state'[h] = "self"
        BY <1>1, <1>2, <3>1
      <4>3. SelfCount' = 1
        BY <4>2 DEF SelfCount
      <4>4. QED
        BY <4>1, <4>3
    <3>2. CASE ~self
      BY <1>2, <3>2 DEF SelfCount
    <3>3. QED
      BY <3>1, <3>2
  <2>4. QED
    BY <1>2, <2>1, <2>2, <2>3 DEF Inv, Counted
<1>7. Sourced'
  BY <1>1, <1>2 DEF Inv, Types, Sourced, Copying
<1>8. ValueLife'
  <2>1. \A x \in Handles : ~(Owns(x))' /\ state'[x] # "free_value"
    BY <1>1, <1>4 DEF Owns
  <2>2. \A x \in Handles : state'[x] = "self" => x = h /\ self'
    BY <1>1, <1>2, <1>4, <1>5
  <2>3. QED
    BY <1>3, <2>1, <2>2 DEF ValueLife
<1>9. BlockLife'
  BY <1>1, <1>2, <1>3 DEF Inv, BlockLife
<1>10. QED
  BY <1>6, <1>7, <1>8, <1>9 DEF Inv

\* Whoever drops the last hold on the counts is alone with them.
LEMMA WeakReleaseStep ==
  ASSUME Inv, Types', NEW h \in Handles, WeakRelease(h)
  PROVE  Inv'
<1> DEFINE next == IF mWeakRefCount = 1 THEN "free_ref_count_sp"
                   ELSE IF state[h] = "self" THEN "weak_release" ELSE "none"
<1>1. /\ state'[h] = next
      /\ \A x \in Handles : x # h => state'[x] = state[x]
      /\ state[h] \in {"weak", "self", "weak_release"}
      /\ Free(h)
  BY DEF Inv, Types, WeakRelease, Goto
<1>2. UNCHANGED <<mRefCount, value, block, self, source, refCountTemp>>
  BY DEF WeakRelease, objects
<1>3. mWeakRefCount = 1 =>
        state[h] # "self" /\ \A x \in Handles : x # h => state[x] = "none"
  BY <1>1, LastHolder DEF HoldsCounts
<1>4. Counted'
  <2>1. Owners' = Owners
    BY <1>1 DEF Owners, Owns
  <2>2. CASE state[h] = "self"
    <3>1. state'[h] = "weak_release"
      BY <1>1, <1>3, <2>2
    <3>2. Holders' = Holders
      BY <1>1, <2>2, <3>1 DEF Holders, HoldsCounts
    <3>3. SelfCount = 1
      BY <2>2 DEF Inv, ValueLife, SelfCount
    <3>4. value # "alive" /\ \A x \in Handles : state'[x] # "self"
      BY <1>1, <2>2, <3>1 DEF Inv, ValueLife
    <3>5. SelfCount' = 0
      BY <1>2, <3>4 DEF SelfCount
    <3>6. QED
      BY <1>2, <2>1, <3>2, <3>3, <3>5, CountTypes DEF Inv, Types, Counted, WeakRelease
  <2>3. CASE state[h] # "self"
    <3>1. state'[h] \in {"free_ref_count_sp", "none"}
      BY <1>1, <2>3
    <3>2. h \in Holders /\ Holders' = Holders \ {h}
      BY <1>1, <3>1 DEF Holders, HoldsCounts
    <3>3. (\E x \in Handles : state'[x] = "self") <=> (\E x \in Handles : state[x] = "self")
      BY <1>1, <2>3, <3>1
    <3>4. SelfCount' = SelfCount
      BY <1>2, <3>3 DEF SelfCount
    <3>5. QED
      BY <1>2, <2>1, <3>2, <3>4, SubsetSizes, OwnersAndHolders, CountTypes
      DEF Inv, Types, Counted, WeakRelease
  <2>4. QED
    BY <2>2, <2>3
<1>5. Sourced'
  <2>1. \A x \in Handles : state'[x] \in Copying <=> state[x] \in Copying
    BY <1>1 DEF Copying
  <2>2. \A x \in Handles : state'[x] = "cas" <=> state[x] = "cas"
    BY <1>1
  <2>3. \A x \in Handles : state[x] \in Copying => source[x] # h /\ source[x] \in Handles
    BY <1>1 DEF Free, Inv, Types
  <2>4. QED
    BY <1>1, <1>2, <2>1, <2>2, <2>3 DEF Inv, Sourced, Copying
<1>6. ValueLife'
  <2>1. \A x \in Handles :
          /\ state'[x] \in {"count", "shared"} <=> state[x] \in {"count", "shared"}
          /\ state'[x] = "free_value" <=> state[x] = "free_value"
          /\ state'[x] = "self" => state[x] = "self"
    BY <1>1
  <2>2. QED
    BY <1>2, <2>1 DEF Inv, ValueLife, Owns
<1>7. BlockLife'
  <2>1. \A x \in Handles : state'[x] # "none" => block = "alive"
    BY <1>1 DEF Inv, BlockLife
  <2>2. \A x \in Handles : state'[x] = "free_ref_count_sp" =>
          \A y \in Handles : y # x => state'[y] = "none"
    <3>1. SUFFICES ASSUME NEW x \in Handles, state'[x] = "free_ref_count_sp",
                          NEW y \in Handles, y # x
                   PROVE  state'[y] = "none"
      OBVIOUS
    <3>2. CASE x = h
      BY <1>1, <1>3, <3>1, <3>2
    <3>3. CASE x # h
      BY <1>1, <3>1, <3>3 DEF Inv, BlockLife
    <3>4. QED
      BY <3>2, <3>3
  <2>3. \E x \in Handles : state'[x] # "none"
    <3>1. CASE mWeakRefCount = 1 \/ state[h] = "self"
      BY <1>1, <3>1
    <3>2. CASE mWeakRefCount # 1 /\ state[h] # "self"
      <4>1. \E x \in Handles : x # h /\ (HoldsCounts(x) \/ Owns(x) \/ state[x] = "free_value")
        <5>1. CASE SelfCount = 1
          <6>1. value = "alive" \/ \E x \in Handles : state[x] = "self"
            BY <5>1 DEF SelfCount
          <6>2. QED
            BY <1>1, <3>2, <6>1 DEF Inv, ValueLife, HoldsCounts, Owns
        <5>2. CASE SelfCount # 1
          <6>1. h \in Holders /\ Cardinality(Holders) # 1
            BY <1>1, <3>2, <5>2, CountTypes DEF Inv, Counted, Holders, HoldsCounts
          <6>2. Holders # {h}
            BY <6>1, FS_Singleton
          <6>3. QED
            BY <6>1, <6>2 DEF Holders
        <5>3. QED
          BY <5>1, <5>2
      <4>2. QED
        BY <1>1, <4>1 DEF HoldsCounts, Owns
    <3>3. QED
      BY <3>1, <3>2
  <2>4. QED
    BY <1>2, <2>1, <2>2, <2>3 DEF Inv, BlockLife
<1>8. QED
  BY <1>4, <1>5, <1>6, <1>7 DEF Inv

\* The counts are freed by the last handle alone.
LEMMA FreeRefCountStep ==
  ASSUME Inv, Types', NEW h \in Handles, FreeRefCount(h)
  PROVE  Inv'
<1>1. /\ \A x \in Handles : state'[x] = "none"
      /\ \A x \in Handles : ~Owns(x) /\ ~HoldsCounts(x)
      /\ state[h] = "free_ref_count_sp"
  BY DEF Inv, Types, BlockLife, FreeRefCount, Goto, Owns, HoldsCounts
<1>2. UNCHANGED <<mRefCount, mWeakRefCount, value, self>>
  BY DEF FreeRefCount, counts
<1>3. block = "alive" /\ block' = "freed"
  BY <1>1 DEF Inv, BlockLife, FreeRefCount, Freed
<1>4. value # "alive" /\ value # "none"
  BY <1>1, <1>3 DEF Inv, ValueLife, BlockLife, HoldsCounts
<1>5. Counted'
  <2>1. Owners = {} /\ Owners' = {} /\ Holders = {} /\ Holders' = {}
    BY <1>1 DEF Owners, Owns, Holders, HoldsCounts
  <2>2. SelfCount = 0 /\ SelfCount' = 0
    BY <1>1, <1>2, <1>4 DEF SelfCount, HoldsCounts
  <2>3. QED
    BY <1>2, <2>1, <2>2 DEF Inv, Counted
<1>6. Sourced'
  BY <1>1 DEF Sourced, Copying
<1>7. ValueLife'
  BY <1>1, <1>2, <1>4 DEF Inv, ValueLife, Owns
<1>8. BlockLife'
  BY <1>1, <1>2, <1>3, <1>4 DEF BlockLife
<1>9. QED
  BY <1>5, <1>6, <1>7, <1>8 DEF Inv

\* Before the value is made, nobody is there.
LEMMA Fresh ==
  ASSUME Inv, value = "none"
  PROVE  \A x \in Handles : state[x] = "none"
BY DEF Inv, BlockLife

LEMMA CreateStep ==
  ASSUME Inv, Types', NEW h \in Handles, Create(h)
  PROVE  Inv'
<1>1. value = "none" /\ value' = "alive" /\ block' = "alive"
  BY DEF Create
<1>2. state'[h] = "shared" /\ \A x \in Handles : x # h => state'[x] = "none"
  BY <1>1, Fresh DEF Inv, Types, Create, Goto
<1>3. Counted'
  <2>1. Owners' = {h} /\ Holders' = {h}
    BY <1>2 DEF Owners, Owns, Holders, HoldsCounts
  <2>2. Cardinality({h}) = 1
    BY FS_Singleton
  <2>3. mRefCount' = 1 /\ mWeakRefCount' = IF self' THEN 2 ELSE 1
    BY DEF Create
  <2>4. SelfCount' = IF self' THEN 1 ELSE 0
    BY <1>1, <1>2 DEF SelfCount
  <2>5. Cardinality(Holders') + SelfCount' = IF self' THEN 2 ELSE 1
    BY <2>1, <2>2, <2>4
  <2>6. QED
    BY <2>1, <2>2, <2>3, <2>5 DEF Counted
<1>4. Sourced' /\ ValueLife' /\ BlockLife'
  BY <1>1, <1>2 DEF Sourced, Copying, ValueLife, Owns, BlockLife
<1>5. QED
  BY <1>3, <1>4 DEF Inv

LEMMA CreateFailsStep ==
  ASSUME Inv, Types', CreateFails
  PROVE  Inv'
<1>1. value = "none" /\ value' = "freed" /\ block' = "freed" /\ UNCHANGED <<counts, self, state>>
  BY DEF CreateFails
<1>2. \A x \in Handles : state[x] = "none"
  BY <1>1, Fresh
<1>3. Counted'
  <2>1. SelfCount = 0 /\ SelfCount' = 0
    BY <1>1, <1>2 DEF SelfCount
  <2>2. Owners' = Owners /\ Holders' = Holders
    BY <1>1 DEF Owners, Owns, Holders, HoldsCounts
  <2>3. QED
    BY <1>1, <2>1, <2>2 DEF Inv, Counted, counts
<1>4. Sourced' /\ ValueLife' /\ BlockLife'
  BY <1>1, <1>2 DEF Sourced, Copying, ValueLife, Owns, BlockLife
<1>5. QED
  BY <1>3, <1>4 DEF Inv

LEMMA InvInit == Init => Inv
<1>1. SUFFICES ASSUME Init PROVE Inv
  OBVIOUS
<1>2. Types
  <2>1. self \in BOOLEAN
    BY <1>1 DEF Init
  <2>2. /\ state \in [Handles -> States] /\ source \in [Handles -> Handles]
        /\ refCountTemp \in [Handles -> Int]
    BY <1>1 DEF Init, States
  <2>3. mRefCount \in Int /\ mWeakRefCount \in Int /\ value \in Lives /\ block \in Lives
    BY <1>1 DEF Init, Lives
  <2>4. QED
    BY <2>1, <2>2, <2>3 DEF Types
<1>3. Owners = {} /\ Holders = {} /\ SelfCount = 0
  BY <1>1 DEF Init, Owners, Owns, Holders, HoldsCounts, SelfCount
<1>4. Counted
  BY <1>1, <1>3, FS_EmptySet DEF Init, Counted
<1>5. Sourced /\ ValueLife /\ BlockLife
  BY <1>1 DEF Init, Sourced, Copying, ValueLife, Owns, BlockLife
<1>6. QED
  BY <1>2, <1>4, <1>5 DEF Inv

LEMMA InvStep == Inv /\ [Next]_vars => Inv'
<1>1. SUFFICES ASSUME Inv, [Next]_vars PROVE Inv'
  OBVIOUS
<1>2. Types'
  BY <1>1, TypeStep DEF Inv
<1>3. CASE UNCHANGED vars
  BY <1>1, <1>3, ZenonT(30) DEF vars, Inv, Types, Counted, Owners, Owns, Holders, HoldsCounts,
     SelfCount, Sourced, ValueLife, BlockLife
<1>4. CASE CreateFails
  BY <1>1, <1>2, <1>4, CreateFailsStep
<1>5. ASSUME NEW h \in Handles, Create(h) \/ AddWeak(h) PROVE Inv'
  BY <1>1, <1>2, <1>5, CreateStep, AddWeakStep
<1>6. ASSUME NEW h \in Handles, NEW g \in Handles, Copy(h, g) \/ MakeWeak(h, g) PROVE Inv'
  BY <1>1, <1>2, <1>6, CopyStep, MakeWeakStep
<1>7. ASSUME NEW h \in Handles, NEW g \in Handles, Lock(h, g) PROVE Inv'
  BY <1>1, <1>2, <1>7, TestStep DEF Lock
<1>8. ASSUME NEW h \in Handles, Exchange(h) PROVE Inv'
  <2>1. CASE mRefCount = refCountTemp[h] /\ Increment(h)
    BY <1>1, <1>2, <1>8, <2>1, IncrementStep DEF Exchange
  <2>2. CASE Test(h, source[h]) /\ UNCHANGED <<counts, objects>>
    <3>1. source[h] \in Handles /\ state[source[h]] = "weak" /\ state[h] = "cas"
      BY <1>1, <1>8 DEF Exchange, Inv, Types, Sourced
    <3>2. QED
      BY <1>1, <1>2, <1>8, <2>2, <3>1, TestStep
  <2>3. QED
    BY <1>8, <2>1, <2>2 DEF Exchange
<1>9. ASSUME NEW h \in Handles, Release(h) \/ FreeValue(h) PROVE Inv'
  BY <1>1, <1>2, <1>9, ReleaseStep, FreeValueStep
<1>10. ASSUME NEW h \in Handles, WeakRelease(h) \/ FreeRefCount(h) PROVE Inv'
  BY <1>1, <1>2, <1>10, WeakReleaseStep, FreeRefCountStep
<1>11. QED
  BY <1>1, <1>3, <1>4, <1>5, <1>6, <1>7, <1>8, <1>9, <1>10 DEF Next

-----------------------------------------------------------------------------
(* The counts, the value, the handles and what their functions remember stay *)
(* in their types, for every number of handles.                              *)
THEOREM TypeCorrect == Spec => []TypeOK
<1>1. Inv => TypeOK
  BY CountTypes DEF Inv, Types, Counted, TypeOK
<1>2. QED
  BY <1>1, InvInit, InvStep, PTL DEF Spec

(* Every shared_ptr, and every one that lock is about to return, has a living *)
(* value: the two separate additions of addref and the exchange of lock never *)
(* let a release free what is still owned.                                   *)
THEOREM OwnedValuesLive == Spec => []OwnersHaveTheValue
<1>1. Inv => OwnersHaveTheValue
  BY DEF Inv, ValueLife, Owns, OwnersHaveTheValue
<1>2. QED
  BY <1>1, InvInit, InvStep, PTL DEF Spec

(* No handle and no operation under way finds the counts gone.               *)
THEOREM CountsAreThere == Spec => []CountsOutliveHandles
<1>1. Inv => CountsOutliveHandles
  BY DEF Inv, BlockLife, CountsOutliveHandles
<1>2. QED
  BY <1>1, InvInit, InvStep, PTL DEF Spec

(* Value and counts are freed once, by the time the last handle is gone.     *)
THEOREM EverythingFreedOnce == Spec => []FreedExactlyOnce
<1>1. Inv => FreedExactlyOnce
  <2>1. SUFFICES ASSUME Inv, \A h \in Handles : state[h] = "none"
                 PROVE  value = block /\ value # "alive"
    BY DEF Inv, ValueLife, BlockLife, FreedExactlyOnce
  <2>2. value # "alive" /\ block # "alive"
    BY <2>1 DEF Inv, ValueLife, BlockLife, Owns
  <2>3. QED
    BY <2>1, <2>2 DEF Inv, Types, Lives, ValueLife, BlockLife
<1>2. QED
  BY <1>1, InvInit, InvStep, PTL DEF Spec

-----------------------------------------------------------------------------
(* KcrtHeap.                                                                 *)

(* The invariant.                                                            *)

Blocks == [used : BOOLEAN, length : Nat, Tags : {Tag, "garbage"}, Size : Nat,
           cell : [Cells -> Values]]

HeapTypeOK ==
  /\ pool \in [Addrs -> Blocks]
  /\ DOMAIN held \subseteq Addrs
  /\ \A a \in DOMAIN held :
       held[a].size \in Nat /\ held[a] = [size |-> held[a].size, knows |-> held[a].knows]

\* A block of ours has our tag.
Tagged == \A a \in DOMAIN held : pool[a].Tags = Tag

\* The Size of the header is that of the block, and no less than its owner
\* knows of.
Roomy ==
  \A a \in DOMAIN held : Fits(a) =>
    /\ held[a].size <= pool[a].Size
    /\ pool[a].length = HeaderSize + pool[a].Size

\* What the owner knows is in the block.
Kept ==
  \A a \in DOMAIN held : Fits(a) =>
    \A i \in DOMAIN held[a].knows :
      i \in Below(held[a].size) /\ pool[a].cell[i] = held[a].knows[i]

HeapInv == HeapTypeOK /\ EveryBlockReturnable /\ Tagged /\ Roomy /\ Kept

-----------------------------------------------------------------------------
LEMMA Numbers ==
  /\ Word \in Nat /\ HeaderSize \in Nat /\ HeaderSize < Word /\ 0 \in Values
  /\ Sizes \subseteq 0..(Word - 1)
  /\ Cells \subseteq Nat
BY HeapAssumption DEF HeapAssumption, Cells

(* Sizes that fit do not wrap.                                               *)
LEMMA NoWrap ==
  ASSUME NEW n \in Nat, n + HeaderSize < Word
  PROVE  n % Word = n /\ BlockSize(n) = n + HeaderSize
BY Numbers DEF BlockSize

LEMMA SizesAreNat == \A n \in Nat : n % Word \in Nat /\ BlockSize(n) \in Nat
BY Numbers DEF BlockSize

(* What memcpy and ExFreePool make of the pool.                              *)
LEMMA CarryMakes ==
  ASSUME NEW p \in [Addrs -> Blocks], NEW a \in Addrs, NEW b \in Addrs
  PROVE  LET q == Carry(p, a, b) IN
         /\ q \in [Addrs -> Blocks]
         /\ \A c \in Addrs : c # b => q[c] = p[c]
         /\ q[b].used = p[b].used /\ q[b].Tags = p[b].Tags
         /\ q[b].Size = p[b].Size /\ q[b].length = p[b].length
         /\ \A i \in Cells : i < p[a].Size => q[b].cell[i] = p[a].cell[i]
BY DEF Carry, Blocks

LEMMA FreeMakes ==
  ASSUME NEW p \in [Addrs -> Blocks], NEW a \in Addrs
  PROVE  LET q == FreeBlock(p, a) IN
         /\ q \in [Addrs -> Blocks]
         /\ \A b \in Addrs : b # a => q[b] = p[b]
         /\ q[a].used = FALSE
BY DEF FreeBlock, Blocks

-----------------------------------------------------------------------------
(* A block from the pool, zeroed.                                            *)
LEMMA NewBlock ==
  ASSUME HeapInv, NEW a \in Addrs, Available(a), NEW size \in Nat, NEW knows,
         \A i \in DOMAIN knows : i \in Below(size) /\ knows[i] = 0,
         pool' = Malloc(pool, a, size % Word),
         held' = Holding(held, a, size, knows),
         UNCHANGED <<bugcheck, overrun>>
  PROVE  HeapInv'
<1> USE DEF HeapInv
<1>1. pool \in [Addrs -> Blocks] /\ size % Word \in Nat /\ a \notin DOMAIN held
  BY SizesAreNat DEF HeapTypeOK, EveryBlockReturnable, Available
<1>2. /\ pool' \in [Addrs -> Blocks]
      /\ \A b \in Addrs : b # a => pool'[b] = pool[b]
      /\ pool'[a].used = TRUE /\ pool'[a].Tags = Tag /\ pool'[a].Size = size % Word
      /\ pool'[a].length = BlockSize(size % Word)
      /\ \A i \in Cells : HeaderSize + i < BlockSize(size % Word) => pool'[a].cell[i] = 0
  <2> DEFINE n == size % Word
  <2>1. n \in Nat
    BY <1>1
  <2> HIDE DEF n
  <2>2. pool' = Malloc(pool, a, n)
    BY DEF n
  <2>3. n = size % Word
    BY DEF n
  <2> QED
    BY ONLY <1>1, <2>1, <2>2, <2>3, Numbers, SizesAreNat DEF Malloc, Blocks
<1>3. /\ DOMAIN held' = DOMAIN held \cup {a}
      /\ held'[a] = [size |-> size, knows |-> knows]
      /\ \A b \in DOMAIN held : b # a /\ held'[b] = held[b]
  BY <1>1 DEF Holding, With
<1>4. HeapTypeOK' /\ Tagged'
  BY <1>2, <1>3 DEF HeapTypeOK, Tagged
<1>5. EveryBlockReturnable'
  BY <1>2, <1>3 DEF HeapTypeOK, EveryBlockReturnable
<1>6. Fits(a)' => /\ size % Word = size /\ BlockSize(size % Word) = size + HeaderSize
  BY <1>3, NoWrap DEF Fits
<1>7. \A b \in DOMAIN held : Fits(b)' <=> Fits(b)
  BY <1>3 DEF Fits
<1>8. Roomy'
  BY <1>2, <1>3, <1>6, <1>7, Numbers DEF Roomy, HeapTypeOK
<1>9. Kept'
  <2>1. ASSUME Fits(a)', NEW i \in DOMAIN knows
        PROVE  i \in Below(size) /\ pool'[a].cell[i] = knows[i]
    <3>1. i \in Cells /\ i \in Nat /\ i < size /\ knows[i] = 0
      BY <2>1, Numbers DEF Below
    <3>2. HeaderSize + i < BlockSize(size % Word)
      BY ONLY <1>6, <2>1, <3>1, size \in Nat, Numbers
    <3> QED
      BY <1>2, <2>1, <3>1, <3>2
  <2> QED
    BY <1>2, <1>3, <1>7, <2>1 DEF Kept, HeapTypeOK
<1> QED
  BY <1>4, <1>5, <1>8, <1>9

(* A header past its block ends what is said of the pool.                    *)
LEMMA OverrunStep ==
  ASSUME HeapInv, NEW size, Overrun(size)
  PROVE  HeapInv'
  BY DEF Overrun, HeapInv, HeapTypeOK, EveryBlockReturnable, Tagged, Roomy, Kept, Fits

LEMMA CallMallocStep ==
  ASSUME HeapInv, NEW a \in Addrs, NEW size \in Sizes, CallMalloc(a, size)
  PROVE  HeapInv'
<1>1. size \in Nat /\ size % Word = size
  BY Numbers
<1>2. \A i \in DOMAIN [j \in {} |-> 0] : i \in Below(size) /\ [j \in {} |-> 0][i] = 0
  OBVIOUS
<1>3. CASE Overrun(size)
  BY <1>3, OverrunStep
<1>4. CASE ~Overrun(size)
  BY <1>1, <1>2, <1>4, NewBlock DEF CallMalloc
<1> QED
  BY <1>3, <1>4

LEMMA CallCallocStep ==
  ASSUME HeapInv, NEW a \in Addrs, NEW nmemb \in Sizes, NEW size \in Sizes,
         CallCalloc(a, nmemb, size)
  PROVE  HeapInv'
<1>1. nmemb * size \in Nat
  BY Numbers
<1> DEFINE n == nmemb * size
           knows == [i \in Below(n) |-> 0]
<1>2. \A i \in DOMAIN knows : i \in Below(n) /\ knows[i] = 0
  OBVIOUS
<1>3. \/ Overrun(n % Word)
      \/ /\ Available(a) /\ pool' = Malloc(pool, a, n % Word)
         /\ held' = Holding(held, a, n, knows) /\ UNCHANGED <<bugcheck, overrun>>
  BY DEF CallCalloc
<1>4. n \in Nat
  BY <1>1
<1> HIDE DEF n, knows
<1>5. CASE Overrun(n % Word)
  BY <1>5, OverrunStep
<1>6. CASE ~Overrun(n % Word)
  BY <1>2, <1>3, <1>4, <1>6, NewBlock
<1> QED
  BY <1>5, <1>6

(* free: the tag is there, and only this block goes.                         *)
LEMMA CallFreeStep ==
  ASSUME HeapInv, NEW a \in Addrs, CallFree(a)
  PROVE  HeapInv'
<1> USE DEF HeapInv
<1>1. /\ a \in DOMAIN held /\ pool' = FreeBlock(pool, a) /\ held' = Without(a)
      /\ UNCHANGED bugcheck
  BY DEF CallFree, BadTag, Tagged
<1>2. /\ pool' \in [Addrs -> Blocks] /\ pool'[a].used = FALSE
      /\ \A b \in Addrs : b # a => pool'[b] = pool[b]
  BY <1>1, FreeMakes DEF HeapTypeOK
<1>3. /\ DOMAIN held' = DOMAIN held \ {a}
      /\ \A b \in DOMAIN held' : held'[b] = held[b]
  BY <1>1 DEF Without, Restrict
<1>4. HeapTypeOK' /\ Tagged' /\ EveryBlockReturnable'
  BY <1>1, <1>2, <1>3 DEF HeapTypeOK, Tagged, EveryBlockReturnable
<1>5. Roomy' /\ Kept'
  BY <1>2, <1>3 DEF HeapTypeOK, Roomy, Kept, Fits
<1> QED
  BY <1>4, <1>5

(* realloc within the block: Size and cells stay, less is known.             *)
LEMMA ReallocStep ==
  ASSUME HeapInv, NEW a \in DOMAIN held, Fits(a), NEW size \in Sizes, Realloc(a, size)
  PROVE  HeapInv'
<1> USE DEF HeapInv
<1>0. size \in Nat
  BY Numbers
<1>1. /\ size <= pool[a].Size /\ UNCHANGED <<pool, bugcheck>>
      /\ held' = Holding(held, a, size, KnownBelow(a, size))
  BY DEF Realloc
<1>2. /\ DOMAIN held' = DOMAIN held
      /\ held'[a] = [size |-> size, knows |-> KnownBelow(a, size)]
      /\ \A b \in DOMAIN held : b # a => held'[b] = held[b]
  BY <1>1 DEF Holding, With
<1>3. HeapTypeOK' /\ Tagged' /\ EveryBlockReturnable'
  BY <1>0, <1>1, <1>2 DEF HeapTypeOK, Tagged, EveryBlockReturnable
<1>4. Roomy'
  BY <1>1, <1>2 DEF Roomy, Fits
<1>5. \A i \in DOMAIN KnownBelow(a, size) :
         /\ i \in DOMAIN held[a].knows /\ i \in Below(size)
         /\ KnownBelow(a, size)[i] = held[a].knows[i]
  BY DEF KnownBelow, Restrict
<1>6. Kept'
  BY <1>1, <1>2, <1>5 DEF Kept, Fits
<1> QED
  BY <1>3, <1>4, <1>6

(* realloc beyond it: what was known below the new size is in the new block. *)
LEMMA ReallocMovesStep ==
  ASSUME HeapInv, NEW a \in DOMAIN held, Fits(a), NEW size \in Sizes, NEW b \in Addrs,
         ReallocMoves(a, b, size), ~Overrun(size)
  PROVE  HeapInv'
<1> USE DEF HeapInv
<1> DEFINE p == Malloc(pool, b, size)
           q == Carry(p, a, b)
<1>0. size \in Nat /\ a \in Addrs
  BY Numbers DEF HeapTypeOK
<1>1. /\ size > pool[a].Size /\ b # a /\ b \notin DOMAIN held /\ UNCHANGED bugcheck
      /\ pool' = FreeBlock(q, a)
      /\ held' = Holding(Without(a), b, size, KnownBelow(a, size))
  BY DEF ReallocMoves, Available, EveryBlockReturnable
<1>2. /\ p \in [Addrs -> Blocks]
      /\ \A c \in Addrs : c # b => p[c] = pool[c]
      /\ p[b].used = TRUE /\ p[b].Tags = Tag /\ p[b].Size = size /\ p[b].length = BlockSize(size)
  BY <1>0, Numbers, SizesAreNat DEF HeapTypeOK, Malloc, Blocks
<1> HIDE DEF p
<1>3. /\ q \in [Addrs -> Blocks]
      /\ \A c \in Addrs : c # b => q[c] = p[c]
      /\ q[b].used = p[b].used /\ q[b].Tags = p[b].Tags
      /\ q[b].Size = p[b].Size /\ q[b].length = p[b].length
      /\ \A i \in Cells : i < p[a].Size => q[b].cell[i] = p[a].cell[i]
  BY <1>0, <1>2, CarryMakes
<1> HIDE DEF q
<1>4. /\ pool' \in [Addrs -> Blocks] /\ pool'[a].used = FALSE
      /\ \A c \in Addrs : c # a => pool'[c] = q[c]
  BY <1>0, <1>1, <1>3, FreeMakes
<1>5. /\ DOMAIN held' = (DOMAIN held \ {a}) \cup {b}
      /\ held'[b] = [size |-> size, knows |-> KnownBelow(a, size)]
      /\ \A c \in DOMAIN held' : c # b => held'[c] = held[c]
  <2>1. DOMAIN Without(a) = DOMAIN held \ {a} /\ \A c \in DOMAIN Without(a) : Without(a)[c] = held[c]
    BY DEF Without, Restrict
  <2> QED
    BY <1>1, <2>1 DEF Holding, With
<1>6. /\ pool'[b].used = TRUE /\ pool'[b].Tags = Tag /\ pool'[b].Size = size
      /\ pool'[b].length = BlockSize(size)
      /\ \A i \in Cells : i < pool[a].Size => pool'[b].cell[i] = pool[a].cell[i]
      /\ \A c \in Addrs : c \notin {a, b} => pool'[c] = pool[c]
  BY <1>0, <1>1, <1>2, <1>3, <1>4
<1>7. HeapTypeOK' /\ Tagged'
  BY <1>0, <1>4, <1>5, <1>6 DEF HeapTypeOK, Tagged
<1>8. EveryBlockReturnable'
  BY <1>0, <1>1, <1>4, <1>5, <1>6 DEF EveryBlockReturnable
<1>9. Roomy'
  <2>1. Fits(b)' => BlockSize(size) = size + HeaderSize
    BY <1>0, <1>5, NoWrap DEF Fits
  <2> QED
    BY <1>0, <1>5, <1>6, <2>1, Numbers DEF Roomy, Fits, HeapTypeOK
<1>10. Kept'
  <2>1. \A i \in DOMAIN KnownBelow(a, size) :
           /\ i \in DOMAIN held[a].knows /\ i \in Below(size)
           /\ KnownBelow(a, size)[i] = held[a].knows[i]
    BY DEF KnownBelow, Restrict
  <2>2. \A i \in DOMAIN held[a].knows :
           i \in Cells /\ i < pool[a].Size /\ pool[a].cell[i] = held[a].knows[i]
    <3>1. held[a].size <= pool[a].Size /\ held[a].size \in Nat /\ pool[a].Size \in Nat
      BY <1>0 DEF Roomy, HeapTypeOK, Blocks
    <3>2. \A i \in DOMAIN held[a].knows :
             i \in Below(held[a].size) /\ pool[a].cell[i] = held[a].knows[i]
      BY DEF Kept
    <3>3. \A i \in Below(held[a].size) : i \in Cells /\ i \in Nat /\ i < held[a].size
      BY Numbers DEF Below
    <3> QED
      BY <3>1, <3>2, <3>3
  <2>3. \A i \in DOMAIN KnownBelow(a, size) :
           i \in Below(size) /\ pool'[b].cell[i] = KnownBelow(a, size)[i]
    BY <1>6, <2>1, <2>2
  <2> QED
    BY <1>5, <1>6, <2>3 DEF Kept, Fits, HeapTypeOK
<1> QED
  BY <1>7, <1>8, <1>9, <1>10

LEMMA CallReallocStep ==
  ASSUME HeapInv, NEW a \in Addrs, NEW size \in Sizes, CallRealloc(a, size)
  PROVE  HeapInv'
<1>1. a \in DOMAIN held /\ Fits(a)
  BY DEF CallRealloc
<1>2. Realloc(a, size) \/ (\E b \in Addrs : ReallocMoves(a, b, size)) \/ ReallocFails(a, size)
  BY <1>1 DEF CallRealloc, BadTag, HeapInv, Tagged
<1>3. CASE ReallocFails(a, size)
  BY <1>3 DEF ReallocFails, heapVars, HeapInv, HeapTypeOK, EveryBlockReturnable, Tagged, Roomy,
              Kept, Fits
<1>4. CASE Overrun(size)
  BY <1>4, OverrunStep
<1>5. CASE ~Overrun(size)
  BY <1>1, <1>2, <1>3, <1>5, ReallocStep, ReallocMovesStep
<1> QED
  BY <1>4, <1>5

(* The owner writes a cell of its block and knows it from then on.           *)
LEMMA WriteStep ==
  ASSUME HeapInv, NEW a \in Addrs, NEW i \in Cells, NEW v \in Values, Write(a, i, v)
  PROVE  HeapInv'
<1> USE DEF HeapInv
<1>1. /\ a \in DOMAIN held /\ i < held[a].size /\ UNCHANGED bugcheck
      /\ pool' = [pool EXCEPT ![a].cell[i] = v]
      /\ held' = [held EXCEPT ![a].knows = With(@, i, v)]
  BY DEF Write
<1>2. /\ pool' \in [Addrs -> Blocks]
      /\ \A b \in Addrs : b # a => pool'[b] = pool[b]
      /\ pool'[a].used = pool[a].used /\ pool'[a].Tags = pool[a].Tags
      /\ pool'[a].Size = pool[a].Size /\ pool'[a].length = pool[a].length
      /\ \A j \in Cells : pool'[a].cell[j] = IF j = i THEN v ELSE pool[a].cell[j]
  BY <1>1 DEF HeapTypeOK, Blocks
<1>3. /\ DOMAIN held' = DOMAIN held
      /\ held'[a] = [size |-> held[a].size, knows |-> With(held[a].knows, i, v)]
      /\ \A b \in DOMAIN held : b # a => held'[b] = held[b]
  <2>1. held[a] = [size |-> held[a].size, knows |-> held[a].knows]
    BY <1>1 DEF HeapTypeOK
  <2>2. [held[a] EXCEPT !.knows = With(@, i, v)]
          = [size |-> held[a].size, knows |-> With(held[a].knows, i, v)]
    BY <2>1
  <2> QED
    BY <1>1, <2>2
<1>4. HeapTypeOK' /\ Tagged' /\ EveryBlockReturnable'
  BY <1>1, <1>2, <1>3 DEF HeapTypeOK, Tagged, EveryBlockReturnable
<1>5. Roomy'
  BY <1>1, <1>2, <1>3 DEF Roomy, Fits, HeapTypeOK
<1>6. Kept'
  <2>1. /\ DOMAIN held'[a].knows = DOMAIN held[a].knows \cup {i}
        /\ held'[a].knows[i] = v
        /\ \A j \in DOMAIN held[a].knows : j # i => held'[a].knows[j] = held[a].knows[j]
    BY <1>3 DEF With
  <2>2. \A b \in DOMAIN held : held'[b].size = held[b].size
    BY <1>3
  <2>3. ASSUME Fits(a), NEW j \in DOMAIN held'[a].knows
        PROVE  j \in Below(held[a].size) /\ pool'[a].cell[j] = held'[a].knows[j]
    <3>1. CASE j = i
      BY <1>1, <1>2, <2>1, <3>1 DEF Below
    <3>2. CASE j # i
      BY <1>1, <1>2, <2>1, <2>3, <3>2 DEF Kept, Below
    <3> QED
      BY <3>1, <3>2
  <2> QED
    BY <1>1, <1>2, <1>3, <2>2, <2>3 DEF Kept, Fits, HeapTypeOK
<1> QED
  BY <1>4, <1>5, <1>6

-----------------------------------------------------------------------------
LEMMA HeapInvInit == HeapInit => HeapInv
<1> SUFFICES ASSUME HeapInit PROVE HeapInv
  OBVIOUS
<1>1. pool \in [Addrs -> Blocks] /\ \A a \in Addrs : pool[a].used = FALSE
  BY Numbers DEF HeapInit, Blocks
<1>2. DOMAIN held = {} /\ bugcheck = FALSE
  BY DEF HeapInit
<1> QED
  BY <1>1, <1>2 DEF HeapInv, HeapTypeOK, EveryBlockReturnable, Tagged, Roomy, Kept

LEMMA HeapInvStep == HeapInv /\ [HeapNext]_heapVars => HeapInv'
<1> SUFFICES ASSUME HeapInv, [HeapNext]_heapVars PROVE HeapInv'
  OBVIOUS
<1>1. CASE UNCHANGED heapVars
  BY <1>1 DEF heapVars, HeapInv, HeapTypeOK, EveryBlockReturnable, Tagged, Roomy, Kept, Fits
<1> QED
  BY <1>1, CallMallocStep, CallCallocStep, CallFreeStep, CallReallocStep, WriteStep DEF HeapNext

LEMMA HeapInvHolds == HeapSpec => []HeapInv
BY HeapInvInit, HeapInvStep, PTL DEF HeapSpec

(* A block has the cells its owner asked for and what the owner knows is in  *)
(* them, through every chain of reallocs, if no product of calloc has        *)
(* wrapped, and up to a size that wraps with its header.                     *)
THEOREM BlocksKeepTheirContents == HeapSpec => []ContentsKept
<1>1. HeapInv => ContentsKept
  BY Numbers DEF HeapInv, HeapTypeOK, Blocks, Roomy, Kept, ContentsKept
<1> QED
  BY <1>1, HeapInvHolds, PTL

(* Every block in use is somebody's, who can give it back: no legal sequence *)
(* of calls meets the bug check, up to a size that wraps with its header.    *)
THEOREM BlocksReturnable == HeapSpec => []EveryBlockReturnable
<1>1. HeapInv => EveryBlockReturnable
  BY DEF HeapInv
<1> QED
  BY <1>1, HeapInvHolds, PTL

-----------------------------------------------------------------------------
(* Strings.                                                                 *)

\* Induction over the numbers, for the functions that the conversions are
\* defined by.
LEMMA SetInduction ==
  ASSUME NEW S, 0 \in S, \A n \in Nat : n \in S => n + 1 \in S
  PROVE  \A n \in Nat : n \in S
<1> DEFINE R == {ss \in Nat \X Nat : ss[1] < ss[2]}
           T == Nat \ S
<1>1. SUFFICES ASSUME T # {} PROVE FALSE
  OBVIOUS
<1>2. \E x \in T : \A y \in T : ~(<<y, x>> \in R)
  <2>1. IsWellFoundedOn(R, Nat) BY NatLessThanWellFounded DEF OpToRel
  <2>2. T \subseteq Nat OBVIOUS
  <2> HIDE DEF R, T
  <2> QED BY <1>1, <2>1, <2>2, WFMin, Zenon
<1>3. PICK x \in T : \A y \in T : ~(<<y, x>> \in R) BY <1>2
<1>4. x # 0 /\ x \in Nat /\ x - 1 \in Nat OBVIOUS
<1>5. <<x - 1, x>> \in R BY <1>4
<1>6. x - 1 \in S BY <1>3, <1>4, <1>5
<1> QED BY <1>4, <1>6

\* Min is the least number of a set that has any.
LEMMA MinIsLeast ==
  ASSUME NEW T, T \subseteq Nat, T # {}
  PROVE  Min(T) \in T /\ \A y \in T : Min(T) <= y
<1> DEFINE R == {ss \in Nat \X Nat : ss[1] < ss[2]}
<1>1. \E x \in T : \A y \in T : ~(<<y, x>> \in R)
  <2>1. IsWellFoundedOn(R, Nat) BY NatLessThanWellFounded DEF OpToRel
  <2> HIDE DEF R
  <2> QED BY <2>1, WFMin, Zenon
<1>2. PICK x \in T : \A y \in T : ~(<<y, x>> \in R) BY <1>1
<1>3. ASSUME NEW y \in T, y < x PROVE FALSE
  <2>1. <<y, x>> \in R BY <1>3
  <2> QED BY <1>2, <2>1
<1>4. \A y \in T : x <= y
  <2>1. x \in Nat /\ \A y \in T : y \in Nat OBVIOUS
  <2> QED BY <1>3, <2>1
<1> HIDE DEF R
<1> QED BY <1>4 DEF Min

-----------------------------------------------------------------------------
\* to_string_hex.

\* h[i] is w halved i times, for the i up to j.
Halves(w, j, h) == h = [i \in 0..j |-> IF i = 0 THEN w ELSE h[i - 1] \div 2]

\* There is such an h for every j ...
LEMMA HalvesExist ==
  ASSUME NEW w
  PROVE  \A j \in Nat : \E h : Halves(w, j, h)
<1> DEFINE S == {j \in Nat : \E h : Halves(w, j, h)}
<1>1. 0 \in S
  <2>1. PICK h : h = [i \in 0..0 |-> w]
    OBVIOUS
  <2>2. h = [i \in 0..0 |-> IF i = 0 THEN w ELSE h[i - 1] \div 2]
    BY <2>1
  <2> QED
    BY <2>2, Zenon DEF Halves
<1>2. ASSUME NEW j \in Nat, j \in S PROVE j + 1 \in S
  <2>1. PICK g : Halves(w, j, g)
    BY <1>2
  <2>2. PICK h : h = [i \in 0..(j + 1) |-> IF i = j + 1 THEN g[j] \div 2 ELSE g[i]]
    OBVIOUS
  <2>3. \A i \in 0..j : g[i] = IF i = 0 THEN w ELSE g[i - 1] \div 2
    BY <2>1, Zenon DEF Halves
  <2>4. ASSUME NEW i \in 0..(j + 1) PROVE h[i] = IF i = 0 THEN w ELSE h[i - 1] \div 2
    <3>1. CASE i = j + 1
      <4>1. i # 0 /\ i - 1 = j /\ j \in 0..(j + 1) /\ j # j + 1
        BY <3>1
      <4> QED
        BY <2>2, <3>1, <4>1, Zenon
    <3>2. CASE i # j + 1
      <4>1. i \in 0..j /\ (i # 0 => i - 1 \in 0..(j + 1) /\ i - 1 # j + 1)
        BY <3>2
      <4> QED
        BY <2>2, <2>3, <3>2, <4>1, Zenon
    <3> QED
      BY <3>1, <3>2
  <2>5. h = [i \in 0..(j + 1) |-> h[i]]
    BY <2>2
  <2>6. Halves(w, j + 1, h)
    BY <2>4, <2>5, Zenon DEF Halves
  <2> QED
    BY <2>6
<1> HIDE DEF S
<1>3. \A j \in Nat : j \in S
  BY <1>1, <1>2, SetInduction
<1> QED
  BY <1>3 DEF S

\* ... of which a longer one begins like a shorter one ...
LEMMA HalvesUnique ==
  ASSUME NEW w, NEW m \in Nat, NEW n \in Nat, NEW g, NEW h, Halves(w, m, g), Halves(w, n, h), m <= n
  PROVE  \A i \in 0..m : g[i] = h[i]
<1> DEFINE S == {i \in Nat : i <= m => g[i] = h[i]}
<1>1. 0 \in S
  <2>1. 0 \in 0..m /\ 0 \in 0..n
    OBVIOUS
  <2>2. g[0] = h[0]
    BY <2>1, Zenon DEF Halves
  <2> QED
    BY <2>2
<1>2. ASSUME NEW i \in Nat, i \in S PROVE i + 1 \in S
  <2>1. SUFFICES ASSUME i + 1 <= m PROVE g[i + 1] = h[i + 1]
    OBVIOUS
  <2>2. i + 1 \in 0..m /\ i + 1 \in 0..n /\ i + 1 # 0 /\ (i + 1) - 1 = i /\ i <= m
    BY <2>1
  <2>3. g[i] = h[i]
    BY <1>2, <2>2
  <2>4. g[i + 1] = g[(i + 1) - 1] \div 2 /\ h[i + 1] = h[(i + 1) - 1] \div 2
    BY <2>2, Zenon DEF Halves
  <2> QED
    BY <2>2, <2>3, <2>4, Zenon
<1> HIDE DEF S
<1>3. \A i \in Nat : i \in S
  BY <1>1, <1>2, SetInduction
<1> QED
  BY <1>3 DEF S

\* ... and Halved is its last value.
LEMMA HalvedIs ==
  ASSUME NEW w, NEW j \in Nat
  PROVE  \E h : Halves(w, j, h) /\ Halved(w, j) = h[j]
<1>1. PICK f : f = CHOOSE h : Halves(w, j, h)
  OBVIOUS
<1>2. Halves(w, j, f)
  BY <1>1, HalvesExist
<1>3. Halved(w, j) = f[j]
  BY <1>1, Zenon DEF Halved, Halves
<1> QED
  BY <1>2, <1>3

\* A number halved once more.
LEMMA HalvedAgain ==
  ASSUME NEW w, NEW j \in Nat
  PROVE  Halved(w, 0) = w /\ Halved(w, j + 1) = Halved(w, j) \div 2
<1>1. Halved(w, 0) = w
  <2>1. PICK h : Halves(w, 0, h) /\ Halved(w, 0) = h[0]
    BY HalvedIs, Zenon
  <2>2. 0 \in 0..0
    OBVIOUS
  <2> QED
    BY <2>1, <2>2, Zenon DEF Halves
<1>2. PICK g : Halves(w, j, g) /\ Halved(w, j) = g[j]
  BY HalvedIs
<1>3. PICK h : Halves(w, j + 1, h) /\ Halved(w, j + 1) = h[j + 1]
  BY HalvedIs
<1>4. j + 1 \in 0..(j + 1) /\ j + 1 # 0 /\ (j + 1) - 1 = j /\ j \in 0..j
  OBVIOUS
<1>5. h[j + 1] = h[(j + 1) - 1] \div 2
  BY <1>3, <1>4, Zenon DEF Halves
<1>6. g[j] = h[j]
  BY <1>2, <1>3, HalvesUnique
<1> QED
  BY <1>1, <1>2, <1>3, <1>4, <1>5, <1>6, Zenon

\* Four bits are a digit.
LEMMA HalvedByDigit ==
  ASSUME NEW w \in Nat, NEW j \in Nat
  PROVE  Halved(w, j) \in Nat /\ Halved(w, j + 4) = Halved(w, j) \div 16
<1> DEFINE S == {i \in Nat : Halved(w, i) \in Nat}
<1>1. 0 \in S
  BY HalvedAgain
<1>2. ASSUME NEW i \in Nat, i \in S PROVE i + 1 \in S
  <2>1. Halved(w, i + 1) = Halved(w, i) \div 2
    BY HalvedAgain
  <2> QED
    BY <1>2, <2>1
<1> HIDE DEF S
<1>3. \A i \in Nat : i \in S
  BY <1>1, <1>2, SetInduction
<1>4. PICK a, b, c, d, e : /\ a = Halved(w, j) /\ b = Halved(w, j + 1) /\ c = Halved(w, j + 2)
                           /\ d = Halved(w, j + 3) /\ e = Halved(w, j + 4)
  OBVIOUS
<1>5. /\ j + 1 \in Nat /\ j + 2 \in Nat /\ j + 3 \in Nat
      /\ (j + 1) + 1 = j + 2 /\ (j + 2) + 1 = j + 3 /\ (j + 3) + 1 = j + 4
  OBVIOUS
<1>6. \A i \in Nat : Halved(w, i + 1) = Halved(w, i) \div 2
  BY HalvedAgain
<1>7. b = a \div 2 /\ c = b \div 2 /\ d = c \div 2 /\ e = d \div 2
  BY <1>4, <1>5, <1>6, Zenon
<1>8. a \in Nat
  BY <1>3, <1>4 DEF S
<1>9. e = a \div 16
  BY <1>7, <1>8
<1> QED
  BY <1>4, <1>8, <1>9, Zenon

\* f[k] is the number that the first k digits of s show.
Shows(s, f) == f = [k \in 0..Len(s) |-> IF k = 0 THEN 0 ELSE 16 * f[k - 1] + s[k]]

\* There is such an f, and NumberOf is its last value.
LEMMA ShowsExist ==
  ASSUME NEW s, NEW n \in Nat, Len(s) = n
  PROVE  \E f : Shows(s, f) /\ NumberOf(s) = f[n]
<1> DEFINE T(k, f) == f = [i \in 0..k |-> IF i = 0 THEN 0 ELSE 16 * f[i - 1] + s[i]]
           S == {k \in Nat : \E f : T(k, f)}
<1>1. 0 \in S
  <2>1. PICK f : f = [i \in 0..0 |-> 0]
    OBVIOUS
  <2>2. f = [i \in 0..0 |-> IF i = 0 THEN 0 ELSE 16 * f[i - 1] + s[i]]
    BY <2>1
  <2> QED
    BY <2>2, Zenon
<1>2. ASSUME NEW k \in Nat, k \in S PROVE k + 1 \in S
  <2>1. PICK g : T(k, g)
    BY <1>2
  <2>2. PICK f : f = [i \in 0..(k + 1) |-> IF i = k + 1 THEN 16 * g[k] + s[i] ELSE g[i]]
    OBVIOUS
  <2>3. \A i \in 0..k : g[i] = IF i = 0 THEN 0 ELSE 16 * g[i - 1] + s[i]
    BY <2>1, Zenon
  <2>4. ASSUME NEW i \in 0..(k + 1) PROVE f[i] = IF i = 0 THEN 0 ELSE 16 * f[i - 1] + s[i]
    <3>1. CASE i = k + 1
      <4>1. i # 0 /\ i - 1 = k /\ k \in 0..(k + 1) /\ k # k + 1
        BY <3>1
      <4> QED
        BY <2>2, <3>1, <4>1, Zenon
    <3>2. CASE i # k + 1
      <4>1. i \in 0..k /\ (i # 0 => i - 1 \in 0..(k + 1) /\ i - 1 # k + 1)
        BY <3>2
      <4> QED
        BY <2>2, <2>3, <3>2, <4>1, Zenon
    <3> QED
      BY <3>1, <3>2
  <2>5. f = [i \in 0..(k + 1) |-> f[i]]
    BY <2>2
  <2>6. T(k + 1, f)
    BY <2>4, <2>5, Zenon
  <2> QED
    BY <2>6
<1> HIDE DEF S
<1>3. n \in S
  BY <1>1, <1>2, SetInduction
<1>4. \E f : Shows(s, f)
  BY <1>3 DEF S, Shows
<1>5. PICK f : f = CHOOSE g : Shows(s, g)
  OBVIOUS
<1>6. Shows(s, f)
  BY <1>4, <1>5
<1>7. NumberOf(s) = f[n]
  BY <1>5, Zenon DEF NumberOf, Shows
<1> QED
  BY <1>6, <1>7

\* The larger of two numbers.
LEMMA MaxOfTwo ==
  ASSUME NEW m \in Nat, NEW n \in Nat, m <= n
  PROVE  Max({m, n}) = n
<1>1. \A x \in {m, n} : (\A y \in {m, n} : x >= y) <=> x = n
  OBVIOUS
<1> QED
  BY <1>1 DEF Max

\* Digits that are the remainders of a number halved show the number.
LEMMA DigitsShowNumber ==
  ASSUME NEW w \in Nat, NEW d \in Nat, Halved(w, 4 * d) = 0,
         NEW s, s = [k \in 1..d |-> Halved(w, (d - k) * 4) % 16]
  PROVE  Len(s) = d /\ NumberOf(s) = w
<1>1. Len(s) = d /\ DOMAIN s = 1..d
  OBVIOUS
<1>2. PICK f : Shows(s, f) /\ NumberOf(s) = f[d]
  BY <1>1, ShowsExist
<1> DEFINE S == {k \in Nat : k <= d => f[k] = Halved(w, (d - k) * 4)}
<1>3. 0 \in S
  <2>1. 0 \in 0..Len(s) /\ (d - 0) * 4 = 4 * d
    BY <1>1
  <2>2. f[0] = 0
    BY <1>2, <2>1, Zenon DEF Shows
  <2>3. f[0] = Halved(w, (d - 0) * 4)
    BY <2>1, <2>2, Zenon
  <2> QED
    BY <2>3
<1>4. ASSUME NEW k \in Nat, k \in S PROVE k + 1 \in S
  <2>1. SUFFICES ASSUME k + 1 <= d PROVE f[k + 1] = Halved(w, (d - (k + 1)) * 4)
    OBVIOUS
  <2>2. PICK j, a, b, x : /\ j = (d - (k + 1)) * 4 /\ a = Halved(w, j) /\ b = f[k] /\ x = s[k + 1]
    OBVIOUS
  <2>3. /\ k + 1 \in 0..Len(s) /\ k + 1 # 0 /\ (k + 1) - 1 = k /\ k <= d /\ k + 1 \in 1..d
        /\ j \in Nat /\ j + 4 = (d - k) * 4
    BY <1>1, <2>1, <2>2
  <2>4. f[k + 1] = 16 * b + x
    BY <1>2, <2>2, <2>3, Zenon DEF Shows
  <2>5. x = a % 16
    BY <2>2, <2>3, Zenon
  <2>6. a \in Nat /\ Halved(w, j + 4) = a \div 16
    BY <2>2, <2>3, HalvedByDigit
  <2>7. f[k] = Halved(w, (d - k) * 4)
    BY <1>4, <2>3
  <2>8. b = a \div 16
    BY <2>2, <2>3, <2>6, <2>7, Zenon
  <2>9. 16 * b + x = a
    BY <2>5, <2>6, <2>8
  <2> QED
    BY <2>2, <2>4, <2>9, Zenon
<1>5. d \in S
  <2> HIDE DEF S
  <2> QED
    BY <1>3, <1>4, SetInduction
<1>6. (d - d) * 4 = 0
  OBVIOUS
<1>7. f[d] = Halved(w, (d - d) * 4)
  BY <1>5
<1>8. f[d] = w
  BY <1>6, <1>7, HalvedAgain
<1> QED
  BY <1>1, <1>2, <1>8

\* What to_string_hex returns when it is not asked for more digits.
LEMMA HexIsExact ==
  ASSUME NEW w \in Words, NEW fill_width \in Nat, fill_width <= Digits, NEW byVector
  PROVE  /\ Len(to_string_hex(w, fill_width, byVector)) = Digits
         /\ NumberOf(to_string_hex(w, fill_width, byVector)) = w
<1>1. /\ Digits \in Nat \ {0} /\ w \in Nat /\ Halved(w, 4 * Digits) = 0
  BY StringsAssumption DEF StringsAssumption, Bits
<1>2. Max({fill_width, Digits}) = Digits
  BY <1>1, MaxOfTwo
<1>3. PICK s : s = [k \in 1..Digits |-> Halved(w, (Digits - k) * 4) % 16]
  OBVIOUS
<1>4. to_string_hex(w, fill_width, byVector) = s
  <2>1. Digits - Digits = 0
    BY <1>1
  <2>2. to_string_hex(w, fill_width, byVector)
          = [k \in 1..Digits |-> IF k <= 0 THEN 0
               ELSE ShiftedRight(w, (Digits - 1 - (k - 0 - 1)) * 4, byVector) % 16]
    BY <1>2, <2>1, Zenon DEF to_string_hex
  <2>3. ASSUME NEW k \in 1..Digits
        PROVE  ~(k <= 0) /\ ShiftedRight(w, (Digits - 1 - (k - 0 - 1)) * 4, byVector) = Halved(w, (Digits - k) * 4)
    <3>1. ~(k <= 0) /\ (Digits - 1 - (k - 0 - 1)) * 4 = (Digits - k) * 4 /\ (Digits - k) * 4 < 4 * Digits
      BY <1>1
    <3> QED
      BY <3>1, Zenon DEF ShiftedRight, Bits
  <2>4. \A k \in 1..Digits :
          (IF k <= 0 THEN 0 ELSE ShiftedRight(w, (Digits - 1 - (k - 0 - 1)) * 4, byVector) % 16)
             = Halved(w, (Digits - k) * 4) % 16
    BY <2>3, Zenon
  <2> QED
    BY <1>3, <2>2, <2>4, Zenon
<1>5. Len(s) = Digits /\ NumberOf(s) = w
  BY <1>1, <1>3, DigitsShowNumber
<1> QED
  BY <1>4, <1>5, Zenon

-----------------------------------------------------------------------------
\* format.

\* g joins the first k lists of s, as FlattenSeq does.
Flattens(s, k, g) == g = [i \in 1..k |-> IF i = 1 THEN s[i] ELSE g[i - 1] \o s[i]]

\* FlattenSeq is the last value of a function that joins the lists one by one.
LEMMA FlattenUnfolds ==
  ASSUME NEW s, NEW n \in Nat \ {0}, Len(s) = n
  PROVE  \E g : Flattens(s, n, g) /\ FlattenSeq(s) = g[n]
<1> DEFINE S == {k \in Nat : \E g : Flattens(s, k, g)}
<1>1. 0 \in S
  <2>1. Flattens(s, 0, [i \in 1..0 |-> s])
    BY DEF Flattens
  <2> QED
    BY <2>1
<1>2. ASSUME NEW k \in Nat, k \in S PROVE k + 1 \in S
  <2>1. PICK g : Flattens(s, k, g)
    BY <1>2
  <2>2. PICK h : h = [i \in 1..(k + 1) |-> IF i = k + 1 THEN (IF i = 1 THEN s[i] ELSE g[k] \o s[i]) ELSE g[i]]
    OBVIOUS
  <2>3. \A i \in 1..k : g[i] = IF i = 1 THEN s[i] ELSE g[i - 1] \o s[i]
    BY <2>1, Zenon DEF Flattens
  <2>4. ASSUME NEW i \in 1..(k + 1) PROVE h[i] = IF i = 1 THEN s[i] ELSE h[i - 1] \o s[i]
    <3>1. CASE i = k + 1
      <4>1. h[i] = IF i = 1 THEN s[i] ELSE g[k] \o s[i]
        BY <2>2, <3>1, Zenon
      <4>2. i # 1 => i - 1 = k /\ k \in 1..(k + 1) /\ k # k + 1
        BY <3>1
      <4>3. i # 1 => h[i - 1] = g[k]
        BY <2>2, <4>2, Zenon
      <4> QED
        BY <4>1, <4>3, Zenon
    <3>2. CASE i # k + 1
      <4>1. i \in 1..k
        BY <3>2
      <4>2. h[i] = g[i]
        BY <2>2, <3>2, Zenon
      <4>3. i # 1 => i - 1 \in 1..(k + 1) /\ i - 1 # k + 1
        BY <4>1
      <4>4. i # 1 => h[i - 1] = g[i - 1]
        BY <2>2, <4>3, Zenon
      <4> QED
        BY <2>3, <4>1, <4>2, <4>4, Zenon
    <3> QED
      BY <3>1, <3>2
  <2>5. h = [i \in 1..(k + 1) |-> h[i]]
    BY <2>2
  <2>6. h = [i \in 1..(k + 1) |-> IF i = 1 THEN s[i] ELSE h[i - 1] \o s[i]]
    BY <2>4, <2>5, Zenon
  <2>7. Flattens(s, k + 1, h)
    BY <2>6, Zenon DEF Flattens
  <2> QED
    BY <2>7
<1>3. n \in S
  <2> HIDE DEF S
  <2> QED BY <1>1, <1>2, SetInduction
<1>4. \E g : Flattens(s, n, g)
  BY <1>3
<1>5. PICK f : f = CHOOSE g : Flattens(s, n, g)
  OBVIOUS
<1>6. Flattens(s, n, f)
  BY <1>4, <1>5
<1>7. FlattenSeq(s) = f[n]
  <2>1. Len(s) # 0
    OBVIOUS
  <2> QED
    BY <1>5, <2>1, Zenon DEF FlattenSeq, Flattens
<1> QED
  BY <1>6, <1>7

\* h[i] is what the first i pieces of p say.
Joins(p, n, C, h) ==
  /\ h[0] = <<>> /\ \A i \in 1..n : h[i] = h[i - 1] \o p[i]
  /\ \A i \in 0..n : h[i] \in Seq(C)

\* All pieces joined one by one.
LEMMA Joined ==
  ASSUME NEW C, NEW n \in Nat, NEW p, Len(p) = n, p = [i \in 1..n |-> p[i]],
         \A i \in 1..n : p[i] \in Seq(C)
  PROVE  \E h : Joins(p, n, C, h) /\ FlattenSeq(p) = h[n]
<1>1. CASE n = 0
  <2>1. PICK h : h = [i \in 0..n |-> <<>>]
    OBVIOUS
  <2>2. Joins(p, n, C, h)
    BY <1>1, <2>1 DEF Joins
  <2>3. p = <<>>
    BY <1>1
  <2>4. FlattenSeq(p) = p
    BY <1>1, Zenon DEF FlattenSeq
  <2>5. h[n] = <<>>
    BY <2>1
  <2> QED
    BY <2>2, <2>3, <2>4, <2>5, Zenon
<1>2. CASE n # 0
  <2>1. PICK g : Flattens(p, n, g) /\ FlattenSeq(p) = g[n]
    BY <1>2, FlattenUnfolds
  <2>2. PICK h : h = [i \in 0..n |-> IF i = 0 THEN <<>> ELSE g[i]]
    OBVIOUS
  <2>3. h[0] = <<>> /\ \A i \in 1..n : h[i] = g[i]
    BY <2>2
  <2>4. \A i \in 1..n : g[i] = IF i = 1 THEN p[i] ELSE g[i - 1] \o p[i]
    BY <2>1, Zenon DEF Flattens
  <2>5. ASSUME NEW i \in 1..n PROVE h[i] = h[i - 1] \o p[i]
    <3>1. CASE i = 1
      <4>1. i - 1 = 0
        BY <3>1
      <4>2. <<>> \o p[i] = p[i]
        BY ConcatEmptySeq
      <4>3. h[i] = p[i]
        BY <2>3, <2>4, <3>1, Zenon
      <4> QED
        BY <2>3, <4>1, <4>2, <4>3, Zenon
    <3>2. CASE i # 1
      <4>1. i - 1 \in 1..n
        BY <3>2
      <4> QED
        BY <2>3, <2>4, <3>2, <4>1, Zenon
    <3> QED
      BY <3>1, <3>2
  <2> DEFINE S == {i \in Nat : i <= n => h[i] \in Seq(C)}
  <2>6. 0 \in S
    <3>1. <<>> \in Seq(C)
      OBVIOUS
    <3>2. h[0] \in Seq(C)
      BY <2>3, <3>1, Zenon
    <3> QED
      BY <3>2
  <2>7. ASSUME NEW i \in Nat, i \in S PROVE i + 1 \in S
    <3>1. SUFFICES ASSUME i + 1 <= n PROVE h[i + 1] \in Seq(C)
      OBVIOUS
    <3>2. i + 1 \in 1..n /\ (i + 1) - 1 = i /\ i <= n
      BY <3>1
    <3>3. h[i] \in Seq(C)
      BY <2>7, <3>2
    <3>4. h[i + 1] = h[i] \o p[i + 1]
      BY <2>5, <3>2, Zenon
    <3>5. p[i + 1] \in Seq(C)
      BY <3>2, Zenon
    <3> QED
      BY <3>3, <3>4, <3>5, ConcatProperties
  <2>8. \A i \in 0..n : h[i] \in Seq(C)
    <3> HIDE DEF S
    <3>1. \A i \in Nat : i \in S
      BY <2>6, <2>7, SetInduction
    <3> QED
      BY <3>1 DEF S
  <2>9. Joins(p, n, C, h)
    BY <2>3, <2>5, <2>8, Zenon DEF Joins
  <2>10. n \in 1..n
    BY <1>2
  <2> QED
    BY <2>1, <2>3, <2>9, <2>10, Zenon
<1> QED
  BY <1>1, <1>2

\* The pieces of s behind a and up to b are its characters.
IsRun(s, p, a, b) ==
  /\ a \in 0..Len(s) /\ b \in a..Len(s)
  /\ \A i \in (a + 1)..b : p[i] = <<s[i]>>

\* What h says at b is what it says at a and the part of s between.
GoesOn(s, h, a, b) == h[b] = h[a] \o SubSeq(s, a + 1, b)

\* It does so over a run.
LEMMA PlainRun ==
  ASSUME NEW C, NEW s \in Seq(C), NEW p, NEW h, Joins(p, Len(s), C, h),
         NEW a, NEW b, IsRun(s, p, a, b)
  PROVE  GoesOn(s, h, a, b)
<1>0. PICK n : n = Len(s)
  OBVIOUS
<1>1. n \in Nat /\ a \in 0..n /\ b \in a..n /\ \A i \in (a + 1)..b : p[i] = <<s[i]>>
  BY <1>0 DEF IsRun
<1> DEFINE S == {k \in Nat : a + k <= b => h[a + k] = h[a] \o SubSeq(s, a + 1, a + k)}
<1>2. 0 \in S
  <2>1. a + 0 = a /\ a + 0 < a + 1 /\ a + 1 \in Int /\ a + 0 \in Int
    BY <1>1
  <2>2. SubSeq(s, a + 1, a + 0) = <<>>
    BY <2>1, SubSeqEmpty
  <2>3. h[a] \in Seq(C)
    BY <1>0, <1>1, Zenon DEF Joins
  <2>4. h[a] \o <<>> = h[a]
    BY <2>3, ConcatEmptySeq
  <2>5. h[a + 0] = h[a] \o SubSeq(s, a + 1, a + 0)
    BY <2>1, <2>2, <2>4, Zenon
  <2> QED
    BY <2>5
<1>3. ASSUME NEW k \in Nat, k \in S PROVE k + 1 \in S
  <2>0. k + 1 \in Nat
    OBVIOUS
  <2>1. SUFFICES ASSUME a + (k + 1) <= b PROVE h[a + (k + 1)] = h[a] \o SubSeq(s, a + 1, a + (k + 1))
    BY <2>0, Zenon
  <2>2. PICK i, j, t, u : /\ i = a + (k + 1) /\ j = a + k /\ t = SubSeq(s, a + 1, j)
                          /\ u = SubSeq(s, a + 1, i)
    OBVIOUS
  <2>3. /\ i \in (a + 1)..b /\ i \in 1..n /\ i - 1 = j /\ a + 1 \in 1..n /\ i \in (a + 1)..n /\ j <= b
        /\ j \in Int /\ a + 1 \in Int /\ \A q \in (a + 1)..j : q \in 1..n
    BY <1>1, <2>1, <2>2
  <2>4. h[j] = h[a] \o t
    BY <1>3, <2>2, <2>3
  <2>5. h[i] = h[j] \o <<s[i]>>
    <3>1. h[i] = h[i - 1] \o p[i]
      BY <1>0, <2>3, Zenon DEF Joins
    <3> QED
      BY <1>1, <2>3, <3>1, Zenon
  <2>6. u = t \o <<s[i]>>
    BY <1>0, <2>2, <2>3, SubSeqRecursiveSecond
  <2>7. h[a] \in Seq(C)
    BY <1>0, <1>1, Zenon DEF Joins
  <2>8. t \in Seq(C) /\ <<s[i]>> \in Seq(C)
    <3>1. \A q \in 1..n : s[q] \in C
      BY <1>0
    <3>2. t \in Seq(C)
      BY <2>2, <2>3, <3>1, SubSeqProperties
    <3> QED
      BY <2>3, <3>1, <3>2
  <2>9. (h[a] \o t) \o <<s[i]>> = h[a] \o (t \o <<s[i]>>)
    <3>1. PICK x, y : x = h[a] /\ y = <<s[i]>>
      OBVIOUS
    <3>2. x \in Seq(C) /\ y \in Seq(C) /\ t \in Seq(C)
      BY <2>7, <2>8, <3>1, Zenon
    <3>3. (x \o t) \o y = x \o (t \o y)
      BY ONLY <3>2, ConcatAssociative, SMTT(30)
    <3> QED
      BY <3>1, <3>3, Zenon
  <2> QED
    BY <2>2, <2>4, <2>5, <2>6, <2>9, Zenon
<1>4. b - a \in S
  <2> HIDE DEF S
  <2>1. b - a \in Nat
    BY <1>1
  <2> QED
    BY <1>2, <1>3, <2>1, SetInduction
<1>5. a + (b - a) = b /\ b <= b
  BY <1>1
<1>6. h[a + (b - a)] = h[a] \o SubSeq(s, a + 1, a + (b - a))
  BY <1>4, <1>5
<1> QED
  BY <1>5, <1>6, Zenon DEF GoesOn

\* Placeholders begin inside their format.
LEMMA StartsInside ==
  ASSUME NEW s, Len(s) \in Nat
  PROVE  \A j \in Starts(s) : j \in Int /\ j \in Nat /\ 0 < j /\ j < Len(s)
<1>1. \A j \in Starts(s) : j \in 1..(Len(s) - 1)
  BY Zenon DEF Starts
<1> QED
  BY <1>1

\* The placeholders counted up to i are a finite set of places.
LEMMA NthCounts ==
  ASSUME NEW s, NEW i \in Int, Len(s) \in Nat
  PROVE  IsFiniteSet({j \in Starts(s) : j <= i}) /\ Nth(s, i) \in Nat
<1>1. PICK T : T = {j \in Starts(s) : j <= i}
  OBVIOUS
<1>2. T \subseteq 1..(Len(s) - 1)
  BY <1>1 DEF Starts
<1>3. IsFiniteSet(1..(Len(s) - 1))
  BY FS_Interval
<1>4. IsFiniteSet(T) /\ Cardinality(T) \in Nat
  BY <1>2, <1>3, FS_Subset, FS_CardinalityType
<1> QED
  BY <1>1, <1>4, Zenon DEF Nth

\* From c to the next placeholder, at p, the count goes up by one.
LEMMA NthNext ==
  ASSUME NEW s, Len(s) \in Nat, NEW c \in Int, NEW p \in Starts(s), c < p,
         \A q \in Starts(s) : ~(c < q /\ q < p)
  PROVE  Nth(s, p) = Nth(s, c) + 1
<1>1. PICK T, U : T = {j \in Starts(s) : j <= c} /\ U = {j \in Starts(s) : j <= p}
  OBVIOUS
<1>2. p \in Int /\ \A j \in Starts(s) : j \in Int
  BY StartsInside
<1>3. \A j \in Starts(s) : j <= p <=> (j <= c \/ j = p)
  BY <1>2
<1>4. U = T \cup {p} /\ p \notin T
  <2>1. ~(p <= c)
    BY <1>2
  <2> QED
    BY <1>1, <1>3, <2>1, Zenon
<1>5. IsFiniteSet(T)
  BY <1>1, NthCounts
<1>6. Cardinality(U) = Cardinality(T) + 1
  BY <1>4, <1>5, FS_AddElement
<1> QED
  BY <1>1, <1>6, Zenon DEF Nth

\* Where no placeholder begins from c on, the count stays.
LEMMA NthStays ==
  ASSUME NEW s, Len(s) \in Nat, NEW c \in Int, NEW d \in Int, c <= d,
         \A q \in Starts(s) : ~(c < q /\ q <= d)
  PROVE  Nth(s, d) = Nth(s, c)
<1>1. \A j \in Starts(s) : j \in Int
  BY StartsInside
<1>2. \A j \in Starts(s) : j <= d <=> j <= c
  BY <1>1
<1>3. {j \in Starts(s) : j <= d} = {j \in Starts(s) : j <= c}
  BY <1>2
<1> QED
  BY <1>3, Zenon DEF Nth

\* A placeholder behind c is a later one than those up to c.
LEMMA NthGrows ==
  ASSUME NEW s, Len(s) \in Nat, NEW c \in Int, NEW p \in Starts(s), c < p
  PROVE  Nth(s, p) > Nth(s, c)
<1>1. PICK T, U : T = {j \in Starts(s) : j <= c} /\ U = {j \in Starts(s) : j <= p}
  OBVIOUS
<1>2. p \in Int /\ \A j \in Starts(s) : j \in Int
  BY StartsInside
<1>3. T \cup {p} \subseteq U /\ p \notin T
  <2>1. ~(p <= c) /\ p <= p /\ \A j \in Starts(s) : j <= c => j <= p
    BY <1>2
  <2> QED
    BY <1>1, <2>1, Zenon
<1>4. IsFiniteSet(T) /\ IsFiniteSet(U)
  BY <1>1, <1>2, NthCounts
<1>5. Cardinality(T \cup {p}) = Cardinality(T) + 1 /\ Cardinality(T \cup {p}) <= Cardinality(U)
  BY <1>3, <1>4, FS_AddElement, FS_Subset
<1>6. Cardinality(T) \in Nat /\ Cardinality(U) \in Nat
  BY <1>4, FS_CardinalityType
<1>7. Cardinality(U) > Cardinality(T)
  BY <1>5, <1>6
<1> QED
  BY <1>1, <1>7, Zenon DEF Nth

\* No placeholder is before the first one, so that its number is not 0.
LEMMA NthPositive ==
  ASSUME NEW s, Len(s) \in Nat, NEW p \in Starts(s)
  PROVE  Nth(s, p) \in Nat \ {0}
<1>1. p \in Int /\ 0 < p
  BY StartsInside
<1>2. Nth(s, p) \in Nat /\ Nth(s, 0) \in Nat
  <2>1. 0 \in Int
    OBVIOUS
  <2> QED
    BY <1>1, <2>1, NthCounts, Zenon
<1>3. Nth(s, p) > Nth(s, 0)
  BY <1>1, NthGrows
<1> QED
  BY <1>2, <1>3

\* The count begins with 0.
LEMMA NthOfNone ==
  ASSUME NEW s, Len(s) \in Nat
  PROVE  Nth(s, 0) = 0
<1>1. {j \in Starts(s) : j <= 0} = {}
  <2>1. \A j \in Starts(s) : j \in Int /\ 0 < j
    BY StartsInside
  <2>2. \A j \in Starts(s) : ~(j <= 0)
    BY <2>1
  <2> QED
    BY <2>2
<1>2. Cardinality({}) = 0
  BY FS_EmptySet
<1> QED
  BY <1>1, <1>2, Zenon DEF Nth

\* t is what is left of s behind c.
AfterPlace(C, s, c, t) ==
  /\ t \in Seq(C) /\ Len(t) = Len(s) - c
  /\ \/ /\ Placeholder(t) = 0
        /\ \A q \in Starts(s) : ~(c < q)
     \/ /\ Placeholder(t) # 0 /\ Placeholder(t) \in Nat
        /\ c + Placeholder(t) \in Starts(s) /\ c < c + Placeholder(t)
        /\ \A q \in Starts(s) : ~(c < q /\ q < c + Placeholder(t))

\* The first placeholder of what is left of a format behind c is the first of
\* the format behind c.
LEMMA NextPlaceholder ==
  ASSUME NEW C, NEW s \in Seq(C), NEW c \in 0..Len(s)
  PROVE  AfterPlace(C, s, c, SubSeq(s, c + 1, Len(s)))
<1>1. PICK n, t : n = Len(s) /\ t = SubSeq(s, c + 1, Len(s))
  OBVIOUS
<1>2. n \in Nat /\ c \in Int /\ c + 1 \in Int /\ \A q \in (c + 1)..n : s[q] \in C
  BY <1>1
<1>3. /\ t \in Seq(C) /\ Len(t) = IF c + 1 <= n THEN n - (c + 1) + 1 ELSE 0
      /\ \A i \in 1..(n - (c + 1) + 1) : t[i] = s[c + 1 + i - 1]
  BY <1>1, <1>2, SubSeqProperties
<1>4. /\ Len(t) = n - c
      /\ \A i \in 1..(n - c) : t[i] = s[c + i]
  <2>1. n - (c + 1) + 1 = n - c /\ (IF c + 1 <= n THEN n - (c + 1) + 1 ELSE 0) = n - c
    BY <1>1, <1>2
  <2>2. \A i \in 1..(n - c) : c + 1 + i - 1 = c + i
    BY <1>2
  <2> QED
    BY <1>3, <2>1, <2>2, Zenon
<1>5. ASSUME NEW i \in Int PROVE i \in Starts(t) <=> c + i \in Starts(s) /\ c < c + i
  <2>1. i \in Starts(t) <=> i \in 1..(n - c - 1) /\ t[i] = "{" /\ t[i + 1] = "}"
    BY <1>4, Zenon DEF Starts
  <2>2. c + i \in Starts(s) <=> c + i \in 1..(n - 1) /\ s[c + i] = "{" /\ s[c + i + 1] = "}"
    BY <1>1, Zenon DEF Starts
  <2>3. /\ i \in 1..(n - c - 1) <=> (c + i \in 1..(n - 1) /\ c < c + i)
        /\ i \in 1..(n - c - 1) => i \in 1..(n - c) /\ i + 1 \in 1..(n - c) /\ c + (i + 1) = c + i + 1
    BY <1>1, <1>2
  <2>4. i \in 1..(n - c - 1) => t[i] = s[c + i] /\ t[i + 1] = s[c + i + 1]
    <3>1. ASSUME i \in 1..(n - c - 1) PROVE t[i] = s[c + i] /\ t[i + 1] = s[c + (i + 1)]
      BY <1>4, <2>3, <3>1, Zenon
    <3> QED
      BY <2>3, <3>1, Zenon
  <2> QED
    BY <2>1, <2>2, <2>3, <2>4, Zenon
<1>6. CASE Starts(t) = {}
  <2>1. Placeholder(t) = 0
    BY <1>6, Zenon DEF Placeholder
  <2>2. ASSUME NEW q \in Starts(s), c < q PROVE FALSE
    <3>1. PICK i : i = q - c
      OBVIOUS
    <3>2. i \in Int /\ c + i = q
      BY <1>2, <3>1, StartsInside
    <3>3. i \in Starts(t)
      BY <1>5, <2>2, <3>2, Zenon
    <3> QED
      BY <1>6, <3>3
  <2>3. \A q \in Starts(s) : ~(c < q)
    BY <2>2, Zenon
  <2>4. AfterPlace(C, s, c, t)
    BY <1>1, <1>3, <1>4, <2>1, <2>3, Zenon DEF AfterPlace
  <2> QED
    BY <1>1, <2>4, Zenon
<1>7. CASE Starts(t) # {}
  <2>1. PICK p : p = Placeholder(t)
    OBVIOUS
  <2>2. p = Min(Starts(t))
    BY <1>7, <2>1, Zenon DEF Placeholder
  <2>3. Starts(t) \subseteq Nat /\ \A q \in Starts(t) : q # 0
    <3>1. Len(t) \in Nat
      BY <1>3
    <3> QED
      BY <3>1, StartsInside
  <2>4. p \in Starts(t) /\ \A q \in Starts(t) : p <= q
    BY <1>7, <2>2, <2>3, MinIsLeast
  <2>5. p # 0 /\ p \in Nat /\ p \in Int
    BY <2>3, <2>4
  <2>6. c + p \in Starts(s) /\ c < c + p
    BY <1>5, <2>4, <2>5, Zenon
  <2>7. ASSUME NEW q \in Starts(s), c < q, q < c + p PROVE FALSE
    <3>1. PICK i : i = q - c
      OBVIOUS
    <3>2. i \in Int /\ c + i = q /\ i < p
      BY <1>2, <2>5, <2>7, <3>1, StartsInside
    <3>3. i \in Starts(t)
      BY <1>5, <2>7, <3>2, Zenon
    <3>4. p <= i
      BY <2>4, <3>3, Zenon
    <3> QED
      BY <2>5, <3>2, <3>4
  <2>8. \A q \in Starts(s) : ~(c < q /\ q < c + p)
    BY <2>7, Zenon
  <2>9. AfterPlace(C, s, c, t)
    BY <1>1, <1>3, <1>4, <2>1, <2>5, <2>6, <2>8, Zenon DEF AfterPlace
  <2> QED
    BY <1>1, <2>9, Zenon
<1> QED
  BY <1>6, <1>7

\* u is the part of s from m to n.
IsPart(u, s, m, n, C) ==
  /\ u \in Seq(C) /\ Len(u) = IF m <= n THEN n - m + 1 ELSE 0
  /\ \A i \in 1..(n - m + 1) : u[i] = s[m + i - 1]

\* It is what SubSeq returns.
LEMMA Part ==
  ASSUME NEW C, NEW s, NEW m \in Int, NEW n \in Int, \A q \in m..n : s[q] \in C
  PROVE  IsPart(SubSeq(s, m, n), s, m, n, C)
  BY SubSeqProperties DEF IsPart

\* A part of what is left of s behind c is a part of s.
LEMMA PartOfRest ==
  ASSUME NEW C, NEW s \in Seq(C), NEW c \in 0..Len(s),
         NEW a \in 1..(Len(s) - c + 1), NEW b \in (a - 1)..(Len(s) - c)
  PROVE  SubSeq(SubSeq(s, c + 1, Len(s)), a, b) = SubSeq(s, c + a, c + b)
<1>1. PICK n, t, u, v : /\ n = Len(s) /\ t = SubSeq(s, c + 1, n)
                        /\ u = SubSeq(t, a, b) /\ v = SubSeq(s, c + a, c + b)
  OBVIOUS
<1>2. n \in Nat /\ c \in Int /\ a \in Int /\ b \in Int /\ c + 1 \in Int /\ c + a \in Int /\ c + b \in Int
  BY <1>1
<1>3. \A q \in 1..n : s[q] \in C
  BY <1>1
<1>4. \A i \in 1..(n - c) : t[i] = s[c + i]
  <2>1. \A q \in (c + 1)..n : q \in 1..n
    BY <1>1, <1>2
  <2>2. \A i \in 1..(n - (c + 1) + 1) : t[i] = s[c + 1 + i - 1]
    <3>1. \A q \in (c + 1)..n : s[q] \in C
      BY <1>3, <2>1, Zenon
    <3> QED
      BY <1>1, <1>2, <3>1, SubSeqProperties
  <2>3. n - (c + 1) + 1 = n - c /\ \A i \in 1..(n - c) : c + 1 + i - 1 = c + i
    BY <1>2
  <2> QED
    BY <2>2, <2>3, Zenon
<1>5. IsPart(v, s, c + a, c + b, C)
  <2>1. \A q \in (c + a)..(c + b) : q \in 1..n
    BY <1>1, <1>2
  <2>2. \A q \in (c + a)..(c + b) : s[q] \in C
    BY <1>3, <2>1, Zenon
  <2> QED
    BY <1>1, <1>2, <2>2, Part, Zenon
<1>6. IsPart(u, t, a, b, C)
  <2>1. \A q \in a..b : q \in 1..(n - c) /\ c + q \in 1..n
    BY <1>1, <1>2
  <2>2. \A q \in a..b : t[q] \in C
    BY <1>3, <1>4, <2>1, Zenon
  <2> QED
    BY <1>1, <1>2, <2>2, Part, Zenon
<1>7. /\ Len(u) = b - a + 1 /\ Len(v) = b - a + 1
      /\ (c + b) - (c + a) + 1 = b - a + 1
      /\ \A i \in 1..(b - a + 1) : a + i - 1 \in 1..(n - c) /\ c + (a + i - 1) = c + a + i - 1
  <2>1. /\ Len(u) = IF a <= b THEN b - a + 1 ELSE 0
        /\ Len(v) = IF c + a <= c + b THEN (c + b) - (c + a) + 1 ELSE 0
    BY <1>5, <1>6, Zenon DEF IsPart
  <2> QED
    BY <1>1, <1>2, <2>1
<1>8. \A i \in 1..(b - a + 1) : u[i] = v[i]
  BY <1>4, <1>5, <1>6, <1>7, Zenon DEF IsPart
<1>9. u = v
  <2>1. u \in Seq(C) /\ v \in Seq(C)
    BY <1>5, <1>6, Zenon DEF IsPart
  <2> QED
    BY <1>7, <1>8, <2>1, SeqEqual
<1> QED
  BY <1>1, <1>9, Zenon

\* All pieces are texts.
LEMMA PiecesAreTexts ==
  ASSUME NEW C, NEW s \in Seq(C), NEW args \in Seq(Seq(C)), NEW i \in 1..Len(s)
  PROVE  Piece(s, args, i) \in Seq(C)
<1>1. CASE i \in Starts(s) /\ Nth(s, i) <= Len(args)
  <2>1. Nth(s, i) \in Nat \ {0}
    BY <1>1, NthPositive
  <2>2. Nth(s, i) \in 1..Len(args)
    BY <1>1, <2>1
  <2>3. \A k \in 1..Len(args) : args[k] \in Seq(C)
    OBVIOUS
  <2>4. args[Nth(s, i)] \in Seq(C)
    BY <2>2, <2>3, Zenon
  <2> QED
    BY <1>1, <2>4, Zenon DEF Piece
<1>2. CASE ~(i \in Starts(s) /\ Nth(s, i) <= Len(args))
  <2>1. PICK x : x = s[i]
    OBVIOUS
  <2>2. x \in C
    BY <2>1
  <2>3. <<x>> \in Seq(C) /\ <<>> \in Seq(C)
    BY <2>2
  <2> QED
    BY <1>2, <2>1, <2>3, Zenon DEF Piece
<1> QED
  BY <1>1, <1>2

\* The pieces of a format.
Pieces(s, args) == [i \in 1..Len(s) |-> Piece(s, args, i)]

\* x is what is out and what is left of s after k arguments: the pieces up to a
\* place c, where k placeholders are passed or none is left.
Through(s, args, h, k, x, c) ==
  /\ c \in 0..Len(s) /\ c \notin Starts(s)
  /\ x.out = h[c] /\ x.left = SubSeq(s, c + 1, Len(s))
  /\ Nth(s, c) = k \/ \A q \in Starts(s) : ~(c < q)

\* One more argument.
LEMMA ArgumentFillsIn ==
  ASSUME NEW C, NEW s \in Seq(C), NEW args \in Seq(Seq(C)), NEW h,
         Joins(Pieces(s, args), Len(s), C, h), NEW k \in Nat, k + 1 <= Len(args), NEW x, NEW c,
         Through(s, args, h, k, x, c)
  PROVE  \E d : Through(s, args, h, k + 1, format_impl(x, args[k + 1]), d)
<1>1. PICK n, t, y, arg : n = Len(s) /\ t = x.left /\ arg = args[k + 1] /\ y = format_impl(x, arg)
  OBVIOUS
<1>2. /\ n \in Nat /\ c \in 0..n /\ c \in Int /\ c \notin Starts(s) /\ x.out = h[c]
      /\ t = SubSeq(s, c + 1, n) /\ (Nth(s, c) = k \/ \A q \in Starts(s) : ~(c < q))
  BY <1>1 DEF Through
<1>3. /\ t \in Seq(C) /\ Len(t) = n - c
      /\ \/ /\ Placeholder(t) = 0
            /\ \A q \in Starts(s) : ~(c < q)
         \/ /\ Placeholder(t) # 0 /\ Placeholder(t) \in Nat
            /\ c + Placeholder(t) \in Starts(s) /\ c < c + Placeholder(t)
            /\ \A q \in Starts(s) : ~(c < q /\ q < c + Placeholder(t))
  <2>1. c \in 0..Len(s) /\ t = SubSeq(s, c + 1, Len(s))
    BY <1>1, <1>2, Zenon
  <2>2. AfterPlace(C, s, c, t)
    BY <2>1, NextPlaceholder, Zenon
  <2> QED
    BY <1>1, <2>2, Zenon DEF AfterPlace
<1>4. CASE Placeholder(t) = 0
  <2>1. y = x
    BY <1>1, <1>4, Zenon DEF format_impl
  <2>2. \A q \in Starts(s) : ~(c < q)
    BY <1>3, <1>4
  <2>3. Through(s, args, h, k + 1, y, c)
    BY <1>1, <1>2, <2>1, <2>2, Zenon DEF Through
  <2> QED
    BY <1>1, <2>3, Zenon
<1>5. CASE Placeholder(t) # 0
  <2>1. PICK pos, p : pos = Placeholder(t) /\ p = c + pos
    OBVIOUS
  <2>2. /\ pos \in Nat /\ p \in Starts(s) /\ c < p
        /\ \A q \in Starts(s) : ~(c < q /\ q < p)
    BY <1>3, <1>5, <2>1
  <2>3. p \in Int /\ p \in Nat /\ p < n /\ pos # 0
    BY <1>1, <1>2, <1>5, <2>1, <2>2, StartsInside
  <2>4. Nth(s, c) = k
    BY <1>2, <2>2
  <2>5. Nth(s, p) = k + 1
    BY <1>1, <1>2, <2>2, <2>4, NthNext
  \* The next character does not begin a placeholder.
  <2>6. p + 1 \notin Starts(s)
    <3>1. s[p + 1] = "}"
      BY <2>2, Zenon DEF Starts
    <3>2. "}" # "{"
      OBVIOUS
    <3> QED
      BY <3>1, <3>2, Zenon DEF Starts
  <2>7. \A q \in Int : (c < q /\ q < p) => q \notin Starts(s)
    BY <2>2
  \* The pieces from c on to that of the argument.
  <2>8. ASSUME NEW i \in (c + 1)..(p - 1) PROVE Pieces(s, args)[i] = <<s[i]>>
    <3>1. i \in 1..n /\ c < i /\ i < p /\ i \in Int /\ i - 1 \in Int /\ (i - 1 = c \/ (c < i - 1 /\ i - 1 < p))
      BY <1>2, <2>3
    <3>2. i \notin Starts(s) /\ i - 1 \notin Starts(s)
      BY <1>2, <2>7, <3>1, Zenon
    <3>3. Piece(s, args, i) = <<s[i]>>
      BY <3>2, Zenon DEF Piece
    <3> QED
      BY <1>1, <3>1, <3>3, Zenon DEF Pieces
  <2>9. h[p - 1] = h[c] \o SubSeq(s, c + 1, p - 1)
    <3>1. p - 1 \in c..Len(s) /\ c \in 0..Len(s)
      BY <1>1, <1>2, <2>2, <2>3
    <3>2. IsRun(s, Pieces(s, args), c, p - 1)
      BY <2>8, <3>1, Zenon DEF IsRun
    <3>3. GoesOn(s, h, c, p - 1)
      BY <3>2, PlainRun, Zenon
    <3> QED
      BY <3>3, Zenon DEF GoesOn
  <2>10. h[p] = h[p - 1] \o arg
    <3>1. p \in 1..n
      BY <1>2, <2>2, <2>3
    <3>2. Piece(s, args, p) = arg
      BY <1>1, <2>2, <2>5, Zenon DEF Piece
    <3>3. Pieces(s, args)[p] = arg
      BY <1>1, <3>1, <3>2, Zenon DEF Pieces
    <3> QED
      BY <1>1, <3>1, <3>3, Zenon DEF Joins
  <2>11. h[p + 1] = h[p]
    <3>1. p + 1 \in 1..n /\ (p + 1) - 1 = p /\ p \in 0..n
      BY <1>2, <2>2, <2>3
    <3>2. Piece(s, args, p + 1) = <<>>
      BY <2>2, <2>5, <2>6, <3>1, Zenon DEF Piece
    <3>3. Pieces(s, args)[p + 1] = <<>>
      BY <1>1, <3>1, <3>2, Zenon DEF Pieces
    <3>4. h[p + 1] = h[p] \o <<>> /\ h[p] \in Seq(C)
      BY <1>1, <3>1, <3>3, Zenon DEF Joins
    <3>5. h[p] \o <<>> = h[p]
      BY <3>4, ConcatEmptySeq
    <3> QED
      BY <3>4, <3>5, Zenon
  <2>12. SubSeq(t, 1, pos - 1) = SubSeq(s, c + 1, p - 1)
    <3>1. 1 \in 1..(n - c + 1) /\ pos - 1 \in (1 - 1)..(n - c) /\ c + (pos - 1) = p - 1
      <4>1. 1 <= pos /\ pos < n - c /\ p = c + pos
        BY <1>2, <2>1, <2>2, <2>3
      <4> QED
        BY <1>2, <2>2, <4>1
    <3>2. SubSeq(SubSeq(s, c + 1, n), 1, pos - 1) = SubSeq(s, c + 1, c + (pos - 1))
      BY <1>1, <1>2, <3>1, PartOfRest
    <3> QED
      BY <1>2, <3>1, <3>2, Zenon
  <2>13. SubSeq(t, pos + 2, n - c) = SubSeq(s, (p + 1) + 1, n)
    <3>1. /\ pos + 2 \in 1..(n - c + 1) /\ n - c \in ((pos + 2) - 1)..(n - c)
          /\ c + (pos + 2) = (p + 1) + 1 /\ c + (n - c) = n
      <4>1. 1 <= pos /\ pos < n - c /\ p = c + pos
        BY <1>2, <2>1, <2>2, <2>3
      <4> QED
        BY <1>2, <2>2, <4>1
    <3>2. SubSeq(SubSeq(s, c + 1, n), pos + 2, n - c) = SubSeq(s, c + (pos + 2), c + (n - c))
      BY <1>1, <1>2, <3>1, PartOfRest
    <3> QED
      BY <1>2, <3>1, <3>2, Zenon
  <2>14. y = [out |-> x.out \o SubSeq(t, 1, pos - 1) \o arg, left |-> SubSeq(t, pos + 2, Len(t))]
    BY <1>1, <1>5, <2>1, Zenon DEF format_impl
  <2>15. y.out = h[p + 1] /\ y.left = SubSeq(s, (p + 1) + 1, n)
    <3>1. y.out = x.out \o SubSeq(t, 1, pos - 1) \o arg /\ y.left = SubSeq(t, pos + 2, Len(t))
      BY <2>14
    <3> QED
      BY <1>2, <1>3, <2>9, <2>10, <2>11, <2>12, <2>13, <3>1, Zenon
  <2>16. Nth(s, p + 1) = k + 1
    <3>1. \A q \in Starts(s) : q \in Int
      BY <1>1, <1>2, StartsInside
    <3>2. \A q \in Starts(s) : ~(p < q /\ q <= p + 1)
      BY <2>3, <2>6, <3>1
    <3>3. p + 1 \in Int /\ p <= p + 1
      BY <2>3
    <3>4. Nth(s, p + 1) = Nth(s, p)
      BY <1>1, <1>2, <2>3, <3>2, <3>3, NthStays
    <3> QED
      BY <2>5, <3>4, Zenon
  <2>17. p + 1 \in 0..n
    BY <1>2, <2>3
  <2>18. Through(s, args, h, k + 1, y, p + 1)
    BY <1>1, <2>6, <2>15, <2>16, <2>17, Zenon DEF Through
  <2> QED
    BY <1>1, <2>18, Zenon
<1> QED
  BY <1>4, <1>5

\* f[k] is what is out and what is left of fmt after k arguments.
Fills(fmt, args, m, f) ==
  f = [k \in 0..m |-> IF k = 0 THEN [out |-> <<>>, left |-> fmt] ELSE format_impl(f[k - 1], args[k])]

\* There is such an f, and format returns what its last value has.
LEMMA FillsExist ==
  ASSUME NEW fmt, NEW args, NEW n \in Nat, Len(args) = n
  PROVE  \E f : Fills(fmt, args, n, f) /\ format(fmt, args) = f[n].out \o f[n].left
<1> DEFINE S == {k \in Nat : \E f : Fills(fmt, args, k, f)}
<1>1. 0 \in S
  <2>1. PICK f : f = [k \in 0..0 |-> [out |-> <<>>, left |-> fmt]]
    OBVIOUS
  <2>2. \A k \in 0..0 : k = 0
    OBVIOUS
  <2>3. f = [k \in 0..0 |-> IF k = 0 THEN [out |-> <<>>, left |-> fmt] ELSE format_impl(f[k - 1], args[k])]
    BY <2>1, <2>2, Zenon
  <2> QED
    BY <2>3, Zenon DEF Fills
<1>2. ASSUME NEW k \in Nat, k \in S PROVE k + 1 \in S
  <2>1. PICK g : Fills(fmt, args, k, g)
    BY <1>2
  <2>2. PICK f : f = [i \in 0..(k + 1) |-> IF i = k + 1 THEN format_impl(g[k], args[i]) ELSE g[i]]
    OBVIOUS
  <2>3. \A i \in 0..k : g[i] = IF i = 0 THEN [out |-> <<>>, left |-> fmt] ELSE format_impl(g[i - 1], args[i])
    BY <2>1, Zenon DEF Fills
  <2>4. ASSUME NEW i \in 0..(k + 1)
        PROVE  f[i] = IF i = 0 THEN [out |-> <<>>, left |-> fmt] ELSE format_impl(f[i - 1], args[i])
    <3>1. CASE i = k + 1
      <4>1. i # 0 /\ i - 1 = k /\ k \in 0..(k + 1) /\ k # k + 1
        BY <3>1
      <4> QED
        BY <2>2, <3>1, <4>1, Zenon
    <3>2. CASE i # k + 1
      <4>1. i \in 0..k /\ (i # 0 => i - 1 \in 0..(k + 1) /\ i - 1 # k + 1)
        BY <3>2
      <4> QED
        BY <2>2, <2>3, <3>2, <4>1, Zenon
    <3> QED
      BY <3>1, <3>2
  <2>5. f = [i \in 0..(k + 1) |-> f[i]]
    BY <2>2
  <2>6. Fills(fmt, args, k + 1, f)
    BY <2>4, <2>5, Zenon DEF Fills
  <2> QED
    BY <2>6
<1>3. n \in S
  <2> HIDE DEF S
  <2> QED
    BY <1>1, <1>2, SetInduction
<1>4. PICK f : f = CHOOSE g : Fills(fmt, args, n, g)
  OBVIOUS
<1>5. Fills(fmt, args, n, f)
  BY <1>3, <1>4
<1>6. format(fmt, args) = f[n].out \o f[n].left
  BY <1>4, Zenon DEF format, Fills
<1> QED
  BY <1>5, <1>6

\* When the arguments are used up the rest of the format is out as it is.
LEMMA RestIsPlain ==
  ASSUME NEW C, NEW s \in Seq(C), NEW args \in Seq(Seq(C)), NEW x, NEW h, NEW c,
         Through(s, args, h, Len(args), x, c)
  PROVE  IsRun(s, Pieces(s, args), c, Len(s))
<1>1. PICK n, m : n = Len(s) /\ m = Len(args)
  OBVIOUS
<1>2. /\ n \in Nat /\ m \in Nat /\ c \in 0..n /\ c \in Int /\ c \notin Starts(s)
      /\ Nth(s, c) = m \/ \A q \in Starts(s) : ~(c < q)
  BY <1>1 DEF Through
<1>3. ASSUME NEW q \in Starts(s), c < q PROVE ~(Nth(s, q) <= m)
  <2>1. Nth(s, c) = m
    BY <1>2, <1>3
  <2>2. Nth(s, q) > Nth(s, c)
    BY <1>1, <1>2, <1>3, NthGrows
  <2>3. Nth(s, q) \in Nat
    BY <1>1, <1>2, NthPositive
  <2> QED
    BY <1>2, <2>1, <2>2, <2>3
<1>4. ASSUME NEW i \in (c + 1)..n PROVE Pieces(s, args)[i] = <<s[i]>>
  <2>1. i \in 1..n /\ c < i /\ (i - 1 = c \/ c < i - 1)
    BY <1>2
  <2>2. ~(i \in Starts(s) /\ Nth(s, i) <= m)
    BY <1>3, <2>1, Zenon
  <2>3. ~(i - 1 \in Starts(s) /\ Nth(s, i - 1) <= m)
    BY <1>2, <1>3, <2>1, Zenon
  <2>4. Piece(s, args, i) = <<s[i]>>
    BY <1>1, <2>2, <2>3, Zenon DEF Piece
  <2> QED
    BY <1>1, <2>1, <2>4, Zenon DEF Pieces
<1>5. c \in 0..n /\ n \in c..n
  BY <1>2
<1> QED
  BY <1>1, <1>4, <1>5, Zenon DEF IsRun

\* What format returns is what the pieces of the format say.
LEMMA FormatJoinsPieces ==
  ASSUME NEW C, NEW s \in Seq(C), NEW args \in Seq(Seq(C))
  PROVE  format(s, args) = FlattenSeq(Pieces(s, args))
<1>1. PICK n, m, p : n = Len(s) /\ m = Len(args) /\ p = Pieces(s, args)
  OBVIOUS
<1>2. n \in Nat /\ m \in Nat
  BY <1>1
<1>3. PICK h : Joins(p, n, C, h) /\ FlattenSeq(p) = h[n]
  <2>1. p = [i \in 1..n |-> Piece(s, args, i)]
    BY <1>1, Zenon DEF Pieces
  <2>2. p = [i \in 1..n |-> p[i]] /\ Len(p) = n
    BY <1>2, <2>1
  <2>3. \A i \in 1..n : p[i] \in Seq(C)
    BY <1>1, <2>1, PiecesAreTexts, Zenon
  <2> QED
    BY <1>2, <2>2, <2>3, Joined
<1>4. PICK f : Fills(s, args, m, f) /\ format(s, args) = f[m].out \o f[m].left
  BY <1>1, <1>2, FillsExist
<1> DEFINE S == {k \in Nat : k <= m => \E c : Through(s, args, h, k, f[k], c)}
<1>5. 0 \in S
  <2>1. 0 \in 0..m /\ 0 \in 0..n /\ 0 + 1 = 1
    BY <1>2
  <2>2. f[0] = [out |-> <<>>, left |-> s]
    BY <1>4, <2>1, Zenon DEF Fills
  <2>3. f[0].out = <<>> /\ f[0].left = s
    BY <2>2
  <2>4. h[0] = <<>>
    BY <1>3, Zenon DEF Joins
  <2>5. SubSeq(s, 1, Len(s)) = s
    BY SubSeqFull
  <2>6. 0 \notin Starts(s)
    BY <1>1, <1>2, StartsInside
  <2>7. Nth(s, 0) = 0
    BY <1>1, <1>2, NthOfNone
  <2>8. Through(s, args, h, 0, f[0], 0)
    BY <1>1, <2>1, <2>3, <2>4, <2>5, <2>6, <2>7, Zenon DEF Through
  <2> QED
    BY <2>8
<1>6. ASSUME NEW k \in Nat, k \in S PROVE k + 1 \in S
  <2>0. k + 1 \in Nat
    OBVIOUS
  <2>1. SUFFICES ASSUME k + 1 <= m PROVE \E c : Through(s, args, h, k + 1, f[k + 1], c)
    BY <2>0, Zenon
  <2>2. k + 1 \in 0..m /\ k + 1 # 0 /\ (k + 1) - 1 = k /\ k <= m
    BY <1>2, <2>1
  <2>3. PICK c : Through(s, args, h, k, f[k], c)
    BY <1>6, <2>2, Zenon
  <2>4. f[k + 1] = format_impl(f[k], args[k + 1])
    BY <1>4, <2>2, Zenon DEF Fills
  <2>5. Joins(Pieces(s, args), Len(s), C, h) /\ k + 1 <= Len(args)
    BY <1>1, <1>3, <2>1, Zenon
  <2>6. \E d : Through(s, args, h, k + 1, format_impl(f[k], args[k + 1]), d)
    BY <2>3, <2>5, ArgumentFillsIn, Zenon
  <2> QED
    BY <2>4, <2>6, Zenon
<1>7. PICK c : Through(s, args, h, m, f[m], c)
  <2>1. m \in S
    <3> HIDE DEF S
    <3> QED
      BY <1>2, <1>5, <1>6, SetInduction
  <2>2. m <= m
    BY <1>2
  <2> QED
    BY <2>1, <2>2, Zenon
<1>8. f[m].out = h[c] /\ f[m].left = SubSeq(s, c + 1, n)
  BY <1>1, <1>7, Zenon DEF Through
<1>9. GoesOn(s, h, c, n)
  <2>1. Joins(Pieces(s, args), Len(s), C, h) /\ Through(s, args, h, Len(args), f[m], c)
    BY <1>1, <1>3, <1>7, Zenon
  <2>2. IsRun(s, Pieces(s, args), c, Len(s))
    BY <2>1, RestIsPlain, Zenon
  <2>3. GoesOn(s, h, c, Len(s))
    BY <2>1, <2>2, PlainRun, Zenon
  <2> QED
    BY <1>1, <2>3, Zenon
<1> QED
  BY <1>1, <1>3, <1>4, <1>8, <1>9, Zenon DEF GoesOn

-----------------------------------------------------------------------------
\* The calls, and the theorem.

\* What is called is one of the two functions, with arguments of its own, and
\* once it returned the result is what it says.
StringsInv ==
  /\ returned \in BOOLEAN
  /\ \/ /\ call.name = "to_string_hex" /\ call.w \in Words /\ call.fill_width \in Nat
        /\ returned => \E byVector \in BOOLEAN : result = to_string_hex(call.w, call.fill_width, byVector)
     \/ /\ call.name = "format" /\ call.fmt \in Seq(Characters) /\ call.args \in Seq(Seq(Characters))
        /\ returned => result = format(call.fmt, call.args)

\* Calls are made with what the functions are declared to take.
LEMMA CallsBegin == StringsInit => StringsInv
<1> SUFFICES ASSUME StringsInit PROVE StringsInv
  OBVIOUS
<1>1. returned = FALSE
  BY DEF StringsInit
<1>2. CASE \E w \in Words, n \in 0..MaxFill : call = [name |-> "to_string_hex", w |-> w, fill_width |-> n]
  <2>1. PICK w \in Words, n \in 0..MaxFill : call = [name |-> "to_string_hex", w |-> w, fill_width |-> n]
    BY <1>2
  <2>2. call.name = "to_string_hex" /\ call.w \in Words /\ call.fill_width \in Nat
    BY <2>1, StringsAssumption DEF StringsAssumption
  <2> QED
    BY <1>1, <2>2 DEF StringsInv
<1>3. CASE \E s \in Formats, a \in ArgumentLists : call = [name |-> "format", fmt |-> s, args |-> a]
  <2>1. PICK s \in Formats, a \in ArgumentLists : call = [name |-> "format", fmt |-> s, args |-> a]
    BY <1>3
  <2>2. PICK k \in 0..MaxFormat : s \in [1..k -> Characters]
    BY DEF Formats
  <2>3. PICK j \in 0..MaxArgs : a \in [1..j -> Texts]
    BY DEF ArgumentLists
  <2>4. Texts \subseteq Seq(Characters)
    BY StringsAssumption DEF StringsAssumption
  <2>5. s \in Seq(Characters)
    BY <2>2
  <2>6. a \in Seq(Seq(Characters))
    BY <2>3, <2>4
  <2>7. call.name = "format" /\ call.fmt = s /\ call.args = a
    BY <2>1
  <2> QED
    BY <1>1, <2>5, <2>6, <2>7 DEF StringsInv
<1> QED
  BY <1>2, <1>3 DEF StringsInit

\* Either function returns what it says, in its own call.
LEMMA CallsReturn == StringsInv /\ [StringsNext]_stringsVars => StringsInv'
<1> SUFFICES ASSUME StringsInv, [StringsNext]_stringsVars PROVE StringsInv'
  OBVIOUS
<1>1. CASE ToStringHex
  <2>1. /\ call.name = "to_string_hex" /\ call' = call /\ returned' = TRUE
        /\ \E byVector \in BOOLEAN : result' = to_string_hex(call.w, call.fill_width, byVector)
    BY <1>1, Zenon DEF ToStringHex
  <2>2. call.name # "format"
    BY <2>1
  <2>3. call.w \in Words /\ call.fill_width \in Nat
    BY <2>1, <2>2, Zenon DEF StringsInv
  <2> QED
    BY <2>1, <2>3, Zenon DEF StringsInv
<1>2. CASE Format
  <2>1. call.name = "format" /\ call' = call /\ returned' = TRUE /\ result' = format(call.fmt, call.args)
    BY <1>2, Zenon DEF Format
  <2>2. call.name # "to_string_hex"
    BY <2>1
  <2>3. call.fmt \in Seq(Characters) /\ call.args \in Seq(Seq(Characters))
    BY <2>1, <2>2, Zenon DEF StringsInv
  <2> QED
    BY <2>1, <2>3, Zenon DEF StringsInv
<1>3. CASE UNCHANGED stringsVars
  BY <1>3, Zenon DEF StringsInv, stringsVars
<1> QED
  BY <1>1, <1>2, <1>3 DEF StringsNext

\* What they return is what was asked for.
LEMMA ReturnedIsExact == StringsInv => ConversionsExact
<1> SUFFICES ASSUME StringsInv PROVE ConversionsExact
  OBVIOUS
<1>1. HexShowsNumber
  <2>1. SUFFICES ASSUME call.name = "to_string_hex", returned, call.fill_width <= Digits
                 PROVE  Len(result) = Digits /\ NumberOf(result) = call.w
    BY DEF HexShowsNumber, Returned
  <2>2. call.name # "format"
    BY <2>1
  <2>3. /\ call.w \in Words /\ call.fill_width \in Nat
        /\ \E byVector \in BOOLEAN : result = to_string_hex(call.w, call.fill_width, byVector)
    BY <2>1, <2>2, Zenon DEF StringsInv
  <2>4. PICK w, k, byVector : w = call.w /\ k = call.fill_width /\ result = to_string_hex(w, k, byVector)
    BY <2>3
  <2>5. w \in Words /\ k \in Nat /\ k <= Digits
    BY <2>1, <2>3, <2>4
  <2>6. /\ Len(to_string_hex(w, k, byVector)) = Digits
        /\ NumberOf(to_string_hex(w, k, byVector)) = w
    BY <2>5, HexIsExact, Zenon
  <2> QED
    BY <2>4, <2>6, Zenon
<1>2. FormatFillsInOrder
  <2>1. SUFFICES ASSUME call.name = "format", returned
                 PROVE  result = FlattenSeq(Pieces(call.fmt, call.args))
    BY DEF FormatFillsInOrder, Returned, Pieces
  <2>2. call.name # "to_string_hex"
    BY <2>1
  <2>3. /\ call.fmt \in Seq(Characters) /\ call.args \in Seq(Seq(Characters))
        /\ result = format(call.fmt, call.args)
    BY <2>1, <2>2, Zenon DEF StringsInv
  <2> QED
    BY <2>3, FormatJoinsPieces, Zenon
<1> QED
  BY <1>1, <1>2 DEF ConversionsExact

(* What to_string_hex returns reads as the number it was given, in as many    *)
(* digits as its type has, when it is not asked for more; and format gives    *)
(* each placeholder its argument, in order, and changes nothing else.         *)
THEOREM ConversionsAreExact == StringsSpec => []ConversionsExact
<1>1. StringsInit => StringsInv
  BY CallsBegin
<1>2. StringsInv /\ [StringsNext]_stringsVars => StringsInv'
  BY CallsReturn
<1>3. StringsInv => ConversionsExact
  BY ReturnedIsExact
<1> QED
  BY <1>1, <1>2, <1>3, PTL DEF StringsSpec
=============================================================================
