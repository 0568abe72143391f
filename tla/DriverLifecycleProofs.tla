------------------------ MODULE DriverLifecycleProofs ------------------------
(***************************************************************************)
(* Entry and unload for every constructor list, every number of statics in *)
(* functions and every set of faults: the driver's code sees its statics   *)
(* alive, and their destruction mirrors their construction.                *)
(***************************************************************************)
EXTENDS DriverLifecycle, SequenceTheorems, TLAPS

-----------------------------------------------------------------------------
(* The invariant.                                                          *)

Labels == {"loading", "ctors", "zw", "entry", "loaded", "unload", "rejected", "discarded",
           "dtors", "free", "unloaded", "crashed"}

Types ==
  /\ pc \in Labels
  /\ i \in 0 .. N
  /\ atexit_list \in Seq(Statics)
  /\ p \in Seq(Statics)
  /\ constructed \in Seq(Statics)
  /\ destroyed \in Seq(Statics)

\* __ctors has called the entries above i, and destructors wait for __dtors.
AliveInv ==
  /\ pc = "ctors" => \A s \in i + 1 .. N : Contains(constructed, s)
  /\ pc \in {"zw", "entry", "loaded", "unload"} => \A s \in 1 .. N : Contains(constructed, s)
  /\ pc \notin {"dtors", "free", "unloaded", "crashed"} => destroyed = <<>>

\* The elements of l are in c, and in the opposite order.
Mirrors(l, c) ==
  /\ \A a \in 1 .. Len(l) : \E k \in 1 .. Len(c) : c[k] = l[a]
  /\ \A a, b \in 1 .. Len(l) :
       a < b => \E k, m \in 1 .. Len(c) : k < m /\ c[k] = l[b] /\ c[m] = l[a]

\* What is destroyed by the time the loop of __dtors ends.
Doomed == destroyed \o (IF pc = "dtors" THEN p ELSE IF pc = "free" THEN Tail(p) ELSE <<>>)

MirrorInv ==
  /\ Mirrors(atexit_list, constructed)
  /\ Mirrors(Doomed, constructed)
  /\ pc = "free" => p # <<>>

\* The statics that have a destructor are on their way to it.
CompleteInv ==
  /\ pc = "loaded" => DriverUnload = "crt"
  /\ faults \cap {"malloc", "reuse", "late"} = {} =>
       \A s \in Statics \ Trivial : Contains(constructed, s) =>
         IF pc \in {"dtors", "free", "unloaded"} THEN Contains(Doomed, s)
         ELSE pc # "crashed" => Contains(atexit_list, s)

-----------------------------------------------------------------------------
(* Both forms of the list give its length.                                 *)
LEMMA CtorCountIsN == CtorCount = N
<1>1. N \in Nat /\ Counted \in BOOLEAN
  BY LifecycleAssumption DEF LifecycleAssumption
<1>2. \A k \in 1 .. N + 1 : CtorList[k] = Null <=> k = N + 1
  BY <1>1 DEF CtorList, Null
<1>3. CtorList[0] = IF Counted THEN N ELSE -1
  BY <1>1 DEF CtorList
<1> DEFINE First(k) == CtorList[k] = Null /\ \A j \in 1 .. k - 1 : CtorList[j] # Null
<1>4. \A k \in 1 .. N + 1 : First(k) <=> k = N + 1
  BY <1>1, <1>2
<1> DEFINE K == CHOOSE k \in 1 .. N + 1 : First(k)
<1>5. K = N + 1
  BY <1>1, <1>4
<1>6. CtorCount = IF CtorList[0] = -1 THEN K - 1 ELSE CtorList[0]
  BY Zenon DEF CtorCount
<1> HIDE DEF K
<1> QED
  BY <1>1, <1>3, <1>5, <1>6

LEMMA AppendContains ==
  ASSUME NEW c \in Seq(Statics), NEW s \in Statics
  PROVE  /\ Append(c, s) \in Seq(Statics)
         /\ \A x : Contains(Append(c, s), x) <=> Contains(c, x) \/ x = s
<1>1. Len(Append(c, s)) = Len(c) + 1 /\ Append(c, s) \in Seq(Statics) /\ Len(c) \in Nat
  OBVIOUS
<1>2. \A k \in 1 .. Len(c) : Append(c, s)[k] = c[k]
  OBVIOUS
<1>3. Append(c, s)[Len(c) + 1] = s
  OBVIOUS
<1> QED
  BY ONLY <1>1, <1>2, <1>3 DEF Contains

LEMMA PrependContains ==
  ASSUME NEW l \in Seq(Statics), NEW s \in Statics
  PROVE  /\ <<s>> \o l \in Seq(Statics)
         /\ Len(<<s>> \o l) = Len(l) + 1
         /\ (<<s>> \o l)[1] = s
         /\ \A k \in 1 .. Len(l) : (<<s>> \o l)[k + 1] = l[k]
         /\ \A k \in 2 .. Len(l) + 1 : (<<s>> \o l)[k] = l[k - 1]
         /\ \A x : Contains(l, x) \/ x = s => Contains(<<s>> \o l, x)
<1>1. /\ <<s>> \o l \in Seq(Statics) /\ Len(<<s>> \o l) = Len(l) + 1 /\ Len(l) \in Nat
  OBVIOUS
<1>2. (<<s>> \o l)[1] = s
  OBVIOUS
<1>3. \A k \in 1 .. Len(l) : (<<s>> \o l)[k + 1] = l[k]
  OBVIOUS
<1>4. \A k \in 2 .. Len(l) + 1 : (<<s>> \o l)[k] = l[k - 1]
  OBVIOUS
<1>5. 1 \in 1 .. Len(<<s>> \o l) /\ \A k \in 1 .. Len(l) : k + 1 \in 1 .. Len(<<s>> \o l)
  BY <1>1
<1>6. Contains(<<s>> \o l, s)
  BY ONLY <1>2, <1>5 DEF Contains
<1>7. \A x : Contains(l, x) => Contains(<<s>> \o l, x)
  BY ONLY <1>3, <1>5 DEF Contains
<1> QED
  BY <1>1, <1>2, <1>3, <1>4, <1>6, <1>7

LEMMA EmptyMirrors == \A c : Mirrors(<<>>, c)
  BY DEF Mirrors

(* Construction goes on at the end, so that nothing changes for those that *)
(* are mirrored already ...                                                *)
LEMMA MirrorsLonger ==
  ASSUME NEW l, NEW c \in Seq(Statics), NEW s \in Statics, Mirrors(l, c)
  PROVE  Mirrors(l, Append(c, s))
<1> DEFINE d == Append(c, s)
<1>1. Len(d) = Len(c) + 1 /\ Len(c) \in Nat
  OBVIOUS
<1>2. \A k \in 1 .. Len(c) : k \in 1 .. Len(d) /\ d[k] = c[k]
  OBVIOUS
<1> HIDE DEF d
<1> QED
  BY <1>1, <1>2 DEF Mirrors, d

(* ... and the new one can be put before them.                             *)
LEMMA MirrorsPrepended ==
  ASSUME NEW l \in Seq(Statics), NEW c \in Seq(Statics), NEW s \in Statics, Mirrors(l, c)
  PROVE  Mirrors(<<s>> \o l, Append(c, s))
<1> DEFINE d == Append(c, s)
           m == <<s>> \o l
<1>1. Len(d) = Len(c) + 1 /\ Len(c) \in Nat /\ d[Len(c) + 1] = s
  OBVIOUS
<1>2. \A k \in 1 .. Len(c) : k \in 1 .. Len(d) /\ k < Len(c) + 1 /\ d[k] = c[k]
  OBVIOUS
<1>3. /\ Len(m) = Len(l) + 1 /\ Len(l) \in Nat /\ m[1] = s
      /\ \A a \in 1 .. Len(m) : a # 1 => a - 1 \in 1 .. Len(l) /\ m[a] = l[a - 1]
  BY PrependContains
<1>4. Len(c) + 1 \in 1 .. Len(d)
  BY <1>1
<1> HIDE DEF d, m
<1>5. \A a \in 1 .. Len(m) : \E k \in 1 .. Len(d) : d[k] = m[a]
  <2> TAKE a \in 1 .. Len(m)
  <2>1. CASE a = 1
    BY <1>1, <1>3, <1>4, <2>1
  <2>2. CASE a # 1
    <3>1. PICK k \in 1 .. Len(c) : c[k] = l[a - 1]
      BY <1>3, <2>2 DEF Mirrors
    <3> QED
      BY <1>2, <1>3, <2>2, <3>1
  <2> QED
    BY <2>1, <2>2
<1>6. ASSUME NEW a \in 1 .. Len(m), NEW b \in 1 .. Len(m), a < b
      PROVE  \E k, n \in 1 .. Len(d) : k < n /\ d[k] = m[b] /\ d[n] = m[a]
  <2>1. b # 1 /\ b - 1 \in 1 .. Len(l) /\ m[b] = l[b - 1]
    BY <1>3, <1>6
  <2>2. CASE a = 1
    <3>1. PICK k \in 1 .. Len(c) : c[k] = l[b - 1]
      BY <2>1 DEF Mirrors
    <3> QED
      BY <1>1, <1>2, <1>3, <1>4, <2>1, <2>2, <3>1
  <2>3. CASE a # 1
    <3>1. a - 1 \in 1 .. Len(l) /\ m[a] = l[a - 1] /\ a - 1 < b - 1
      BY <1>3, <1>6, <2>3
    <3>2. PICK k, n \in 1 .. Len(c) : k < n /\ c[k] = l[b - 1] /\ c[n] = l[a - 1]
      BY <2>1, <3>1 DEF Mirrors
    <3> QED
      BY <1>2, <2>1, <3>1, <3>2
  <2> QED
    BY <2>2, <2>3
<1> QED
  BY <1>5, <1>6 DEF Mirrors, d, m

-----------------------------------------------------------------------------
(* The steps that construct a static.                                      *)
LEMMA ConstructKeeps ==
  ASSUME Types, MirrorInv, NEW s \in Statics, Construct(s)
  PROVE  /\ constructed' = Append(constructed, s)
         /\ constructed' \in Seq(Statics)
         /\ atexit_list' \in Seq(Statics)
         /\ Mirrors(atexit_list', constructed')
         /\ Mirrors(Doomed, constructed')
         /\ \A x : Contains(constructed', x) <=> Contains(constructed, x) \/ x = s
         /\ \A x : Contains(atexit_list, x) => Contains(atexit_list', x)
         /\ "malloc" \notin faults => s \in Trivial \/ Contains(atexit_list', s)
<1>1. constructed' = Append(constructed, s)
  BY DEF Construct
<1>2. CASE atexit_list' = <<s>> \o atexit_list
  BY <1>1, <1>2, AppendContains, PrependContains, MirrorsLonger, MirrorsPrepended
    DEF Types, MirrorInv
<1>3. CASE UNCHANGED atexit_list /\ ("malloc" \in faults \/ s \in Trivial)
  BY <1>1, <1>3, AppendContains, MirrorsLonger DEF Types, MirrorInv
<1> QED
  BY <1>2, <1>3 DEF Construct, register_atexit

(* The end of a turn of the loop takes nothing from what is doomed.        *)
LEMMA Turns ==
  ASSUME NEW d \in Seq(Statics), NEW l \in Seq(Statics), l # <<>>
  PROVE  /\ Head(l) \in Statics /\ Tail(l) \in Seq(Statics)
         /\ Append(d, Head(l)) \in Seq(Statics)
         /\ Append(d, Head(l)) \o Tail(l) = d \o l
<1>1. Head(l) \in Statics /\ Tail(l) \in Seq(Statics) /\ l = <<Head(l)>> \o Tail(l)
  OBVIOUS
<1>2. PICK h \in Statics, t \in Seq(Statics) : h = Head(l) /\ t = Tail(l) /\ l = <<h>> \o t
  BY <1>1
<1>3. Append(d, h) \o t = d \o (<<h>> \o t)
  BY ONLY <1>2, d \in Seq(Statics)
<1> QED
  BY <1>1, <1>2, <1>3

LEMMA EmptyConcat ==
  ASSUME NEW l \in Seq(Statics)
  PROVE  <<>> \o l = l /\ l \o <<>> = l
OBVIOUS

LEMMA PrefixMirrors ==
  ASSUME NEW d \in Seq(Statics), NEW l \in Seq(Statics), NEW c, Mirrors(d \o l, c)
  PROVE  Mirrors(d, c)
<1> DEFINE e == d \o l
<1>1. /\ \A a \in 1 .. Len(d) : a \in 1 .. Len(e) /\ e[a] = d[a]
  OBVIOUS
<1>2. Mirrors(e, c)
  OBVIOUS
<1> HIDE DEF e
<1> QED
  BY ONLY <1>1, <1>2 DEF Mirrors

-----------------------------------------------------------------------------
Inv == Types /\ AliveInv /\ MirrorInv /\ CompleteInv

LEMMA InvInit == Init => Inv
<1> SUFFICES ASSUME Init PROVE Inv
  OBVIOUS
<1>1. <<>> \in Seq(Statics) /\ 0 \in 0 .. N /\ \A x : ~Contains(<<>>, x)
  BY LifecycleAssumption DEF LifecycleAssumption, Contains
<1>2. Doomed = <<>>
  BY <1>1, EmptyConcat DEF Init, Doomed
<1> QED
  BY <1>1, <1>2, EmptyMirrors DEF Init, Inv, Types, Labels, AliveInv, MirrorInv, CompleteInv

(* Steps before the destructors that construct nothing.                    *)
LEMMA QuietStep ==
  ASSUME Inv,
         StartCtors \/ CtorsDone \/ ResolveZw \/ EntryReturns \/ EntrySetsUnload \/ Discard \/ Unload
  PROVE  Inv'
<1>0. N \in Nat
  BY LifecycleAssumption DEF LifecycleAssumption
<1>1. /\ UNCHANGED <<faults, atexit_list, p, constructed, destroyed>>
      /\ pc \notin {"dtors", "free", "crashed"} /\ pc' \notin {"dtors", "free", "crashed"}
      /\ pc' \in Labels
  BY DEF StartCtors, CtorsDone, ResolveZw, EntryReturns, EntrySetsUnload, Discard, Unload, Labels
<1>2. Types'
  BY <1>0, <1>1, CtorCountIsN
    DEF Inv, Types, StartCtors, CtorsDone, ResolveZw, EntryReturns, EntrySetsUnload, Discard, Unload
<1>3. Doomed' = Doomed
  BY <1>1 DEF Doomed
<1>4. MirrorInv'
  BY <1>1, <1>3 DEF Inv, MirrorInv
<1>5. AliveInv'
  <2>1. CASE StartCtors
    BY <1>0, <1>1, <2>1, CtorCountIsN DEF Inv, AliveInv, StartCtors
  <2>2. CASE CtorsDone
    BY <1>0, <1>1, <2>2 DEF Inv, AliveInv, CtorsDone
  <2>3. CASE ResolveZw \/ EntryReturns \/ EntrySetsUnload \/ Discard \/ Unload
    BY <1>1, <2>3 DEF Inv, AliveInv, ResolveZw, EntryReturns, EntrySetsUnload, Discard, Unload
  <2> QED
    BY <2>1, <2>2, <2>3
<1>6. CompleteInv'
  <2>1. (pc = "loaded")' => DriverUnload' = "crt"
    BY DEF Inv, CompleteInv, StartCtors, CtorsDone, ResolveZw, EntryReturns, EntrySetsUnload,
           Discard, Unload
  <2>2. pc' # "unloaded"
    BY DEF Inv, CompleteInv, StartCtors, CtorsDone, ResolveZw, EntryReturns, EntrySetsUnload,
           Discard, Unload
  <2>3. pc # "unloaded"
    BY DEF StartCtors, CtorsDone, ResolveZw, EntryReturns, EntrySetsUnload, Discard, Unload
  <2> QED
    BY <1>1, <2>1, <2>2, <2>3 DEF Inv, CompleteInv
<1> QED
  BY <1>2, <1>4, <1>5, <1>6 DEF Inv

(* A static comes into being, before DriverEntry or in it, in DriverUnload *)
(* or in a destructor.                                                     *)
LEMMA ConstructStep ==
  ASSUME Inv, CallCtor \/ \E s \in Locals : ConstructLocal(s)
  PROVE  Inv'
<1>0. N \in Nat /\ NLocal \in Nat /\ Types /\ MirrorInv
  BY LifecycleAssumption DEF LifecycleAssumption, Inv
<1>1. PICK s \in Statics :
        /\ Construct(s)
        /\ \/ pc = "ctors" /\ i > 0 /\ s = i /\ i' = i - 1
           \/ pc \in {"entry", "unload"} /\ UNCHANGED i
           \/ "late" \in faults /\ pc = "free" /\ UNCHANGED i
  <2>1. CASE CallCtor
    <3>1. CtorList[i] = i /\ i \in Statics
      BY <1>0, <2>1 DEF CallCtor, Types, CtorList, Statics
    <3> QED
      BY <2>1, <3>1 DEF CallCtor
  <2>2. ASSUME NEW s \in Locals, ConstructLocal(s)
        PROVE  s \in Statics
    BY <1>0 DEF Locals, Statics
  <2> QED
    BY <2>1, <2>2 DEF ConstructLocal
<1>2. UNCHANGED <<faults, pc, p, DriverUnload, destroyed>>
  BY DEF CallCtor, ConstructLocal
<1>3. /\ constructed' \in Seq(Statics)
      /\ atexit_list' \in Seq(Statics)
      /\ Mirrors(atexit_list', constructed')
      /\ Mirrors(Doomed, constructed')
      /\ \A x : Contains(constructed', x) <=> Contains(constructed, x) \/ x = s
      /\ \A x : Contains(atexit_list, x) => Contains(atexit_list', x)
      /\ "malloc" \notin faults => s \in Trivial \/ Contains(atexit_list', s)
  BY <1>0, <1>1, ConstructKeeps
<1>4. Doomed' = Doomed
  BY <1>2 DEF Doomed
<1>5. Types'
  BY <1>0, <1>1, <1>2, <1>3 DEF Types
<1>6. MirrorInv'
  BY <1>0, <1>2, <1>3, <1>4 DEF MirrorInv
<1>7. AliveInv'
  <2>1. CASE pc = "ctors"
    BY <1>0, <1>1, <1>2, <1>3, <2>1 DEF Inv, AliveInv, Types
  <2>2. CASE pc # "ctors"
    BY <1>0, <1>1, <1>2, <1>3, <2>2 DEF Inv, AliveInv
  <2> QED
    BY <2>1, <2>2
<1>8. CompleteInv'
  BY <1>1, <1>2, <1>3, <1>4 DEF Inv, CompleteInv
<1> QED
  BY <1>5, <1>6, <1>7, <1>8 DEF Inv

(* DriverUnload has returned: what waits in the list is doomed.            *)
LEMMA UnloadReturnsStep == ASSUME Inv, UnloadReturns PROVE Inv'
<1>1. /\ pc = "unload" /\ pc' = "dtors" /\ p' = atexit_list
      /\ UNCHANGED <<faults, i, atexit_list, DriverUnload, constructed, destroyed>>
  BY DEF UnloadReturns
<1>2. destroyed = <<>> /\ atexit_list \in Seq(Statics)
  BY <1>1 DEF Inv, AliveInv, Types
<1>3. Doomed' = atexit_list
  BY <1>1, <1>2, EmptyConcat DEF Doomed
<1>4. Types' /\ AliveInv'
  BY <1>1 DEF Inv, Types, AliveInv, Labels
<1>5. MirrorInv'
  BY <1>1, <1>3 DEF Inv, MirrorInv
<1>6. CompleteInv'
  BY <1>1, <1>3 DEF Inv, CompleteInv
<1> QED
  BY <1>4, <1>5, <1>6 DEF Inv

(* A destructor is called: it was doomed and still is.                     *)
LEMMA CallDtorStep == ASSUME Inv, CallDtor PROVE Inv'
<1>1. /\ pc = "dtors" /\ pc' = "free" /\ p # <<>> /\ destroyed' = Append(destroyed, Head(p))
      /\ UNCHANGED <<faults, i, atexit_list, p, DriverUnload, constructed>>
  BY DEF CallDtor
<1>2. destroyed \in Seq(Statics) /\ p \in Seq(Statics)
  BY DEF Inv, Types
<1>3. destroyed' \in Seq(Statics) /\ Doomed' = Doomed
  BY <1>1, <1>2, Turns DEF Doomed
<1>4. Types' /\ AliveInv'
  BY <1>1, <1>3 DEF Inv, Types, AliveInv, Labels
<1>5. MirrorInv' /\ CompleteInv'
  BY <1>1, <1>3 DEF Inv, MirrorInv, CompleteInv
<1> QED
  BY <1>4, <1>5 DEF Inv

(* The node is freed and left: without reuse nothing is lost, and with it  *)
(* what has been destroyed still mirrors what was constructed.             *)
LEMMA FreeNodeStep == ASSUME Inv, FreeNode PROVE Inv'
<1>1. /\ pc = "free" /\ UNCHANGED <<faults, i, atexit_list, DriverUnload, constructed, destroyed>>
      /\ p # <<>> /\ p \in Seq(Statics) /\ destroyed \in Seq(Statics)
      /\ Doomed = destroyed \o Tail(p) /\ Tail(p) \in Seq(Statics)
  BY Turns DEF Inv, Types, MirrorInv, Doomed, FreeNode
<1>2. Mirrors(destroyed, constructed) /\ <<>> \in Seq(Statics) /\ destroyed \o <<>> = destroyed
  <2>1. Mirrors(destroyed \o Tail(p), constructed)
    BY <1>1 DEF Inv, MirrorInv
  <2>2. Mirrors(destroyed, constructed)
    BY <1>1, <2>1, PrefixMirrors
  <2>3. <<>> \in Seq(Statics) /\ destroyed \o <<>> = destroyed
    BY <1>1
  <2> QED
    BY <2>2, <2>3
<1>3. CASE pc' = "dtors" /\ p' = Tail(p)
  <2>1. Doomed' = Doomed
    BY <1>1, <1>3 DEF Doomed
  <2> QED
    BY <1>1, <1>3, <2>1 DEF Inv, Types, Labels, AliveInv, MirrorInv, CompleteInv
<1>4. CASE /\ "reuse" \in faults
           /\ (pc' = "dtors" /\ p' = <<>>) \/ (pc' = "crashed" /\ UNCHANGED p)
  <2>1. Doomed' = destroyed
    BY <1>1, <1>2, <1>4 DEF Doomed
  <2> QED
    BY <1>1, <1>2, <1>4, <2>1 DEF Inv, Types, Labels, AliveInv, MirrorInv, CompleteInv
<1> QED
  BY <1>3, <1>4 DEF FreeNode

(* The list is at its end: all that was doomed is destroyed.               *)
LEMMA DtorsDoneStep == ASSUME Inv, DtorsDone PROVE Inv'
<1>1. /\ pc = "dtors" /\ pc' = "unloaded" /\ p = <<>> /\ atexit_list' = <<>>
      /\ UNCHANGED <<faults, i, p, DriverUnload, constructed, destroyed>>
  BY DEF DtorsDone
<1>2. Doomed' = Doomed /\ <<>> \in Seq(Statics)
  BY <1>1 DEF Doomed
<1> QED
  BY <1>1, <1>2, EmptyMirrors DEF Inv, Types, Labels, AliveInv, MirrorInv, CompleteInv

LEMMA InvStep == Inv /\ [Next]_vars => Inv'
<1> SUFFICES ASSUME Inv, [Next]_vars PROVE Inv'
  OBVIOUS
<1>1. CASE UNCHANGED vars
  BY <1>1 DEF vars, Inv, Types, AliveInv, MirrorInv, CompleteInv, Doomed
<1> QED
  BY <1>1, QuietStep, ConstructStep, UnloadReturnsStep, CallDtorStep, FreeNodeStep, DtorsDoneStep
    DEF Next, Step, Done

LEMMA InvHolds == Spec => []Inv
BY InvInit, InvStep, PTL DEF Spec

-----------------------------------------------------------------------------
(* DriverEntry, the driver and DriverUnload find every static of the list  *)
(* constructed and none destroyed, whatever fails.                         *)
THEOREM StaticsAlive == Spec => []AliveWhileInUse
<1>1. Inv => AliveWhileInUse
  BY DEF Inv, AliveInv, AliveWhileInUse
<1> QED
  BY <1>1, InvHolds, PTL

(* Statics are destroyed in the reverse order of their construction, and   *)
(* all of them if atexit had memory and no node was reused.                *)
THEOREM DestructorsMirrorConstructors == Spec => []DestructionMirrors
<1> SUFFICES ASSUME TRUE PROVE Inv => DestructionMirrors
  BY InvHolds, PTL
<1> SUFFICES ASSUME Inv PROVE DestructionMirrors
  OBVIOUS
<1>1. Mirrors(destroyed, constructed)
  BY PrefixMirrors, EmptyConcat, Turns DEF Inv, Types, MirrorInv, Doomed
<1>2. DestroyedInReverse
  <2>1. DOMAIN destroyed = 1 .. Len(destroyed) /\ DOMAIN constructed = 1 .. Len(constructed)
    BY DEF Inv, Types
  <2> SUFFICES ASSUME NEW a \in DOMAIN destroyed, NEW b \in DOMAIN destroyed, a < b
               PROVE  \E k, l \in DOMAIN constructed :
                        k < l /\ constructed[k] = destroyed[b] /\ constructed[l] = destroyed[a]
    BY DEF DestroyedInReverse
  <2>2. PICK k, m \in 1 .. Len(constructed) :
          k < m /\ constructed[k] = destroyed[b] /\ constructed[m] = destroyed[a]
    BY <1>1, <2>1 DEF Mirrors
  <2> QED
    BY <2>1, <2>2
<1>3. pc = "unloaded" => Doomed = destroyed
  BY EmptyConcat DEF Inv, Types, Doomed
<1>4. UnloadDestroysAll
  BY <1>3 DEF Inv, CompleteInv, UnloadDestroysAll, AllDestroyed
<1> QED
  BY <1>2, <1>4 DEF DestructionMirrors
=============================================================================
