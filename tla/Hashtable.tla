----------------------------- MODULE Hashtable ------------------------------
(* EASTL's hashtable, under unordered_set, unordered_map and their multi      *)
(* kinds (internal/hashtable.h), with prime_rehash_policy (hashtable.cpp).    *)
(* A table without memory uses the one bucket of gpEmptyBucketArray, which    *)
(* all empty tables of the program share.  The maximum load factor is 1, the  *)
(* default, and the hash of a key is the key.                                *)
EXTENDS Integers, Sequences, SequencesExt, FiniteSetsExt

CONSTANTS
  ItemCount,         \* Bound: the items are 1..ItemCount
  gPrimeNumberArray  \* what a number of buckets can be, hashtable.cpp

\* No prime is that of the one bucket that empty tables share, and no table of the
\* items grows beyond the primes.
ASSUME PrimesSuffice ==
  /\ ItemCount \in Nat
  /\ gPrimeNumberArray \subseteq Nat \ {0, 1}
  /\ \E p \in gPrimeNumberArray : p >= 2 * ItemCount + 2

VARIABLES
  table,      \* mpBucketArray as bucket, mnElementCount as count, mnNextResize
  uniqueKeys  \* bUniqueKeys

tableVars == <<table, uniqueKeys>>

Items == 1..ItemCount

\* In a table of equal keys the items 2k - 1 and 2k have key k.
Key(n) == IF uniqueKeys THEN n ELSE (n + 1) \div 2
SameKey(m, n) == Key(m) = Key(n)

Count(t) == Cardinality(DOMAIN t.bucket)
bucket_index(n, buckets) == Key(n) % buckets
Bucket(t, n) == t.bucket[bucket_index(n, Count(t))]

\* All items in the order of iteration.
Walk(t) == FlattenSeq([i \in 1..Count(t) |-> t.bucket[i - 1]])

-----------------------------------------------------------------------------
(* prime_rehash_policy                                                       *)

\* A prime no smaller than n.
AtLeast(n) == Min({p \in gPrimeNumberArray : p >= n})

\* The bucket that all empty tables share.
gpEmptyBucketArray == [i \in {0} |-> <<>>]

\* Mutant of reset_lose_memory: mnNextResize stays.
ForgetOnlyBuckets(t) == [bucket |-> gpEmptyBucketArray, count |-> 0, mnNextResize |-> t.mnNextResize]

\* The table without memory.
reset_lose_memory(t) == [bucket |-> gpEmptyBucketArray, count |-> 0, mnNextResize |-> 0]

\* The items of the walk, each put in front of what its bucket holds by then.
Distributed(walk, buckets) ==
  LET moved[k \in 0..Len(walk)] ==
        IF k = 0 THEN [i \in 0..(buckets - 1) |-> <<>>]
        ELSE [moved[k - 1] EXCEPT ![bucket_index(walk[k], buckets)] = <<walk[k]>> \o @]
  IN  moved[Len(walk)]

\* Mutant of DoRehash: the last bucket is left out.
RehashLastBucketOut(t, buckets) ==
  [t EXCEPT !.bucket = Distributed(Walk([t EXCEPT !.bucket[Count(t) - 1] = <<>>]), buckets)]

\* Every item to its new bucket, in the order of iteration.
DoRehash(t, buckets) == [t EXCEPT !.bucket = Distributed(Walk(t), buckets)]

\* GetRehashRequired for more items, and the DoRehash that its callers make.
RehashIfRequired(t, more) ==
  LET items == t.count + more
      buckets == IF Count(t) = 1 THEN 0 ELSE Count(t)
      prime == AtLeast(Max({items, 2 * buckets}))
  IN  CASE items <= t.mnNextResize -> t
        [] items > t.mnNextResize /\ items > buckets ->
             DoRehash([t EXCEPT !.mnNextResize = prime], prime)
        [] OTHER -> [t EXCEPT !.mnNextResize = buckets]

-----------------------------------------------------------------------------
(* Operations                                                                *)

\* DoFindNode: where the first item with n's key is in its bucket, or 0.
DoFindNode(t, n) ==
  LET found == {i \in DOMAIN Bucket(t, n) : SameKey(Bucket(t, n)[i], n)}
  IN  IF found = {} THEN 0 ELSE Min(found)

PutAt(t, n, i) ==
  [t EXCEPT !.bucket[bucket_index(n, Count(t))] = InsertAt(@, i, n), !.count = @ + 1]

\* Unique keys: if there is none yet.  Or else behind the first item of the key,
\* so that equal items stay together.
DoInsertValue(t, n) ==
  LET grown == RehashIfRequired(t, 1)
  IN  IF uniqueKeys
      THEN IF DoFindNode(t, n) # 0 THEN t ELSE PutAt(grown, n, 1)
      ELSE PutAt(grown, n, DoFindNode(grown, n) + 1)

\* insert(first, last): room for all of them at once.
InsertRange(t, m, n) == DoInsertValue(DoInsertValue(RehashIfRequired(t, 2), m), n)

\* The list of a bucket without its cells from i to j - 1.
Cut(b, i, j) == SubSeq(b, 1, i - 1) \o SubSeq(b, j, Len(b))

EraseNode(t, n) ==
  LET b == Bucket(t, n)
      i == CHOOSE i \in DOMAIN b : b[i] = n
  IN  [t EXCEPT !.bucket[bucket_index(n, Count(t))] = Cut(b, i, i + 1), !.count = @ - 1]

\* Where the run of items with n's key ends that begins at the first of them.
RunEnd(t, n) ==
  LET b == Bucket(t, n)
  IN  Min({j \in DoFindNode(t, n)..Len(b) : ~SameKey(b[j], n)} \cup {Len(b) + 1})

RunOf(t, n) ==
  IF DoFindNode(t, n) = 0 THEN <<>> ELSE SubSeq(Bucket(t, n), DoFindNode(t, n), RunEnd(t, n) - 1)

equal_range(t, n) == RunOf(t, n)
count(t, n) == Cardinality({i \in DOMAIN Bucket(t, n) : SameKey(Bucket(t, n)[i], n)})

EraseKey(t, n) ==
  LET i == DoFindNode(t, n)
      j == RunEnd(t, n)
  IN  IF i = 0 THEN t
      ELSE [t EXCEPT !.bucket[bucket_index(n, Count(t))] = Cut(@, i, j), !.count = @ - (j - i)]

ClearTable(t) == [t EXCEPT !.bucket = [i \in DOMAIN @ |-> <<>>], !.count = 0]

\* GetBucketCount, and the rehash to whatever it says, smaller or not.
Reserve(t, n) == DoRehash([t EXCEPT !.mnNextResize = AtLeast(n)], AtLeast(n))

\* A policy, new or another table's: what GetBucketCount notes goes to the argument,
\* not to the copy, which keeps the limit it came with.
SetPolicy(t, limit) ==
  LET s == [t EXCEPT !.mnNextResize = limit]
  IN  IF AtLeast(s.count) > Count(s) THEN DoRehash(s, AtLeast(s.count)) ELSE s

\* The copy of a table, which takes its place.
CopyTable(t) == IF t.count # 0 THEN t ELSE reset_lose_memory(t)

Members == Range(Walk(table))
Fresh == IF uniqueKeys THEN Items ELSE Items \ Members

\* mnNextResize of a policy that is set: a fresh one's, or what a reserve noted in
\* that of another table.
Limits == {0} \cup {AtLeast(n) : n \in 0..ItemCount}

TableInit ==
  /\ table = [bucket |-> gpEmptyBucketArray, count |-> 0, mnNextResize |-> 0]
  /\ uniqueKeys \in BOOLEAN

Becomes(t) == table' = t /\ UNCHANGED uniqueKeys

TableNext ==
  \/ \E n \in Fresh : Becomes(DoInsertValue(table, n))
  \/ \E m, n \in Fresh : m # n /\ Becomes(InsertRange(table, m, n))
  \/ \E n \in Members : Becomes(EraseNode(table, n))
  \/ \E n \in Items : Becomes(EraseKey(table, n))
  \/ Becomes(ClearTable(table))
  \/ Becomes(reset_lose_memory(ClearTable(table)))
  \/ \E n \in 0..ItemCount : Becomes(Reserve(table, n))
  \/ \E buckets \in {2, 3} : Becomes(DoRehash(table, buckets))
  \/ \E limit \in Limits : Becomes(SetPolicy(table, limit))
  \/ Becomes(CopyTable(table))

TableSpec == TableInit /\ [][TableNext]_tableVars

-----------------------------------------------------------------------------
(* Properties                                                                *)

\* t holds these items and no other, each once.
HasExactly(t, items) == Range(Walk(t)) = items /\ Len(Walk(t)) = Cardinality(items)

\* Whatever the calls before: no item is in the bucket that all empty tables
\* share (each insertion must have found mnNextResize small enough to rehash
\* first), and mnElementCount counts the items.
SharedBucketEmpty ==
  /\ Count(table) = 1 => Walk(table) = <<>>
  /\ table.count = Len(Walk(table))

\* For every key, count, find and equal_range tell of exactly the items a walk
\* through the table meets: an item is in the bucket of its hash, and equal
\* items stay together through every rehash, which is all that equal_range and
\* erase(key) look at.
SearchesSeeAll ==
  \A n \in Items :
    LET all == {m \in Members : SameKey(m, n)}
    IN  /\ count(table, n) = Cardinality(all)
        /\ ToSet(equal_range(table, n)) = all
        /\ DoFindNode(table, n) # 0 <=> all # {}

\* Both, in every state a table gets to.
TableSound == SharedBucketEmpty /\ SearchesSeeAll

\* What is asked of a call is what becomes of the items, in whatever state it finds
\* the table: the insertions add the items of their keys, the erasures take out that
\* item or all of that key and no other, and reserve, rehash, rehash_policy and the
\* copy lose none, repeat none and bring none back.
CallsChangeAsAsked ==
  /\ \A n \in Fresh : HasExactly(DoInsertValue(table, n), Members \cup {n})
  /\ \A m, n \in Fresh : m # n => HasExactly(InsertRange(table, m, n), Members \cup {m, n})
  /\ \A n \in Members : HasExactly(EraseNode(table, n), Members \ {n})
  /\ \A n \in Items : HasExactly(EraseKey(table, n), {m \in Members : ~SameKey(m, n)})
  /\ HasExactly(ClearTable(table), {})
  /\ \A n \in 0..ItemCount : HasExactly(Reserve(table, n), Members)
  /\ \A buckets \in {2, 3} : HasExactly(DoRehash(table, buckets), Members)
  /\ \A limit \in Limits : HasExactly(SetPolicy(table, limit), Members)
  /\ HasExactly(CopyTable(table), Members)
=============================================================================
