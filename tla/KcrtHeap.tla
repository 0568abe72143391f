------------------------------ MODULE KcrtHeap ------------------------------
(* The heap of the C run time (kcrt.c, kcrt.cpp): malloc, calloc, realloc    *)
(* and free put a header in front of a block of the kernel's pool.           *)
(*                                                                           *)
(* Memory is counted in cells of one pointer; a number is a size_t of Word   *)
(* values, so sums and products wrap.  The pool hands out memory with what   *)
(* its last user left in it; paged and non-paged pool are not told apart.    *)
(* A call works on blocks that only its caller knows, so calls of several    *)
(* threads commute but for the address the pool picks: each is one action.   *)
EXTENDS Naturals, Functions

CONSTANTS
  Addrs,       \* where the pool can place a block
  Word,        \* 2^w, the number of values of a size_t
  HeaderSize,  \* sizeof(MALLOC_HEADER), less than Word
  Sizes,       \* the sizes and counts callers ask for, each a size_t
  Values       \* what a cell holds, 0 among them

ASSUME HeapAssumption ==
  /\ Word \in Nat /\ HeaderSize \in Nat /\ HeaderSize < Word
  /\ Sizes \subseteq 0..(Word - 1)
  /\ 0 \in Values

VARIABLES
  pool,      \* the pool's memory, by address
  bugcheck,  \* KeBugCheckEx(BAD_POOL_HEADER) was called
  overrun,   \* malloc wrote a header past the end of its block
  held       \* what the program knows of the blocks it holds, by address

heapVars == <<pool, bugcheck, overrun, held>>

Tag == "KCRT_POOL_DEFAULT_TAG"

\* The cells of the largest block whose size does not wrap.
Cells == 0..(Word - HeaderSize - 1)
Below(n) == {i \in Cells : i < n}

HeapInit ==
  /\ \E v \in Values :
       pool = [a \in Addrs |-> [used |-> FALSE, length |-> 0, Tags |-> "garbage",
                                Size |-> 0, cell |-> [i \in Cells |-> v]]]
  /\ bugcheck = FALSE
  /\ overrun = FALSE
  /\ held = [a \in {} |-> 0]

-----------------------------------------------------------------------------
(* What the functions make of the pool p.                                    *)

BlockSize(size) == (size + HeaderSize) % Word
HeaderFits(size) == HeaderSize <= BlockSize(size)

\* Mutant of Malloc: the block as its last user left it.
MallocDirty(p, a, size) ==
  [p EXCEPT ![a] = [used |-> TRUE, length |-> BlockSize(size), Tags |-> Tag,
                    Size |-> size, cell |-> @.cell]]

\* RtlZeroMemory reaches as far as the block, header included.
Malloc(p, a, size) ==
  [p EXCEPT ![a] =
     [used |-> TRUE, length |-> BlockSize(size), Tags |-> Tag, Size |-> size,
      cell |-> [i \in Cells |-> IF HeaderSize + i < BlockSize(size) THEN 0 ELSE @.cell[i]]]]

FreeBlock(p, a) == [p EXCEPT ![a].used = FALSE]

\* memcpy(new_ptr, ptr, old_size)
Carry(p, from, to) ==
  [p EXCEPT ![to].cell = [i \in Cells |-> IF i < p[from].Size THEN p[from].cell[i] ELSE @[i]]]

\* The pool may have memory at a, whatever the size.  Whether it has any is
\* its choice: a call it refuses returns NULL and changes nothing.
Available(a) == ~pool[a].used

\* The block that malloc gets for a size that wraps is smaller than the header
\* it writes.  Nothing is said of the pool after that.
Overrun(size) ==
  /\ ~HeaderFits(size)
  /\ overrun' = TRUE
  /\ UNCHANGED <<pool, bugcheck, held>>

-----------------------------------------------------------------------------
(* The program.  It asks for `size` cells, for calloc a product of any size, *)
(* and remembers what the block must hold: the zeroes of calloc, its own     *)
(* writes, what realloc carries along.                                       *)

\* The function f, but v at x.
With(f, x, v) == [y \in DOMAIN f \cup {x} |-> IF y = x THEN v ELSE f[y]]

Holding(h, a, size, knows) == With(h, a, [size |-> size, knows |-> knows])
Without(a) == Restrict(held, DOMAIN held \ {a})

\* malloc and operator new, and realloc(NULL, size).
CallMalloc(a, size) ==
  /\ Available(a)
  /\ \/ Overrun(size)
     \/ /\ HeaderFits(size)
        /\ pool' = Malloc(pool, a, size)
        /\ held' = Holding(held, a, size, [i \in {} |-> 0])
        /\ UNCHANGED <<bugcheck, overrun>>

CallCalloc(a, nmemb, size) ==
  LET bytes == (nmemb * size) % Word
  IN  /\ Available(a)
      /\ \/ Overrun(bytes)
         \/ /\ HeaderFits(bytes)
            /\ pool' = Malloc(pool, a, bytes)
            /\ held' = Holding(held, a, nmemb * size, [i \in Below(nmemb * size) |-> 0])
            /\ UNCHANGED <<bugcheck, overrun>>

\* A wrong tag stops the machine before anything is freed.
BadTag(a) ==
  /\ pool[a].Tags # Tag
  /\ bugcheck' = TRUE
  /\ UNCHANGED <<pool, overrun, held>>

\* free and operator delete, and realloc(ptr, 0).
CallFree(a) ==
  /\ a \in DOMAIN held
  /\ \/ BadTag(a)
     \/ /\ pool[a].Tags = Tag
        /\ pool' = FreeBlock(pool, a)
        /\ held' = Without(a)
        /\ UNCHANGED <<bugcheck, overrun>>

\* The product was not reduced on its way to malloc.
Fits(a) == held[a].size + HeaderSize < Word

\* What the program knows of a's block once it has `size` cells.
KnownBelow(a, size) == Restrict(held[a].knows, DOMAIN held[a].knows \cap Below(size))

\* realloc to no more than the block has: the same block, its Size kept.
Realloc(a, size) ==
  /\ size <= pool[a].Size
  /\ held' = Holding(held, a, size, KnownBelow(a, size))
  /\ UNCHANGED <<pool, bugcheck, overrun>>

\* realloc to more: a new block, the old cells copied, the old block freed.
ReallocMoves(a, b, size) ==
  /\ size > pool[a].Size /\ Available(b)
  /\ \/ Overrun(size)
     \/ /\ HeaderFits(size)
        /\ pool' = FreeBlock(Carry(Malloc(pool, b, size), a, b), a)
        /\ held' = Holding(Without(a), b, size, KnownBelow(a, size))
        /\ UNCHANGED <<bugcheck, overrun>>

\* Mutant of ReallocFails: the old block freed whether or not there is a new one.
ReallocFailsFreeing(a, size) ==
  /\ size > pool[a].Size
  /\ pool' = FreeBlock(pool, a)
  /\ UNCHANGED <<bugcheck, overrun, held>>

\* With no memory for the new block realloc returns NULL and keeps the old.
ReallocFails(a, size) ==
  /\ size > pool[a].Size
  /\ UNCHANGED heapVars

CallRealloc(a, size) ==
  /\ a \in DOMAIN held /\ Fits(a) /\ size > 0
  /\ \/ BadTag(a)
     \/ /\ pool[a].Tags = Tag
        /\ \/ Realloc(a, size)
           \/ \E b \in Addrs : ReallocMoves(a, b, size)
           \/ ReallocFails(a, size)

\* The program writes a cell of its block.
Write(a, i, v) ==
  /\ a \in DOMAIN held /\ Fits(a) /\ i < held[a].size
  /\ pool' = [pool EXCEPT ![a].cell[i] = v]
  /\ held' = [held EXCEPT ![a].knows = With(@, i, v)]
  /\ UNCHANGED <<bugcheck, overrun>>

HeapNext ==
  /\ ~bugcheck /\ ~overrun
  /\ \E a \in Addrs :
       \/ \E size \in Sizes : CallMalloc(a, size) \/ CallRealloc(a, size)
       \/ \E nmemb, size \in Sizes : CallCalloc(a, nmemb, size)
       \/ CallFree(a)
       \/ \E i \in Cells, v \in Values : Write(a, i, v)

HeapSpec == HeapInit /\ [][HeapNext]_heapVars

-----------------------------------------------------------------------------
(* Whatever memory the pool hands out again, a block has the cells its owner *)
(* asked for (realloc trusts the Size of the header, which shrinking leaves   *)
(* alone) and holds what the owner may count on: calloc's zeroes and every    *)
(* cell it wrote, through any chain of reallocs, the failed ones included.    *)
(* A product of calloc that wraps is left out: those blocks are too small.    *)
ContentsKept ==
  \A a \in DOMAIN held : Fits(a) =>
    /\ pool[a].length >= HeaderSize + held[a].size
    /\ \A i \in DOMAIN held[a].knows : pool[a].cell[i] = held[a].knows[i]

(* The pool's blocks in use are those the program holds, so realloc loses    *)
(* neither the old block nor a new one, and each of them can be freed: no    *)
(* sequence of calls meets a header without its tag, up to the first that    *)
(* asks for a size that wraps with its header.                               *)
EveryBlockReturnable ==
  ~bugcheck /\ \A a \in Addrs : pool[a].used <=> a \in DOMAIN held
=============================================================================
