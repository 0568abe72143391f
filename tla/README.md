# Verification of the mingw-w64-dpp runtime

mingw-w64-dpp builds Windows kernel drivers in C and C++ with MinGW. What it adds to the
toolchain is a small runtime in `CRT/`: a C and C++ run time (`kcrt.c`, `kcrt.cpp`), wrappers
around kernel objects (`DriverThread.cpp/.hpp`) and glue for EASTL (`eastl_compat.*`), the
vendored container library the drivers use. This directory holds TLA+ models of that runtime
and of the parts of EASTL it rests on, the TLC runs that check them on small instances, and
TLAPS proofs of what matters most for every instance.

Paths are relative to the root of the repository.

## 1. Inventory

### Components, their state and operations

| Component | State | Operations | Module |
|---|---|---|---|
| `Mutex`, `LockGuard` (`DriverThread.cpp` 249-279) | `m_interlock`; in each guard a *copy* of the mutex | guard constructor (copy, `Lock`), destructor (`Unlock`) | its effect, in `Thread` and `WorkQueue` |
| `Thread` (66-179) | `m_threadId`, `m_threadObject`, `m_routine`, `m_threadContext`; kernel: thread object, references, handle | `Start`, `WaitForTermination(timeout)`, `WaitForTerminationIndefinitely`, destructor, `InterceptorThreadRoutine` in the new thread | `Thread`, `ThreadSpec` |
| `WorkQueue`, `WorkItem` (281-398) | `m_queue`, `m_wakeEvent`, `m_stopWorker`, `m_worker`, `m_workerRoutine`; in the worker `doQueue` | `Enqueue` (item, deque), `Start`, `Stop`, destructor, the worker loop | `WorkQueue`, `WorkQueueSpec` |
| `Event` (221-247) | a notification event | `Notify`, `Reset`, `Wait`, `WaitIndefinitely` | in `WorkQueue` |
| `DpcTimer`, `ExTimer` (400-483) | the kernel timer, `m_Callback` | `Start`, `StopAndWait`, destructor; the kernel's expirations | `Timers` |
| `Spinlock` (181-201) | a kernel spin lock, `m_oldIrql` | `Acquire`, `Release`, `GetOldIrql` | `Spinlock` |
| driver entry and unload (`kcrt.c` 223-292) | `atexit_list`, `DriverObject->DriverUnload`, the statics themselves | `_CRT_DriverEntry`, `__ctors`, `atexit`, `_CRT_DriverUnload`, `__dtors` | `DriverLifecycle` |
| heap (`kcrt.c` 41-156, `kcrt.cpp`, `ucrt.cpp`) | blocks with a header in the kernel pool | `malloc`, `calloc`, `realloc`, `free`, `new`, `delete` | `KcrtHeap` |
| strings (`eastl_compat.*`) | none | `to_string_hex`, `format` | `Strings` |
| EASTL `shared_ptr`, `weak_ptr` | value, `ref_count_sp` with two counts | creation, copy, `lock`, release, `enable_shared_from_this` | `SharedPtr` |
| EASTL `deque` | array of pointers, subarrays, begin and end | insertion and removal everywhere, `resize`, `assign`, `shrink_to_fit`, `clear` | `Deque` |
| EASTL `set`, `map` and their multi kinds (`rbtree`) | anchor, nodes, colours, size | insertion (with hint), erasure of a node, a key, a range; searches, iteration | `RedBlackTree`, `SortedItems` |
| EASTL `unordered_*` (`hashtable`) | bucket array, count, `mnNextResize` | insertion, erasure, searches, rehash, reserve, policy, copy | `Hashtable` |
| run-time resolved functions (`gen_wrapper.sh`, `ntdll_zw_functions.*`) | one function pointer each | resolution at entry, wrappers | result in `DriverLifecycle` |
| `Semaphore`, `PerformanceCounter`, `ScopeGuard` | a kernel semaphore; readings; a flag | | not modelled |
| nanoprintf, skCrypter, `ceilf`, the rest of EASTL, examples, makefiles, scripts | | | not modelled |

### How they interact

* `Thread` and `WorkQueue` take their mutex by `LockGuard` and in no other way.
* `WorkQueue` owns a `Thread` (`m_worker`) that runs `WorkerInterceptorRoutine`, and an
  `Event` by which clients wake it. Clients and worker share `m_queue` (an `eastl::deque`),
  `m_stopWorker` and `m_workerRoutine`. The arguments of a `Thread` are an `eastl::shared_ptr`,
  which may own the `Thread` itself.
* The kernel calls into an object from threads of its own: `InterceptorThreadRoutine`,
  `DpcTimerInterceptor`, `ExTimerInterceptor`. The object must outlive these calls, and its
  destructor is what has to see to that.
* `_CRT_DriverEntry` constructs the driver's statics (a global `WorkQueue`, `Thread` or timer
  among them, see `examples/dpp-example-cplusplus.cpp`), resolves the Zw functions and calls
  `DriverEntry`; `_CRT_DriverUnload` calls `DriverUnload` and then the destructors that
  `atexit` collected in nodes from `malloc`.
* Every container, shared value and `atexit` node lives in blocks of the heap.

### What is hard

* **No mutual exclusion.** `LockGuard` declares its member as `Mutex m_Lock`, by value. It
  copies the mutex and locks the copy. Every section that looks guarded is open to every other
  thread, so all models of the classes that use it interleave single accesses.
* **Storage that is not cleared.** `Mutex()` assigns nothing. In storage that held 1 a guard
  spins for ever; statics and blocks of `malloc` (which clears them) are safe, stack objects
  are not.
* **Lifetimes** across threads: waits that give a reference up before they wait, interceptors
  that write to the object after the routine has returned, a destructor that does not wait,
  arguments that own the thread they are passed to, two counts that change in two steps.
* **Wake-ups**: a worker that clears an event and then sleeps on it without a timeout.
* **Partial failure**: no thread, no reference, no memory for `atexit` or `realloc`, a missing
  function.
* **Order** of construction and destruction, and of expirations and cancellations.
* **Structures reached by long sequences of calls**: the tree's colours and cached ends, the
  deque's two-level storage, the hash table's shared empty bucket and its next resize.
* **Arithmetic at the edge**: sizes that wrap with their header, shifts beyond a type, ranges
  of reverse iterators.

`PROJECT.json` lists the hazards at their lines, with the properties that would notice them.
Further ones that no property covers, all without a text in the repository that says what
should happen: `ExTimer::Start` returns false for the timers it arms (`DriverThread.cpp` 465);
the arithmetic of `PerformanceCounter` overflows after days (52); requests above a page come
from the paged pool whatever the caller's interrupt level (`kcrt.c` 105); `operator new`
returns NULL and nothing in EASTL tests for it (`kcrt.cpp` 14); the move constructor of
`ScopeGuard` leaves `active` uninitialised (`eastl_compat.hpp` 183); an insertion of no values
in the middle of a deque move-assigns elements onto themselves (`deque.h` 2514).

### What makes each component correct

| Component | Properties |
|---|---|
| Spinlock | `Release` goes back to the caller's own level, kept in a member all threads share (`IrqlRestored`) |
| Thread | references and handles balance, routines get their own arguments, no thread waits for itself, the destructor outlives the thread, waits return, one thread at a time, arguments that own their thread are freed; it implements `ThreadSpec` |
| WorkQueue | no lost wake-up, every item once and in order, it stops only when drained, the worker takes what it is sent, the routine is callable, `Stop` returns, no worker outlives the queue; it implements `WorkQueueSpec` |
| Timers | nothing calls into a stopped or destroyed object, no live `ExTimer` is forgotten, periodic timers go on, `StopAndWait` returns |
| Entry and unload | the driver's code sees all statics alive, destruction mirrors construction, the unload ends |
| Heap | a block has room for what was asked and keeps what was written through every chain of `realloc`, failed ones too; every block can be given back |
| shared_ptr | an owner finds the value alive, the counts outlive every handle, both are freed exactly once |
| rbtree | balanced, linked, iterable both ways and searchable; a call erases exactly what it is asked to, and inserts where it should, whatever the hint; it implements `SortedItems` |
| deque | the storage is that of the elements and no other, every call does to the elements what it promises, arguments that alias elements included |
| hashtable | the bucket all empty tables share stays empty, searches see what iteration sees, every call adds and removes exactly what it was asked to, and no rehash loses an item |
| conversions | hexadecimal digits read as the number, formats are filled in order |

## 2. Modules

| Module | What it is |
|---|---|
| `Spinlock`, `Timers` | one component each, composed by `MCSync` |
| `ThreadSpec` | abstract: what a `Thread` promises its owner |
| `Thread` | the `Thread` class over the kernel's thread objects, refines `ThreadSpec` |
| `WorkQueueSpec` | abstract: accepted items are executed once, in order |
| `WorkQueue` | the `WorkQueue` class, refines `WorkQueueSpec` |
| `DriverLifecycle` | entry, constructors, `atexit`, unload |
| `SortedItems` | abstract: a sequence sorted by key |
| `SharedPtr`, `KcrtHeap`, `RedBlackTree`, `Deque`, `Hashtable`, `Strings` | the library, one component each, composed by `MCLibrary` |
| `MC...` | model values and sets for TLC |
| `...Proofs` | the theorems |

`LibraryProofs` is about `SharedPtr`, `KcrtHeap` and `Strings`, `ContainerProofs` about `Deque` and
`Hashtable`, `TreeProofs` with `TreeShapeProofs` before it about `RedBlackTree`: the very modules
that `MCLibrary` extends with the values of its configuration. `MCSync` and `MCLibrary` choose a `subject` at the start and let that component alone take
steps: several independent state spaces in one run, not their product.

Each module defines, next to an action, the mutated forms of it (`... Mutant of ...`) that
`PROJECT.json` pairs with the properties: every property is violated by a plausible bug.

### State and actions against the code

**Spinlock.** `KeAcquireSpinLock` is a macro that assigns the result of the call to
`m_oldIrql`: `Raise` and `Take` are in the kernel, `Store` is the assignment in the shared
object, which only the holder makes. `Release` reads the member (`ReadOldIrql`) before the
kernel releases (`Unlock`) and goes back (`Lower`).

**Thread.** One action per access to a member, named after the operation: `StartCheck`,
`StartAssign`, `StartCreate[Fails]`, `StartReference[Fails]`, `StartClose`; `WaitSelf`,
`WaitNull`, `WaitTake`, `WaitClear`, `WaitObject`, `WaitDeref` for both waits and the
destructor; `SetId`, `CallRoutine`, `RoutineReturns`, `ClearId`, `ClearContext`, `Terminate` for
the interceptor. The program is built without optimisation, so that the test and the copy of
`m_threadObject` are two loads. The kernel keeps a thread object while its thread runs, a
reference or a handle exists; `Reclaim` frees it and its identity. A `Start` that finds
`m_threadObject` set returns without an effect and is no step. `Environments` is a set of
option sets, one of which a behaviour picks at its start: polls, self waits, failing launches
and references, and the example's arguments that own their `Thread` (`args_own`): who gives
up the last `shared_ptr` to them, the client or the thread in `ClearContext`, runs `~Thread`.

**WorkQueue.** `pc` says where each client is, `wpc` where the worker is. Operations on the
EASTL deque or on the routine last as long as their actor is at the label; two actors at
conflicting labels race (`QueueRace`, `RoutineRace`), and the race either ends well, each
operation taking effect whole, or corrupts the object (`corrupt`), after which nothing is
said. Reads and writes of the flag and the event are atomic. `m_worker` is true while the
member's `m_threadObject` is not null: `StartThread` launches a worker if it is, `StopJoin` and
`DestroyWorker` are the part of `WaitForTerminationIndefinitely` that takes it away, and
`StopWait` and `DestroyWait` the wait that follows only if there was something to take (a
failing reference, which leaves a thread that nobody can join, is in `Thread` only). A routine may enqueue to and stop its own
queue (`WorkerEnqueue`, `WorkerInsert`, `WorkerStop`, the last of which `Thread` keeps from
waiting for itself). What clients and kernel may do besides is again the behaviour's member
of `Environments`; with all of it the code loses items and calls destroyed routines, with
what the example does it does not.

**Timers.** `kind` is chosen at the start. A `DpcTimer` arms the kernel timer it contains
(`DpcSet`), an `ExTimer` allocates one in each `Start` (`ExAllocate[Fails]`, `ExSet`);
`m_Callback`, which `Start` assigns before it touches the timer, names the `Start` whose
routine it holds. `StopAndWait` is `DpcCancel`, `DpcFlush` or `ExCancel`, `ExDelete`. The
kernel's `Expire`, `Interceptor` and `InterceptorReturns` interleave with all of them, on
`CPUs` processors. The client starts a timer that is stopped, or that has fired for the last
time; `Start` of a live `DpcTimer` re-initialises a DPC that may be queued, which the kernel
does not define.

**DriverLifecycle.** Statics are numbered by their place in `__CTOR_LIST__`; those of functions
come after them. `faults` is chosen at the start from `Faults`, so that one run covers each
combination and a property can name those it needs absent. `FreeNode` is the end of a turn of
the loop in `__dtors`, which reads `p->next` from the node just freed: it finds what was
there, or (fault "reuse") the zeros of another `malloc`, or other data.

**KcrtHeap.** Memory is counted in cells and numbers have `Word` values, so that
`size + sizeof(MALLOC_HEADER)` and `nmemb * size` wrap. The pool hands out what the last user
left there. `held` is the program's side: what it may count on in each block. `Malloc`,
`FreeBlock`, `Carry` are what the functions do to the pool; `ReallocFails` is the path without
memory. `BadTag` is the bug check on a foreign header, which `EveryBlockReturnable` says no
legal sequence of calls meets. A size that wraps with the header gets a block smaller than
the header `malloc` then writes: `Overrun`, after which nothing is said of the pool. A product
of `calloc` that wraps is a block with its header and fewer cells than were asked for.

**SharedPtr.** Each atomic change of a count is a step. A handle's state says what its thread
is doing with it: `Test` and `Exchange` are the loop of `ref_count_sp::lock` (with
`Increment` where the exchange succeeds), `AddWeak` the second half of `addref`, `Release`,
`FreeValue`, `WeakRelease`, `FreeRefCount` the way out. With `SharesSelf` the value holds a
`weak_ptr` to itself, which its destructor releases in the middle of `release`.

**RedBlackTree.** A tree is a record of children, parents, the red nodes and `mnSize`, the
anchor a node of it. `RBTreeInsert` and `RBTreeErase` are translated with the side as a
parameter, where the source writes both mirror images out; the three ways to a position
(unique, not unique, hint) are operators. The range erasures, reverse iterators included, go
one item at a time, as in the code. The loops are recursive functions: `Recolor`, `Deepen` and
`EraseFirst` are one round each, which changes nothing once the loop has ended, and `Repeated`
goes round as often as there are nodes, which the proofs show to be enough. A range is named
by the places of its two iterators in the walk; the reverse range is not an action, for what
it does is what `rbtree_reverse_erase` refutes. `TreeSound` looks at the tree and, in
`ChangesAsAsked`, at what every call would make of it, because `SortedItems` lets any run of
items go and says nothing of items of equal keys: an item is inserted behind all those of its
key, or right behind the hint if it may follow that; with any other hint, `end()` included, it
goes where it would without one.

**Deque.** A place is (index of the pointer) * `SubarraySize` + (index in the subarray), so an
iterator is a number; the cells of a deque are a function on the places of allocated
subarrays, and hold a value, `Raw` memory or a `Moved` object. `DoReallocPtrArray` shifts all
places, `DoReallocSubarray` and `FreeSubarrays` change the domain; a subarray that is freed twice
ruins all the others (`Ruined`), as a block freed twice may.

**Hashtable.** Buckets are sequences; `RehashIfRequired` is `GetRehashRequired` with the
`DoRehash` its callers make, with a load factor of 1. An item is its own hash. A policy that is
set copies the argument *before* `GetBucketCount` changes it, as the code does; it may come with
the limit another table has reached (`Limits`).

**Strings.** `to_string_hex` reads the digits of a word by shifts, of which those beyond the
width of the type are undefined and modelled as both things the machine does (zero, or the
count modulo the width). `format` replaces placeholders from the left in what is left of the
format, never in what an argument brought in.

## 3. Runs

| Run | Instance | Question |
|---|---|---|
| `thread` | 1 client, 2 identities, 21 environments | Are arguments, references, handles and lifetimes right in each environment; do waits return, are ownership cycles broken; does the class implement `ThreadSpec`? |
| `thread_self_wait` | timeouts and self waits | violated: a thread gets past the check and waits for itself |
| `wq_sequential` | 4 items, batches up to 2, 3 starts, a client that enqueues between runs of the worker | Is every item processed once, in order, over several workers, failing launches and routines; is the example's life of a queue safe? |
| `wq_concurrent` | owner and producer, 3 items, 2 starts, everything allowed | What survives the missing mutex: wake-ups, order, items taken, `Stop` coming back, the worker's end before the queue's |
| `wq_stop_race` | 1 client, 2 items, no failure | violated: the worker stops over an item |
| `wq_data_race` | the same | violated: a client inserts while the worker copies |
| `sync` | timers: both classes, 3 starts, timeouts -166666 (the example's), -10000, -9999, 2 processors; spin lock: 3 threads, any level | Is a stopped timer quiet and a periodic one persistent; do levels come back to their owners? |
| `library` | heap: 2 addresses, 8 numbers, header of 4; 4 handles; trees of 8 items; deques of 5 elements in subarrays of 2; tables of 5 items; words of 16 bits, formats of 4 characters | Do the heap, shared pointers, containers and conversions do what they promise after every sequence of calls? |
| `rbtree_reverse_erase` | trees of 4 items | violated: a reverse range erases its neighbour |
| `hex_fill` | widths up to 8 for 4 digits | violated: the number is shifted out of sight |
| `lifecycle` | 3 statics and 2 local ones, one trivial, every set of faults | Is the driver's code surrounded by construction and destruction in the right order? |
| `lifecycle_rejected` | the same, entry refused | violated: statics are left behind |

**Bounds.** Two thread identities are a thread and its successor; the interesting interference
is between two generations, and an identity is handed out again once its thread is gone. A
worker can only tell whether its queue is empty, has one item or more: two items in a batch
and one in flight make each case, three starts a worker after one after one. Three starts of
a timer are two changes of the kernel timer. Three list entries have a first, a middle and a
last one. Four handles are an owner, a weak handle and one being made from each; the value may
hold a weak handle of its own besides. Trees of eight items reach every case of both rebalancings (a black
height of three), with sets and multisets. A deque of five elements in subarrays of two with
an array of three pointers or more passes subarrays, recentres its pointers and reallocates
them at both ends. Five items pass the resize limits of 2, 3, 5 and 11 buckets. All bounds
are constants, and only the proofs do without their values.

**Fairness.** The kernel schedules every thread that can run: a call that was made goes on
(weak fairness of each actor's steps), routines and callbacks return (strong fairness of
`RoutineReturns`, as a routine may make calls of its own again and again before it does, each
of which leaves that step disabled for a while), an armed timer expires. Nothing makes a
client call anything, a service stop, or a race end badly; only a call of a routine that is
gone does.

**Deadlock** is checked in every run but two: in `library` (and `hex_fill`) a value that was freed
and a function that returned have nothing left to do. A finished object may stutter (`Done`).

## 4. What the runs found

* `thread_self_wait`: `m_threadId` names whichever thread of the object wrote it last. After a
  `WaitForTermination` that timed out and a second `Start`, the check at line 138 compares with
  the first thread, and the second one waits for itself, for ever. The example says the call
  "must return STATUS_UNSUCCESSFUL" (`examples/dpp-example-cplusplus.cpp` 131).
* `wq_stop_race`: the worker reads the size of the queue, then the stop flag. An `Enqueue` and a
  `Stop` in between end it over an item, against the comment at `m_stopWorker`
  (`CRT/DriverThread.hpp` 179).
* `wq_data_race`: `LockGuard` locks a copy, so that `m_queue` is modified and read at once, which
  EASTL forbids (`EASTL/doc/Design.md` 56).
* `lifecycle_rejected`: when a Zw function is missing or `DriverEntry` fails, no destructor of
  the statics constructed before ever runs (`README.md` 108 promises they work).
* `rbtree_reverse_erase`: `erase(reverse_iterator, reverse_iterator)` of the trees steps both
  iterators on before it takes their bases (`red_black_tree.h` 1798) and erases a run that is
  one item further than the one named; `vector` and `deque` take the bases as they are.
* `hex_fill`: `to_string_hex` with a fill width above the digits of its type shifts by more
  bits than there are and never reaches the lowest digits (`eastl_compat.cpp` 135); the example
  shows `to_string_hex(0xdeadbeef, 16)` as 00000000DEADBEEF.

Seen while modelling, and part of the models or of the list of hazards: a thread whose
reference failed runs on unowned (lines 123-127); after a poll that timed out nobody waits for
the thread any more, the destructor included; when the client drops arguments that own their
thread without having joined it, the thread waits for itself in its own destructor, after
`m_threadId` was cleared; `m_stopWorker` is never reset; a failing routine makes the
destructor skip its wait; a spent `ExTimer` that is started again leaks its timer; `__dtors`
reads freed memory; sizes near the largest number get blocks that are too small, for their
own header even.

## 5. Proofs

All proofs are for arbitrary constants that satisfy the modules' named assumptions
(`ThreadAssumption`, `WorkQueueAssumption`, `TimersAssumption`, `HandlesAssumption`,
`LifecycleAssumption`, `HeapAssumption`, `RedBlackTreeAssumption`, `SizesAsInstantiated`, `PrimesSuffice`, `StringsAssumption`), which only
say that the sets are disjoint or finite, the bounds and sizes are numbers (those of a deque as
its two templates instantiate them), the primes reach as far as the tables do, a number has no digits
beyond those of its type, and the options known. Each theorem rests on an inductive
invariant that is stronger than the property; the modules name its parts.

**Thread** (`ThreadProofs`). `TypeCorrect` and `HandlesAreClosed` hold for any number of clients
and threads with every option. The others (`ReferencesBalance`, `OneThread`, `DestroyedJoined`,
`ArgumentsArrive`, `TurnedAway` and the refinement `SoleOwnerSeesThreadSpec`) are about
`SoleOwner`: one client, which launches any number of threads one after the other, alone or
with arguments that own the `Thread`, with every failure and timeout. They need that
restriction, for two actors that wait at once race between `WaitTake` and `WaitClear`, and a
client that drops its arguments early leaves a thread that waits for itself. `OwnerInv` says
where the one reference is at each label of the owner (`SoleInv`, `RefsInv`), that every live
thread is the owned one or was given up (`LiveInv`), that the arguments in the object are those
of the thread that is about to read them, and `m_threadId` names it (`ArgsInv`), and that a
thread gets into a wait only to be turned away, or in the destructor when the client has gone
and left nothing to wait for (`DropInv`).

**WorkQueue** (`WorkQueueProofs`). For any number of clients and every option, races included:

* `NoWakeupIsLost`, from `WakeupInv`: an item or a stop flag that the worker has already looked
  past is one that somebody has signaled, or is about to.
* `NeverOvertaken`, from `FlowInv` and `OrderInv`. `Flow` shows that every step of the queue
  does one of four things to the items: nothing, accept some at the end, hand the first to the
  routine, or, where an insertion races with the worker's copy and clear, lose some at the
  end. Each of them keeps what was processed and what is pending a subsequence of what was
  submitted.
* `WorkerGoneWithQueue`, from `StrayInv`: `m_worker`, or a call that took the thread object from
  it, holds on to the worker until it has ended. So it has when `~Thread` is done, before the
  event and the queue are destroyed, even when `Stop` found `m_stopWorker` set and did not wait.
* `RoutineStaysCallable`, from `CallableInv`, in the environments its property names.

For a single client that enqueues only while no worker runs (`SingleClient`), over any number
of starts and stops and with failing and reentering routines, `ExactlyOnce`, `StopsDrained` and
the refinement `QueueIsAnExecutor` follow, the latter from `Flow` once `ExactlyOnceInv` has
ruled the lossy step out.

**Timers** (`SyncProofs`): `TimersTypeCorrect`, `NothingAfterStop` and `NoTimerIsForgotten`, from
`StopInv`, which relates the label of the client to what the kernel may still have queued or
running for each timer.

**SharedPtr** (`LibraryProofs`): `OwnedValuesLive`, `CountsAreThere`, `EverythingFreedOnce`. The
invariant says that each count is the cardinality of the set of actors that have added to it
and not yet taken back, the handles' half-made copies and the value's own weak handle among
them; `LastOwner` and `LastHolder` then give what a count of one means.

**DriverLifecycle** (`DriverLifecycleProofs`): `StaticsAlive` for every list of constructors and
`DestructorsMirrorConstructors` for every set of faults. `MirrorInv` is about the sequence of
what is destroyed and what the walk has still before it (`Doomed`): it lies in the opposite
order in the sequence of constructions, and a registration during the walk does not touch it.

**KcrtHeap** (`LibraryProofs`): `BlocksKeepTheirContents` and `BlocksReturnable` for every size
of word and header. `HeapInv` says that each block held has its tag, is as large as its header
says plus the header, and holds what its owner may count on; `NoWrap` is the one place where
arithmetic modulo the word enters.

**Deque** (`ContainerProofs`): `StorageStaysExact` and `EveryCallDoesAsPromised`, for every size of
subarray, every minimal array and every bound on the elements. `Layout` says where the parts of a
deque are: begin and end within the array, a subarray for every pointer between them and for no
other, an element in every place between begin and end and raw memory in the others. `Effect`
says what a call makes of the sequence of elements. Each helper of the code (`DoReallocPtrArray`,
`DoReallocSubarray`, the moves that open or close a gap) has a lemma of what it does to both;
the calls are put together from these lemmas. That the moves are done one element after the
other is a recursive function of the number of moves, which the proofs unfold by induction.

**Hashtable** (`ContainerProofs`): `EveryTableIsSound` and `CallsDoAsAsked`, for every number of
items, every list of primes and both kinds of keys. A list is `Tidy` when it has no item twice
and equal items next to each other, buckets are `Placed` when each is tidy and holds only items
of its hash, a table is `Formed` when its buckets are placed, the count is that of their items,
and the one bucket of empty tables is empty with `mnNextResize` 0. The last part is what makes the
next insertion find memory (`GrownSound`), though `rehash_policy` and `reserve` set `mnNextResize`
without regard to it, and a policy may bring any limit along. `CallsDoAsAsked` compares the items
before and after each call with what it was given (`CallsChangeAsAsked`). A rehash is two lemmas: a walk through placed buckets is tidy
(`FlattenWalks`), and a tidy list dealt out item by item to any number of buckets gives placed
ones with the same items (`DistributedPlaced`), in each of which the order is turned around.
That a run of equal items stays together (`InsertedTidy`, `CutTidy`, `PickedTidy`) is what the
searches need, which look no further than the first run (`RangeLists`).

**Strings** (`LibraryProofs`): `ConversionsAreExact`, for every width of the type, every bound on
the formats, every alphabet and every set of texts. For `to_string_hex`: four halvings divide by
sixteen, so the number that the first digits show is the argument shifted by the digits that are
still to come (`DigitsShowNumber`). For `format`: after each argument, what is out is what the
pieces of the format up to some place say, and what is left is the format behind that place, with
as many placeholders passed as arguments used, or with none left (`Through`, kept by
`ArgumentFillsIn`). That an argument is never looked at again is in the shape of this
invariant: what is left is a part of the format.

**RedBlackTree** (`TreeShapeProofs`, `TreeProofs`): `TreeIsRedBlack`, `TreeIsSound` and the
refinement `TreeImplementsSortedItems`, for every number of nodes, with unique keys and without.
`TreeInv`, the inductive invariant, says that there is a set of nodes the tree holds soundly, in
the order of their keys. That a tree is one, with every item in its place, would be a statement
about paths; it is made one about numbers instead, which SMT can reason with:

* Each node has a place `q[x]` in the order and two ends `e["left"][x]`, `e["right"][x]`, the places of
  the first and last item below it. `Placed` says of each node that its place is between its
  ends, that the child on a side has exactly the places between the node's own and its end
  there (and that there is none where no place is left), and that its parent has it as a
  child. No loop, no shared child and no lost subtree satisfies this.
* Each node has a black height `b[x]` that exceeds that of either child by its own blackness
  (`Heights`); while `RBTreeErase` repairs the tree one side of one node may lack a black node. No
  red node has a red child, but for the pair that `RBTreeInsert` is looking at (`NoRedRed`).
* Nodes outside the tree are black and without links, which is how `DoFreeNode` leaves them and
  why an insertion may take any of them (`Clean`); the anchor keeps the ends (`Ends`).

A rotation keeps all places and changes two ends (`RotationTurns`), so it cannot disturb the
order, and what it does to the heights is arithmetic (`RotationLevels`, `RotationColours`). A round of
the loop that repairs an insertion looks at a node with more below it than the last (`Size`), so
the loop ends; one that repairs an erasure goes up as well. An erasure of a node with two
children is a change of names, the successor for the node (`Renamed`), and then the removal of a
node with one child or none, after which the places behind it move up by one. Walks, climbs
and searches are recursive functions, which the proofs unfold along intervals of places: the
next node is the one with the next place (`IncrementIs`), and a search for a key ends between the
places before which items are less and after which they are not. A hint is used only where
the item fits between the two places at it (`HintedIs`), whatever the hint was. The same lemmas
say at which place an item joins (`JoinsAt`) and which places an erasure empties (`Loses`), from
which `ChangesAre` follows.

These proofs use induction over the natural numbers in its first-order form (the library's
`WFMin` for a set of numbers, proved as `SetInduction` and `MinIsLeast`), which needs no operator
as a parameter: the set is the one of the numbers for which the claim holds.

**Spinlock** (`SyncProofs`): `LockTypeCorrect` and `HolderKeepsItsLevel`, because one thread at a
time is between `Take` and `Unlock` and no other writes `m_oldIrql` there.

**Only model-checked**: liveness (`WaitsReturn`, `CycleBroken`, `EventuallyProcessed`,
`ItemsFetched`, `StopReturns`, `PeriodicGoesOn`, `StopEnds`, `UnloadEnds`), for which the prover has no
support; and what
`Thread` does when its arguments are dropped before its thread has ended (`drop_early`).

## 6. Plan

The modules were written in the order of the hazards: the wrappers of `DriverThread`, the entry
and unload, then the library under them. What would come next:

1. `Thread` with several clients that wait at once, under a mutex that works: what repairing
   `LockGuard` would buy, as a second specification next to the present one.
2. `Semaphore` and `Event` with timeouts in one module of waits.
3. More of EASTL: `vector` (growth and aliasing, as in `Deque`), `list` and `ring_buffer`, the heap
   algorithms behind `priority_queue`.
4. The iterators a program holds while it changes a container: which of them an insertion, an
   erasure or a rehash leaves valid, for each container, against the promises in their headers.

## 7. What is not modelled

* `Semaphore` is two calls of the kernel on one object. `PerformanceCounter` is straight-line
  arithmetic on numbers larger than TLC's. `ScopeGuard` is a flag and a call, `to_string` a call
  of nanoprintf.
* `except.h` is assembler directives whose meaning is the unwinder's. `gen_wrapper.sh` is text
  processing; its result matters as the status `ntdll_zw_functions` returns.
  `__cxa_pure_virtual` prints for ever, and the remaining functions of `kcrt.c` are one
  instruction or one call each.
* nanoprintf, skCrypter and musl's `ceilf` are vendored and appear only as their users see
  them.
* **EASTL** is by far the largest part of the repository (some 110,000 of its lines with its
  tests and benchmarks), and this project models the parts of it that a driver's state rests
  on: `shared_ptr`, `deque`, `hashtable`, `rbtree`. What is left is for the most part template
  plumbing (type traits, iterators, tuples, allocators), variants of what is modelled (fixed,
  intrusive, with other allocators), stateless algorithms and tests; so the share of the
  repository's lines that the map covers stays small, although it covers nearly all of the
  runtime in `CRT/` that keeps a state.
* Allocators, exceptions (the build has none) and alignment within EASTL.
* Makefiles, signing and update scripts run tools and keep no state.
