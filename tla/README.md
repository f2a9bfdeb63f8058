# mem_profile in TLA+

A model of the mem_profile runtime (`mp/`), checked with TLC and, where it
matters most, proved with TLAPS. Paths below are relative to the repository;
`rt/` stands for `mp/runtime/include/mem_profile/`.

## The system

A program is linked with the runtime (or has it preloaded) and its destructors
are instrumented by a Clang plugin. While it runs, every allocation and free is
recorded with its call stack; at exit the records become one JSON report.

| Part | State | Operations | What makes it correct |
|---|---|---|---|
| Hooks (`rt/mem_profile.cpp`) | `TRACING_ENABLED`, `EVENT_COUNTER`, `LOCAL_CONTEXT` of each thread | `malloc`, `calloc`, `realloc`, `memalign`, `free`, `operator new`, `operator delete`, and in each `RECORD_ALLOC` or `RECORD_ALLOC_WITH_OBJECT_INFO` | one event for each call of the program, none for the profiler's own; the order of ids lets a reader find the size of every freed block |
| Contexts (`rt/counters.h`, `rt/mem_profile.cpp`) | `nest_level`, `total_allocs_`, `events_` of each `local_context`; `context_lock` and `counters` of the `global_context` | `new_local_context`, `record_alloc`, `record_alloc_with_events`, `inc_nested`, `drain`, `generate_report`, `~global_context` | nothing lost or doubled when the contexts are drained; the guard always comes down; the exit does not deadlock |
| Report builder (`rt/output_record.cpp`, `.h`) | the tables of `output_record`, `string_table` | `make_output_record` and the constructors it calls, `compute_free_sizes` | the tables decode to what was recorded |
| String stores (`rt/containers.h`) | blocks of characters, ids | `sv_store::add`, `save` of the two id stores | views stay valid and apart, ids lead back to their strings |
| Hash tables (`mp/3rd/ankerl`) | the values, the buckets, `m_shifts`, `m_max_bucket_capacity`, `m_max_load_factor` | insertions, erasures, searches, `rehash`, `reserve`, `replace`, `extract`, copies and moves | a table is a map, whatever its layout and whichever allocation fails |
| Unwinder (`mp/unwind`, `mp/hook_prelude`) | the stack, `_mp_event_counter` | `save_state`, `mp_unwind`, `mp_extract_events`, `mp_unwind_show_trace` | objects under destruction are found, and nothing that is not whole |
| Allocators (`rt/allocator.h`, `rt/alloc.h`, `rt/dlsym.h`, `rt/mem_profile.cpp`) | the hook table, `new_handler` | `operator new`, `calloc`, `mp::allocator`, `get_malloc` and the like | a block is what was asked for; every call ends |
| Plugin (`mp/ast`, `src/plugin`) | the AST, the set of destructors | `HandleTranslationUnit`, `maybe_perform_rewrite`, `rewrite_dtor`, `invoke_hook` | each destructor saves its object once and first; the type data describe the class |
| Helpers | none | environment, `dlsym`, errors, files, formatting, AST printer | |

The parts meet as follows. The plugin's `save_state` calls leave blocks on the
stack, which the hooks of `free` find through the unwinder. Hooks append events
to their thread's context and share `EVENT_COUNTER`, `TRACING_ENABLED` and,
the first time on a thread, `context_lock`. The destructor of `GLOBAL_CONTEXT`
drains all contexts under the lock and hands the events to the report builder,
which uses the string stores and, for every lookup from an address or a string
to an index, the hash tables. The profiler's own containers bypass the hooks
(`mp::allocator`), but libunwind, fmt and the report builder do not: they call
the hooks again from inside.

Hard to test here: threads that exit late or never, a first hook call during
the drain, an address reused between a release and a stamp, exceptions that
leave a hook half way, remains of earlier calls on the stack, a long sequence of
insertions and erasures that leaves one bucket out of order. PROJECT.json lists
each hazard at its line with the properties that watch it.

## Modules

| Module | Models | Builds on |
|---|---|---|
| `Events` | `event_record`; the size a reader recovers for a FREE | |
| `EventLog` | the abstract specification: one chronological log, any block may be forgotten, the log still gives sizes | `Events` |
| `Runtime` | hooks, contexts, exit | `EventLog` (`LogSpec` is what it implements) |
| `ComputeFreeSizes` | `compute_free_sizes`, one row a step | `Events` |
| `Sorting` | `std::sort` by a key that differs from element to element | |
| `StringTable` | `string_table` as operators on a record | |
| `OutputRecord` | `make_output_record` over the events that a log of `EventLog` leaves | `EventLog`, `ComputeFreeSizes`, `StringTable`, `Sorting` |
| `SvStore`, `IdStores` | `sv_store`; `ord_id_store` and `unique_id_store` over it | |
| `DenseTable` | the table of `unordered_dense.h`: each operation as an operator on a record | |
| `FlatMap` | the abstract specification of a table: a map, and what each call returns | |
| `HashTable` | a table and every call of it, with failing allocations | `DenseTable`, `FlatMap` (`MapSpec` is what it implements) |
| `StringTableSpec` | the abstract specification of `string_table`: one index for each string | `StringTable` |
| `StringTableImpl` | `string_table` in detail: two hash tables, a store, views | `SvStore`, `DenseTable`, `StringTableSpec` (which it implements) |
| `StackScan` | `save_state`, `mp_unwind`, `mp_extract_events`, `mp_unwind_show_trace` over a stack of words | `Sorting` |
| `Allocators` | `operator new`, `calloc`, `mp::allocator`, the hook table, over the C library | |
| `DtorRewrite` | the plugin on one translation unit, with the parser and the code generator around it | |
| `EventLogProofs`, `RuntimeProofs`, `OutputRecordProofs`, `AllocatorsProofs`, `StackScanProofs`, `DtorRewriteProofs` | theorems | the module each is named for |
| `ContainersProofs` | theorems about the id stores, the hash tables and `string_table` | `IdStores`, `HashTable`, `StringTableImpl` |
| `SequenceLemmas` | lemmas about sorting, concatenation and induction over numbers | `Sorting` |
| `MCRuntime`, `MCOutputRecord`, `MCContainers`, `MCAllocators`, `MCDtorRewrite` | values for TLC | |

A definition that starts with a comment "Mutant of" is a wrong version of the
one that follows it. Nothing uses it; PROJECT.json names the property that fails
when it is put in the place of the right one.

### Runtime

`pc[t]` is where thread t is in a hook call and `req[t]` the call's arguments
and result. The steps are those between which other threads can interfere:

    malloc, realloc:  underlying call and record   (Malloc, Realloc...)
    check:            tracing_enabled()            (CheckTracing)
    context:          LOCAL_CONTEXT, nest_level    (EnterGuard)
    register:         under context_lock           (NewContextLocks, NewContextPublishes)
    unwind:           mp_unwind                    (Unwind, UnwindThrows)
    stamp:            EVENT_COUNTER++              (Stamp)
    push:             record_alloc, guard ends     (Push, PushThrows)
    finish:           return; free releases here   (Finish)

`log` is the sequence of all stamped events in the order of their ids: the
position of an event is its id plus one. A context stores positions, so that
what is lost between the stamp and the report can be told. `heap` is what the
underlying allocator has handed out, `owned` what the program may free, and
`scratch` what the profiler has allocated through the hooks from under its own
guard. `Exit` to `Destroy` follow `generate_report` and `~global_context`;
`phase` says how far they are. `tracing` is a relaxed atomic that only Main
writes, once: a late read of the old value is a `CheckTracing` before `Exit`.

`born` and `held` of a FREE event, `calls` and `dropped` are history: no guard
reads them. They say which block the event really released and how many calls
there really were, and the properties compare the program's own data with them.

Where the code leaves C++ (a thread that outlives `GLOBAL_CONTEXT` uses a freed
context, or pushes into a vector that is being drained), the model either goes
on as if nothing had happened, or the process crashes (`UndefinedCrash`), or a
garbage `nest_level` is read (`UndefinedNest`). What is not modelled of it:
corruption of unrelated memory.

`malloc` stands for `calloc`, `memalign` and all forms of `operator new`: they
make the same steps. The size `calloc` records can only wrap where the call
fails. A failing throwing `operator new` records nothing; its loop over
`new_handler` is in `Allocators`. An exception in a
hook either leaves it (`UnwindThrows`, `PushThrows`) or ends the process where
the function is noexcept (`ThrowTerminates`). A thread that finds no memory for its
context, or for its place in `counters` (`push_back` throws out of the initialiser of
a `thread_local`), ends the process too (`NewContextFails`).

### OutputRecord

The program logs events (`Record`); the contexts are appended in any order
(`MakeOutputRecord`); then each loop of the builder is one action a row, with
`at` as its index. What cpptrace and dladdr answer for each program counter is
an element of `Resolutions`, chosen in `Init`: known with an inlined frame, no
name, not known to dladdr, no address, frames that do not match the program
counters, where `run_sanity_check_on_frames` throws and the report fails, and a
program counter without an object frame, where the assertion after it does. The
properties decode the report the way a reader does and compare with the log.
Columns that are copied in the same loop in the same way as one that is modelled
(line, column, file, addresses, sizes of members) are left out.

### SvStore and IdStores

A block is a capacity and the characters used; a view is a block, a first
character and a size. The priority queue is modelled by what it promises: some
block with the most space is at its top. Strings are sequences of small numbers;
`NullSv` is a view whose `data()` is null, which differs from an empty one.

### DenseTable, HashTable and FlatMap

A table is the record of its members; a value's key leads through `Hash`, which
is a constant, to a home bucket and a fingerprint. The code's loops over buckets
are a choice of the least distance at which they end. `DenseTable` gives for each
call the set of tables it may leave and whether it threw: a call that appends,
copies, reserves or makes a new index may find no memory, at each of these points,
and a table whose index is at its largest throws. `HashTable` makes the calls actions.
Its guards are the ones the code takes for granted: after a failure, or after
`extract() &&`, the index is gone and the program may only clear, refill, reserve,
copy or assign the table (`Usable`). `ret` is what the call returned; `FlatMap` says
what that must be and what becomes of the entries, and knows of no bucket.
A failing call may leave the entry it was asked for, as `increase_size`
appends the value before it needs memory, but never loses or changes another.
A copy that cannot be constructed leaves nothing. Copy assignment
(`copy_assign`) frees the buckets first: without memory for the values it leaves the
table's own, without memory for the buckets the other's, both without an index;
`FlatMap` says that a copy assignment that throws leaves the map it had or the one it
was given, whole; `ret` names the latter, so that no other table accounts for the step.

The load factor is a fraction rather than a float; for the default and the
sizes of the instance the products round alike. Counts for which no index is
large enough are left out (`Fits`): for more than 0.8 * 2^32 elements
`calc_shifts_for_size` comes down to 0, and `calc_num_buckets` shifts a `size_t` by
its width, which is undefined; `reserve` and `rehash` reach it only with that many.
Two tables with unequal allocators and containers other than `std::vector` are not
modelled: the runtime has neither. Moving a table is a step for the table that is
left behind; the one that arrives has all members of the one before. Moves are
noexcept: where one finds no memory for the moved-from table's index the process
ends, a step that the model leaves out, as nothing comes after it.

### StringTableImpl

`lookup` and `cstr_lookup` are tables of `DenseTable` and the strings are views: of
the store, or of static characters. The refinement reads the views back as
strings and the tables as maps. `StringTable`, which `OutputRecord` uses, is so
justified by the code beneath it. A call that finds no memory throws through
`make_output_record` and ends the report; what it leaves is not modelled.

### StackScan

The stack is a function from addresses to words and frames are marked by their
stack pointers. A call writes any part of its frame and leaves the rest as it
was; a return may leave everything. A word of a block is named by the call of
`save_state` that wrote it and by its place in the block, so that the checksum
is good exactly when all words are of one call (collisions are left out: the
checksum has 64 bits). Type data and `this` are functions of the call.
`spp_count - 1` is a `size_t` (`SizeT`); it does not wrap around, as the hook
itself has a caller and `mp_unwind` counts at least one frame.

`mp_unwind_show_trace` has its own copy of the walk and of the search; it is
modelled apart from `mp_extract_events`, and `TraceAgrees` compares them. It reads
`*info.type_data` before it tests the checksum (`mp_unwind.cpp:243`), and it enters
every frame into arrays of 1024 without looking at their size (198). A call is
therefore a set of outcomes: the whole trace; one cut off before a frame
whose first tag is followed by something other than type data in their place
(`MayFault`); or, with more than `TraceFrames` frames, "overrun", of which nothing
is said. `TraceCompletes` says when only the first is possible. A word that is
the type data of another block is read without harm, and the checksum then rejects it.

### Allocators

A call is a form, a count and the type of the elements, which has a size and an
alignment apart (bytes, for `operator new`); `Function` and `Arguments` say which
C function it reaches and with what: an `mp::allocator` of a type that needs more than
the default alignment goes to `memalign`. `pc`
goes from `entry` (the hook table is read) through `load` (dlsym) to `call`, and
from there to `return`, or for a throwing form to `failed` and `handle` and back
to `entry`. `get_new_handler` and the handler's call are two steps, as another
thread may change the handler between them. The C library is its blocks: it
fails when there is no room, `calloc` also when its product wraps around, and
`memalign` without glibc when the alignment is not a power of two. The handler
keeps to the C++ standard's contract: it gives back memory, throws, or, when it
has nothing left, uninstalls itself. dlsym is taken not to allocate. Where it finds
no function, `std::exit` runs the static destructors, and with them the report, while
the other threads go on (`ExitOnMissing`, then `DestructorsRun`); what happens in
the report is in `Runtime`.

### DtorRewrite

A class is one element of `ClassKinds`, which lists how a destructor can be
declared: implicit or defaulted, used or not, inline, a function-try-block, out
of line, trivial, deleted, in a template. `Parse` stands for the parser, which
hands definitions that are not inline to the code generator at once; the
plugin's `HandleTranslationUnit` comes after that, and `Emit` after the plugin.
So a non-inline destructor is rewritten too late, as README.md:377 says; the
properties are about what is deferred. A body is a sequence of statements, the
payload is the arrays, the type data that name them, and the call, in the order
of `invoke_hook`; `TypeDataDecodes` reads them as a consumer of the struct does.
Printing is left out, and so are guards that no destructor can fail (no parent,
no definition of the class).

## Runs

| Run | Instance | Result |
|---|---|---|
| `RuntimeCore` | 2 threads, 2 addresses, sizes 1 and 2, realloc, 3 recorded calls | `TypeOK`, `FreeSizes`, `LiveIsTrue`, `ContextInOrder`; implements `LogSpec` |
| `RuntimeFaults` | 2 threads, 2 addresses, 1 size, 2 recorded calls, every behaviour of `Behaviours` | `GuardBalance`, `OneEventPerCall`, `ReportComplete`, `OwnersDisjoint` |
| `RuntimeDetached` | Main and 2 detached threads, 1 address, 2 sizes, 3 recorded calls, nested calls, a failing report | `Replayable`, `EveryFreeSized`, `NoRegistrationWhileDraining`; `HookReturns` and `ExitCompletes` under fairness |
| `RuntimeShutdown` | Main and 1 detached thread | `ContextSafe` fails |
| `RuntimeReallocOrder` | 2 threads, 2 addresses, realloc | `Replayable` fails |
| `OutputRecord` | 2 threads, 1 address, 2 sizes, 3 events, 2 program counters, 2 types | all five properties |
| `Containers` | id stores: blocks of 3 characters, strings of 0 to 4, 6 calls; tables: 5 keys, hashes of 3 bits, 2 fingerprints, 2 to 4 buckets; `string_table`: 4 strings, 4 addresses | `ViewsStable`, `IdsDecode`, `OneIdPerString`; `FindsExactly`, `IndexSound`, `RoomLeft`; implements `MapSpec` and `StringTableSpec` |
| `StackScan` | 12 words, frames of 3 and 7, blocks of 3, 4 words searched, 4 frames, 2 objects, a trace of 5 frames, 3 destructor calls | `WholeBlocks`, `Distinct`, `LiveExactly`, `TraceAgrees`, `TraceCompletes` |
| `StackScanStale` | 9 words, frames of 2 and 4 | `OnlyLive` fails |
| `Allocators` | 2 threads, 1 address, `size_t` of 3 bits, 6 bytes, 3 of them with the handler, elements of 2 to 5 bytes, one of more than the default alignment, dlsym with and without memalign | `TypeOK`, `TableSound`, `ThrowingGetsBlock`, `BlockFits`; `CallsEnd` under fairness |
| `AllocatorsAligned` | 1 thread, glibc | `AlignedFits` fails |
| `DtorRewrite` | 2 classes of 12 kinds, 2 layouts, 3 states of the prelude | `DeferredInstrumented`, `OthersUntouched`, `TypeDataDecodes` |

Why the bounds are enough to be worth having. Three recorded calls let a block
be allocated, released and its address taken again, or two threads' events be
interleaved in the drain; two sizes tell a right size from a stale one; two
addresses let realloc move. `MaxEvents` counts calls begun while tracing is on,
so the calls after `Exit` are not limited by it. In `StackScan` frames are just
large enough for a block, or large enough for two, and for one out of reach of the
search; the frame of main's caller, which the trace walks, is too small. A block has
a word for its type data apart from its first and last, so that remains can lose
that word alone. Six frames and three objects fit: more than are walked, than are
recorded, and than the trace's arrays hold, so each limit is met. In `Containers`
strings fill a block exactly, leave a character, and exceed it. The five keys of the tables have their homes in the
last bucket and in the first ones, so that probing wraps around, and two share
their fingerprint; four buckets are the largest index, which fills up to its last
bucket and then overflows. All states of such a table are reached: the run is
not bounded in the number of calls. In `Allocators` the elements make a
product that just fits, and some that wrap around, to zero and to a small size; some
blocks fit only after the handler has given back one byte, some only after all three;
`malloc` and `memalign` both serve containers. Two classes are enough for the plugin, whose
loop carries nothing from one destructor to the next but the AST.

`SYMMETRY` on addresses is used in `RuntimeCore` and `RuntimeFaults`, which
check no liveness; threads are not symmetric, as Main is one of them.
`Containers` is the life of one container, which `Init` chooses: they share nothing,
and interleaving them would add no case. Its `VIEW` leaves out what the last call
returned, on which no step depends. `CHECK_DEADLOCK FALSE` is set there for the id
stores, whose calls end at `MaxSaves`; everywhere else the only state without a further step is one where the process
is over, which stutters explicitly.

### Fairness

`FairSpec` asks for weak fairness of every thread's hook steps and of the exit's
steps: the operating system runs every thread that can run, and no hook step
waits for anything but `context_lock`. Releasing what the profiler itself
allocated is weakly fair and the ends of the unwinding and of the report are
strongly fair, as they may allocate and free any number of times but return.
Nothing is assumed of the program: it may stop calling, and no fairness is
asked of a fault. `context_lock` is asked for by a new thread and by the exit;
each holds it for a bounded number of steps.

`Allocators` asks for weak fairness of each thread inside a call, the exit it may
have begun included, and for nothing of the program. That the loop of `operator new`
ends rests on the handler's contract, not on the scheduler.

## What the code does and its comments do not say

* `RuntimeShutdown`: `tracing_enabled()` makes it "safe to obtain the current
  local context" only for threads that are joined before exit.
* `RuntimeReallocOrder`: realloc's event is stamped after the old block is
  released, so the ids do not order it before the next use of that address.
  The sizes of freed blocks are not affected (`FreeSizes` holds with realloc).
* `AllocatorsAligned`: aligned `operator new` passes the count where `memalign`
  wants the alignment, and gets a block as small as the alignment.
* The first string saved in an `ord_id_store` gets the id 1 (`Init` has the entry of
  null), not the 0 of the example at `rt/containers.h:214`.
* In `unique_id_store` the empty string may get the id of null, and later another:
  `prev` begins as a null view, which equals it. `OneIdPerString` excepts it; the
  store is not used by the runtime.
* `StackScanStale`: the block of a destructor that has returned is recorded
  again if a later frame covers it unchanged.
* `mp_unwind_show_trace`, a debugging aid, may crash on such remains when their type
  data have been written over, and on more than 1024 frames.

## Proofs

Assumed are only the named assumptions on the constants: Null is no address,
sizes are natural numbers, Main is one of the threads, and the like. Threads,
addresses and events are not bounded, and need not be finite; only the report
builder, which lists the contexts, assumes finitely many threads.

* `EventLogProofs`. `LogInv` strengthens `FreeSizes` with the fact that a live
  block's ALLOC is the last event logged at its address (`LiveIsLast`) and that
  each FREE still finds its ALLOC so (`FreesMatch`). `FreeSizes` alone is not
  inductive: it says nothing of the blocks that will be freed next.
* `RuntimeProofs`. `IInv` adds to the types: whose the blocks are
  (`OwnersDisjoint`), that the log's live blocks are the heap's (`LiveIsTrue`),
  that an ALLOC is stamped before the block reaches the program and a FREE
  before it leaves (so that no other thread can log an event at that address in
  between), and that the guard is up exactly while recording. `Invariant` is
  the induction; `RuntimeOwners`, `RuntimeLive`, `RuntimeGuards`,
  `RuntimeFreeSizes` and `RuntimeTypes` follow from it.
  `RuntimeRefinesLog` shows that `Stamp` is a step of `EventLog`, that what
  realloc and unrecorded frees do is `Forget`, and that all else stutters.
  `RuntimeDrainLocked` has an invariant of its own on the holder of the lock.
  `ReplayInv` and `KnownInv` add what tracing gives as long as it is on: an
  address that is not live has been freed in the log, and every block the program
  owns is in it. `RuntimeReplayable` is stated without realloc, where it is
  false (`RuntimeReallocOrder`). `RuntimeEveryFreeSized` is stated for programs whose
  blocks all came through a recording hook (`AllocationsHooked`): nothing is
  allocated behind the hooks, and no exception leaves the program a block that
  the profiler allocated under its own guard. Otherwise there is no size to find.

  Three invariants follow an event from `Stamp` to the
  report. `OrderInv`: a context holds events of its own thread in the order of
  their ids, all before the one the thread is about to store. `CallsInv`: a call
  is counted one step after its event is stored; `GuardBalance` is what excludes
  the way out for nested calls, so no call goes unrecorded. `RegisteredInv`: a
  thread that has stamped anything is in `counters`, and once. For threads that
  are joined, `PlaceInv` says where each stamped event is: in its context, about
  to be stored, dropped, or, once the loop has taken the context, in the report,
  at one position; the totals count the same sets. `PhaseInv` gives what the
  loop of `generate_report` relies on: no call is between `context` and `push`
  once exit has begun, and `next` passes the last context before the report is
  written. Both hold until the process is terminated.
* `OutputRecordProofs`. One invariant for each stage of `make_output_record`.
  `SourceInv`: the drained events are the logged ones, each once. `TablesInv`: the
  string table is consistent, the indices in both caches are places of it, and it
  only grows, so an index that was handed out keeps its meaning (`MeansStays`);
  the key columns list each program counter and each type data once, in order.
  `EventsInv`: the rows written so far are the log's, position for position;
  as the ids are the positions, the sort undoes the drain. In the last loop it
  hands over to `SizesInv`, whose `FreesSized` is the loop invariant of
  `compute_free_sizes`. With `LogInv` of the event log this gives `ReportSizes`:
  sizes are right from the hooks to the report. `BoundsInv` says how far each
  loop has come, `TypesInv` what the offsets and rows of the type table hold for
  the types it has passed, `RowsInv` the same for the references of the events,
  and `FramesInv` for the frame table.

  `RecordStacks` has a hypothesis, `OwnFrameLast`: cpptrace puts the inlined frames
  of a program counter first and its own frame last. The code relies on it
  (`pc_i` moves on at each frame that is not inlined); without it the offsets are
  wrong. It is asked for only of the program counters of the report, and not that
  they have frames: from the order of the frames and the count that
  `run_sanity_check_on_frames` compares it follows that none is without
  (`NoneWithoutFrames`).

* `SequenceLemmas`. Where `SortedBy` puts the elements of a set, and where
  `FlattenSeq` puts those of the sequences it joins (`IsJoined`: ends that add
  up). Induction is taken over a set of numbers (`NatSetInduction`), which needs
  no operator parameter; the recursive function behind `FlattenSeq` is
  shown to exist that way, and so are those of `InsertAll` and `InsertAllCstr`.

* `AllocatorsProofs`. `ThreadInv` adds to the properties that the block a call
  has got is the one the C library served for its arguments, and that no other
  thread's call names it, so that it is still there when the call returns.
  `ProductFits` is the arithmetic: a count of at most `max_size` has a product
  within `size_t`, for elements of any size. Only alignments are assumed to be
  powers of two, as C++ has it. That powers of two are positive is part of the
  assumption on `Bits`, as the provers do not know exponentiation; TLC evaluates it.
  `AllocatorsTypes` needs the ranges of the blocks' sizes besides (`Ranges`),
  and that dlsym only ever finds functions of the C library.

* `ContainersProofs`, id stores. `IInv` has six parts: the blocks (`StoreInv`), the keys, the
  results, the string saved last, the map of `unique_id_store` and the runs of
  equal strings of `ord_id_store`. All rests on one lemma, `AddedFacts`: adding a
  string only appends to a block or starts a new one, so a view inside a block
  keeps reading what it read, and the new view begins where all others have
  ended. The strings are assumed to be sequences of natural numbers (bytes), so
  that none is mistaken for the null view; nothing is assumed of block sizes.
  That views share no character (`IdStoresDisjoint`) is why they are stable; it is
  proved and has no run, as `ViewsStable` fails in the run where it would.
* `ContainersProofs`, hash tables. `TableInv` is inductive for every call of the
  table, with each way it can fail: the keys are distinct, and the index is
  `Indexed`, or there is none, or `extract() &&` has left it stale. `Indexed` is what
  a search needs, and more than `IndexSound` says: no two values have one key
  (`KeysApart`), a bucket is as far from the home of its value as it says
  (`AtDistance`), each value has one bucket (`OneEach`), and no bucket is ahead of
  a poorer one (`NoneAhead`). The last is a condition on neighbours in a ring,
  which alone would also hold of buckets that all point round the ring; it
  is inductive together with "some bucket is empty or at home". From it follow
  the position at which a search stops (`TableFindsExactly`), that shifting up
  ends at an empty bucket (`TableRoomLeft`), and that erasing by shifting
  back leaves each other value a bucket at its new distance. `erase_range`,
  `erase_if`, `insert_range`, `replace` and the refill of the index are loops: their
  recursive functions are shown to exist and to keep the invariant turn by turn.
  Assumed are what the code's types give: hashes have `HashBits` bits, the
  initial size is within the index, load factors are positive and at most 1,
  and every key has a hash. That powers of two are positive, double and divide
  each other is part of `DenseTableAssumption`, as the provers do not know
  exponentiation; TLC evaluates it.
* `ContainersProofs`, `FlatMap`. `TableRefinesMap` is the refinement of `FlatMap` by the
  hash tables, for every call and every way it can fail. A table in order is
  the set of its entries (`EntriesOf`), which is the graph of exactly one map
  (`IsMap`). For each call a lemma says what it does to that set: one entry more, the
  entries of the erased places fewer, the first entries of a list up to the
  one that failed, one entry for each key of a given container, or none left.
  That, and where a search stops, decides which step of `FlatMap` it is. The
  loops are followed turn by turn, as for the invariant. A copy assignment that
  throws leaves the entries of one table or the other. That `operator==` says whether
  the maps are equal needs a count: as many entries, each of them in the other (`EqualFacts`).
* `ContainersProofs`, `string_table`. `StringTableRefines` is the refinement of
  `StringTableSpec`. What is needed of the tables is three facts: `AsMap` of a table
  that is in order is the map of its keys to its values, a search finds exactly
  the keys of the map, and an insertion adds its one entry or finds it
  (`InsertionMap`). Of the store: an entry that reads a string reads it for good
  (`Kept`), so what the views show is a sequence that only grows.
* `StackScanProofs`. `ScanInv` says what the stack holds: frames lie one outside
  the other, each word of each block is in one place at most (nothing copies a
  block), and the block of a running destructor is whole and in its frame. The
  properties are about two searches over whatever stack that leaves. The
  place found in a frame is the least one whose checksum is right
  (`LeastElement`); a right checksum is read only where a whole block is, as its
  words are in one place each; and what is recorded of all frames is the frames
  found, in order (`FlattenOptions`), cut off at `MaxObjects`.
* `DtorRewriteProofs`. `OthersUntouched` is inductive once the loop is known to
  hold declared destructors only: whether a declaration has a body is asked of
  the AST as rewritten so far, and the property itself says that this is an
  answer about the source. `RewrittenInv` says of each body that it is the
  source's or has one payload before it; it rests on C++'s rules for
  declarations, which are assumptions on `ClassKinds`: one definition at most, no
  other declaration besides an implicit one, no body for a deleted destructor.
  Without them `GetBody` might take another declaration's body. `EmittedInv` adds
  that the loop has been through every declaration before a deferred body is
  taken. `TypeDataDecodes` follows from the shape of the payload (`PayloadShape`)
  and from names that are distinct.

Only model-checked: liveness (`HookReturns`, `ExitCompletes` and `CallsEnd`), which is
outside the prover's reach. Every other property of a passing run is stated by a
theorem.

## Not modelled

Fork, signals that interrupt a hook, the JSON writer, the hash functions and the
containers of `unordered_dense.h` that the runtime does not use, single AST nodes, the AST printer, and the helpers; see
the notes of the components in PROJECT.json. Totals in bytes are left out: they
are added in the same place as the number of allocations, which is modelled.

## Plan

1. (done) `EventLog`, `Runtime`; `OutputRecord` and the modules it uses; the
   stores; the hash tables and the refinement of `string_table` to them; the
   stack; `Allocators`; `DtorRewrite`.
2. (done) Proofs of `Runtime` up to `ReportComplete` and the size of every freed
   block, of the whole report builder, the allocators, the id stores, the
   index of the hash tables, the refinement of `FlatMap` by the hash tables and of
   `StringTableSpec` by `string_table`, the stack's search and the plugin.
3. A model of fork and of signal handlers that allocate, which the runtime meets
   without handling either.
