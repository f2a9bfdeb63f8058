------------------------------- MODULE Runtime -------------------------------
(***************************************************************************)
(* The allocation hooks of mem_profile.cpp, the per-thread local_context   *)
(* they record into and the report global_context writes at exit.          *)
(*                                                                         *)
(* A hook call of a thread is a sequence of steps (pc), between any two of *)
(* which other threads run:                                                *)
(*   malloc, realloc : underlying allocation, then RECORD_ALLOC            *)
(*   free            : RECORD_ALLOC_WITH_OBJECT_INFO, then underlying free *)
(* and RECORD_ALLOC itself is                                              *)
(*   check  -> context [-> register] -> unwind -> stamp -> push.           *)
(*                                                                         *)
(* malloc stands for malloc, calloc, memalign and every operator new, free *)
(* for free and every operator delete.  The size calloc records, n * size, *)
(* wraps only where the allocation fails, and then no block has it.  An    *)
(* operator new that fails records nothing and either throws or calls the  *)
(* new_handler, program code, and starts again: here no step at all.  A    *)
(* free of the null pointer returns at once: no step either.               *)
(*                                                                         *)
(* The underlying allocator, libunwind and the JSON writer are external.   *)
(***************************************************************************)
EXTENDS EventLog, FiniteSets

CONSTANTS
    Main,       \* the thread that returns from main or calls exit
    Allowed,    \* what, beyond malloc and free, a run exercises
    Detached,   \* TRUE if Main may exit while other threads still run
    MaxEvents   \* bound of the model: calls started while tracing is on

Behaviours == {
    "realloc",      \* the program calls realloc
    "self",         \* the profiler itself calls hooks while it records
    "nomem",        \* the underlying allocator returns null to the program
    "noctx",        \* ... or to a thread that makes its context
    "unwind",       \* mp_unwind throws: libunwind reported an error
    "push",         \* events_.push_back throws bad_alloc
    "dump",         \* dump_json throws: the file cannot be written
    "unhooked"}     \* the program allocates through a function not hooked

NoThread == "none"

ASSUME RuntimeAssumption ==
    /\ Main \in Threads
    /\ NoThread \notin Threads
    /\ Allowed \subseteq Behaviours
    /\ Detached \in BOOLEAN
    /\ MaxEvents \in Nat

VARIABLES
    tracing,    \* TRACING_ENABLED
    lock,       \* holder of GLOBAL_CONTEXT.context_lock, or NoThread
    counters,   \* GLOBAL_CONTEXT.counters, a context named by its thread
    nest,       \* nest_level of each thread's context
    events,     \* events_ of each thread's context: positions in log
    total,      \* total_allocs_.num_allocs of each thread's context
    heap,       \* size of the block at each address, or NoBlock
    owned,      \* addresses the program may free
    scratch,    \* address of a block a hook allocated under its own guard
    pc, req,    \* the hook call each thread is in
    phase,      \* progress of the process through exit
    next,       \* index of the loop over counters in generate_report
    report,     \* events and total of generate_report's own counter
    calls,      \* history: hook calls of each thread completed while tracing
    dropped     \* history: events stamped and then lost to an exception

ctxVars  == <<counters, nest, events, total>>
heapVars == <<heap, owned, scratch>>
exitVars == <<phase, next, report>>
history  == <<calls, dropped>>
vars == <<log, live, tracing, lock, ctxVars, heapVars, pc, req, exitVars,
          history>>

NoBlock == -1

(* A hook call: what it records, and the addresses it holds: the block it  *)
(* hands to the program when it returns, or the block it is about to free. *)
Request(ty, n, p, h, hs) ==
    [type |-> ty, size |-> n, ptr |-> p, hint |-> h, held |-> hs, id |-> NoStamp]
NoRequest == Request("ALLOC", 0, Null, Null, {})

PCs == {"idle", "check", "context", "register", "unwind", "stamp", "push",
        "finish"}

Init ==
    /\ LogInit
    /\ tracing = TRUE
    /\ lock = NoThread
    /\ counters = << >>
    /\ nest = [t \in Threads |-> 0]
    /\ events = [t \in Threads |-> << >>]
    /\ total = [t \in Threads |-> 0]
    /\ heap = [a \in Addr |-> NoBlock]
    /\ owned = {}
    /\ scratch = [t \in Threads |-> {}]
    /\ pc = [t \in Threads |-> "idle"]
    /\ req = [t \in Threads |-> NoRequest]
    /\ phase = "run"
    /\ next = 1
    /\ report = [events |-> << >>, total |-> 0]
    /\ calls = [t \in Threads |-> 0]
    /\ dropped = {}

-----------------------------------------------------------------------------
Over == phase \in {"exited", "terminated"}

(* A thread runs program code.  Main does so before the destructor of      *)
(* GLOBAL_CONTEXT and after it (destructors of older statics); the other   *)
(* threads have been joined by then unless they are detached.              *)
InProgram(t) ==
    /\ pc[t] = "idle"
    /\ IF t = Main THEN phase \in {"run", "done"}
                   ELSE phase = "run" \/ (Detached /\ ~Over)

InCall == {t \in Threads : pc[t] # "idle"}

(* Bound of the model: calls that would be recorded are limited.           *)
MayCall(t) ==
    /\ InProgram(t)
    /\ tracing => Len(log) + Cardinality(InCall) < MaxEvents

Goto(t, where) == pc' = [pc EXCEPT ![t] = where]

(* A running call: the process is alive and t is at the given step.        *)
At(t, where) == pc[t] = where /\ ~Over

Begin(t, r) ==
    /\ req' = [req EXCEPT ![t] = r]
    /\ Goto(t, "check")
    /\ UNCHANGED <<log, tracing, lock, ctxVars, scratch, exitVars, history>>

(* malloc, calloc, memalign, operator new: mperf_malloc comes first.       *)
Malloc(t, n, a) ==
    /\ MayCall(t)
    /\ heap[a] = NoBlock
    /\ heap' = [heap EXCEPT ![a] = n]
    /\ Begin(t, Request("ALLOC", n, a, Null, {a}))
    /\ UNCHANGED <<live, owned>>

(* malloc that returns null: recorded like the others.                     *)
MallocFails(t, n) ==
    /\ "nomem" \in Allowed
    /\ MayCall(t)
    /\ Begin(t, Request("ALLOC", n, Null, Null, {}))
    /\ UNCHANGED <<live, heap, owned>>

(* Mutants of ReallocInPlace: the old size is recorded, nothing is.        *)
ReallocRecordsOldSize(t, h, n) ==
    /\ "realloc" \in Allowed
    /\ MayCall(t)
    /\ h \in owned /\ n > 0
    /\ heap' = [heap EXCEPT ![h] = n]
    /\ owned' = owned \ {h}
    /\ Released({h})
    /\ Begin(t, Request("ALLOC", heap[h], h, h, {h}))

ReallocUnrecorded(t, h, n) ==
    /\ "realloc" \in Allowed
    /\ MayCall(t)
    /\ h \in owned /\ n > 0
    /\ heap' = [heap EXCEPT ![h] = n]
    /\ UNCHANGED <<log, live, tracing, lock, ctxVars, owned, scratch, pc, req,
                   exitVars, history>>

(* realloc(h, n), where h is not null (else it is malloc): the underlying  *)
(* call resizes in place, moves, fails, or, for n = 0, releases h and      *)
(* returns null.  The release is not an event.                             *)
ReallocInPlace(t, h, n) ==
    /\ "realloc" \in Allowed
    /\ MayCall(t)
    /\ h \in owned /\ n > 0
    /\ heap' = [heap EXCEPT ![h] = n]
    /\ owned' = owned \ {h}
    /\ Released({h})
    /\ Begin(t, Request("ALLOC", n, h, h, {h}))

ReallocMoves(t, h, n, a) ==
    /\ "realloc" \in Allowed
    /\ MayCall(t)
    /\ h \in owned /\ n > 0
    /\ heap[a] = NoBlock
    /\ heap' = [heap EXCEPT ![h] = NoBlock, ![a] = n]
    /\ owned' = owned \ {h}
    /\ Released({h})
    /\ Begin(t, Request("ALLOC", n, a, h, {a}))

ReallocFails(t, h, n) ==
    /\ "realloc" \in Allowed
    /\ "nomem" \in Allowed
    /\ MayCall(t)
    /\ h \in owned /\ n > 0
    /\ owned' = owned \ {h}
    /\ Begin(t, Request("ALLOC", n, Null, h, {h}))
    /\ UNCHANGED <<live, heap>>

ReallocToZero(t, h) ==
    /\ "realloc" \in Allowed
    /\ MayCall(t)
    /\ h \in owned
    /\ heap' = [heap EXCEPT ![h] = NoBlock]
    /\ owned' = owned \ {h}
    /\ Released({h})
    /\ Begin(t, Request("ALLOC", 0, Null, h, {}))

(* Mutant of Free: the block is released before the event is recorded.     *)
FreeReleasesFirst(t, p) ==
    /\ MayCall(t)
    /\ p \in owned
    /\ owned' = owned \ {p}
    /\ heap' = [heap EXCEPT ![p] = NoBlock]
    /\ Begin(t, Request("FREE", 0, p, Null, {p}))
    /\ UNCHANGED live

(* free and operator delete: recorded first, released in Finish.           *)
Free(t, p) ==
    /\ MayCall(t)
    /\ p \in owned
    /\ owned' = owned \ {p}
    /\ Begin(t, Request("FREE", 0, p, Null, {p}))
    /\ UNCHANGED <<live, heap>>

(* aligned_alloc, posix_memalign, ...: allocate without passing a hook.    *)
UnhookedAlloc(t, n, a) ==
    /\ "unhooked" \in Allowed
    /\ InProgram(t)
    /\ heap[a] = NoBlock
    /\ heap' = [heap EXCEPT ![a] = n]
    /\ owned' = owned \cup {a}
    /\ UNCHANGED <<log, live, tracing, lock, ctxVars, scratch, pc, req,
                   exitVars, history>>

-----------------------------------------------------------------------------
(* if (tracing_enabled())                                                  *)
CheckTracing(t) ==
    /\ At(t, "check")
    /\ Goto(t, IF tracing THEN "context" ELSE "finish")
    /\ UNCHANGED <<log, live, tracing, lock, ctxVars, heapVars, req, exitVars,
                   history>>

Registered(t) == \E i \in 1..Len(counters) : counters[i] = t

(* The first use of LOCAL_CONTEXT on a thread runs new_local_context: the  *)
(* context is allocated untracked, then published under the lock.          *)
NewContextLocks(t) ==
    /\ At(t, "context")
    /\ ~Registered(t)
    /\ lock = NoThread
    /\ lock' = t
    /\ Goto(t, "register")
    /\ UNCHANGED <<log, live, tracing, ctxVars, heapVars, req, exitVars, history>>

(* Mutants of NewContextPublishes: the call that made the context is not   *)
(* recorded in it; the lock is kept.                                       *)
FirstCallUnrecorded(t) ==
    /\ At(t, "register")
    /\ counters' = Append(counters, t)
    /\ lock' = NoThread
    /\ Goto(t, "finish")
    /\ UNCHANGED <<log, live, tracing, nest, events, total, heapVars, req,
                   exitVars, history>>

ContextLockKept(t) ==
    /\ At(t, "register")
    /\ counters' = Append(counters, t)
    /\ Goto(t, "context")
    /\ UNCHANGED <<log, live, tracing, lock, nest, events, total, heapVars, req,
                   exitVars, history>>

NewContextPublishes(t) ==
    /\ At(t, "register")
    /\ counters' = Append(counters, t)
    /\ lock' = NoThread
    /\ Goto(t, "context")
    /\ UNCHANGED <<log, live, tracing, nest, events, total, heapVars, req,
                   exitVars, history>>

(* local_context::operator new is noexcept: a null result is stored as the *)
(* thread's context and dereferenced by the hook that asked for it.  And   *)
(* bad_alloc of counters.push_back leaves the initialiser of a thread_local*)
(* variable, which ends the program.                                       *)
NewContextFails(t) ==
    /\ "noctx" \in Allowed
    /\ \/ At(t, "context") /\ ~Registered(t)
       \/ At(t, "register")
    /\ phase' = "terminated"
    /\ UNCHANGED <<log, live, tracing, lock, ctxVars, heapVars, pc, req, next,
                   report, history>>

(* if (context.nest_level == 0) { auto guard = context.inc_nested(); ...   *)
EnterGuard(t) ==
    /\ At(t, "context")
    /\ Registered(t)
    /\ IF nest[t] = 0
       THEN nest' = [nest EXCEPT ![t] = 1] /\ Goto(t, "unwind")
       ELSE Goto(t, "finish") /\ UNCHANGED nest
    /\ UNCHANGED <<log, live, tracing, lock, counters, events, total, heapVars,
                   req, exitVars, history>>

(* A hooked call made by the profiler itself while it unwinds a stack or   *)
(* builds the report: the whole hook again, on the same thread.  It is     *)
(* recorded only if tracing is on and its context is not nested.           *)
SelfCalls(t) ==
    /\ "self" \in Allowed
    /\ At(t, "unwind") \/ (t = Main /\ phase = "dump")

(* Mutant of WouldRecord: no guard against nested calls.                   *)
RecordsNested(t) == tracing

WouldRecord(t) == tracing /\ nest[t] = 0

RecordAtOnce(t, e) ==
    IF WouldRecord(t)
    THEN /\ log' = Append(log, e)
         /\ events' = [events EXCEPT ![t] = Append(@, Len(log) + 1)]
    ELSE UNCHANGED <<log, events>>

SelfMalloc(t, n, a) ==
    /\ SelfCalls(t)
    /\ scratch[t] = {}
    /\ heap[a] = NoBlock
    /\ heap' = [heap EXCEPT ![a] = n]
    /\ scratch' = [scratch EXCEPT ![t] = {a}]
    /\ RecordAtOnce(t, AllocEvent(t, n, a, Null))
    /\ UNCHANGED <<live, tracing, lock, counters, nest, total, owned, pc, req,
                   exitVars, history>>

SelfFree(t, a) ==
    /\ SelfCalls(t)
    /\ a \in scratch[t]
    /\ heap' = [heap EXCEPT ![a] = NoBlock]
    /\ scratch' = [scratch EXCEPT ![t] = {}]
    /\ RecordAtOnce(t, FreeEvent(t, a, NoStamp, 0))
    /\ UNCHANGED <<live, tracing, lock, counters, nest, total, owned, pc, req,
                   exitVars, history>>

(* mp_unwind returns; the memory it used is released.                      *)
Unwind(t) ==
    /\ At(t, "unwind")
    /\ scratch[t] = {}
    /\ Goto(t, "stamp")
    /\ UNCHANGED <<log, live, tracing, lock, ctxVars, heapVars, req, exitVars,
                   history>>

(* Mutant of ThrowOut: the guard's destructor does not lower nest_level.   *)
ThrowKeepsGuard(t) ==
    /\ UNCHANGED nest
    /\ req' = [req EXCEPT ![t] = NoRequest]
    /\ owned' = owned \cup scratch[t]
                      \cup (IF req[t].ptr = Null THEN req[t].held ELSE {})
    /\ scratch' = [scratch EXCEPT ![t] = {}]
    /\ Goto(t, "idle")

(* The exception leaves the hook: the guard's destructor runs, the rest of *)
(* the hook does not.  The block of an allocation is lost, a block to free *)
(* is not freed, a block realloc could not resize stays the program's, and *)
(* what the profiler allocated under its guard, the exception, is released *)
(* by the program.                                                         *)
ThrowOut(t) ==
    /\ nest' = [nest EXCEPT ![t] = @ - 1]
    /\ req' = [req EXCEPT ![t] = NoRequest]
    /\ owned' = owned \cup scratch[t]
                      \cup (IF req[t].ptr = Null THEN req[t].held ELSE {})
    /\ scratch' = [scratch EXCEPT ![t] = {}]
    /\ Goto(t, "idle")

UnwindThrows(t) ==
    /\ "unwind" \in Allowed
    /\ At(t, "unwind")
    /\ ThrowOut(t)
    /\ UNCHANGED <<log, live, tracing, lock, counters, events, total, heap,
                   exitVars, history>>

(* EVENT_COUNTER++: the event takes its place in the log.                  *)
Stamp(t) ==
    /\ At(t, "stamp")
    /\ LET r == req[t]
       IN  IF r.type = "FREE"
           THEN /\ log' = Append(log, FreeEvent(t, r.ptr, live[r.ptr], heap[r.ptr]))
                /\ live' = [live EXCEPT ![r.ptr] = NoStamp]
           ELSE /\ log' = Append(log, AllocEvent(t, r.size, r.ptr, r.hint))
                /\ live' = [a \in Addr |-> IF a = r.ptr THEN Len(log) + 1
                                           ELSE live[a]]
    /\ req' = [req EXCEPT ![t].id = Len(log) + 1]
    /\ Goto(t, "push")
    /\ UNCHANGED <<tracing, lock, ctxVars, heapVars, exitVars, history>>

(* Mutant of CountAlloc: the total counts live blocks.                     *)
CountsLiveBlocks(t) ==
    total' = [total EXCEPT ![t] = @ + (IF req[t].type # "FREE" THEN 1 ELSE -1)]

CountAlloc(t) ==
    total' = [total EXCEPT ![t] = @ + (IF req[t].type # "FREE" THEN 1 ELSE 0)]

(* Mutant of Push: one context for all threads.                            *)
PushShared(t) ==
    /\ At(t, "push")
    /\ CountAlloc(t)
    /\ events' = [events EXCEPT ![Main] = Append(@, req[t].id)]
    /\ nest' = [nest EXCEPT ![t] = @ - 1]
    /\ Goto(t, "finish")
    /\ UNCHANGED <<log, live, tracing, lock, counters, heapVars, req, exitVars,
                   history>>

(* alloc_counter::record_alloc and the end of the guard's scope.           *)
Push(t) ==
    /\ At(t, "push")
    /\ CountAlloc(t)
    /\ events' = [events EXCEPT ![t] = Append(@, req[t].id)]
    /\ nest' = [nest EXCEPT ![t] = @ - 1]
    /\ Goto(t, "finish")
    /\ UNCHANGED <<log, live, tracing, lock, counters, heapVars, req, exitVars,
                   history>>

(* The copy of the trace or the growth of events_ throws bad_alloc: the    *)
(* total is already counted, the id is used up and its event is lost.      *)
PushThrows(t) ==
    /\ "push" \in Allowed
    /\ At(t, "push")
    /\ CountAlloc(t)
    /\ ThrowOut(t)
    /\ dropped' = dropped \cup {req[t].id}
    /\ UNCHANGED <<log, live, tracing, lock, counters, events, heap, exitVars,
                   calls>>

(* The exception is thrown in a hook that is noexcept: operator delete, a   *)
(* nothrow operator new, the others where the C library's header says so.  *)
ThrowTerminates(t) ==
    /\ \/ "unwind" \in Allowed /\ At(t, "unwind")
       \/ "push" \in Allowed /\ At(t, "push")
    /\ phase' = "terminated"
    /\ UNCHANGED <<log, live, tracing, lock, ctxVars, heapVars, pc, req, next,
                   report, history>>

(* Undefined behaviour of a detached thread: it stores an event into a     *)
(* vector that generate_report is moving from, or uses a local_context     *)
(* that is freed.  Beside what the other actions do, the process may crash *)
(* or read a nonzero nest_level.                                           *)
RacesWithDrain(t) ==
    At(t, "push") /\ phase \in {"drain", "clear"}
        /\ next =< Len(counters) /\ counters[next] = t

UsesFreedContext(t) ==
    /\ phase = "done"
    /\ pc[t] \in {"context", "register", "unwind", "stamp", "push"}

UndefinedCrash(t) ==
    /\ RacesWithDrain(t) \/ UsesFreedContext(t)
    /\ phase' = "terminated"
    /\ UNCHANGED <<log, live, tracing, lock, ctxVars, heapVars, pc, req, next,
                   report, history>>

UndefinedNest(t) ==
    /\ phase = "done" /\ At(t, "context")
    /\ Goto(t, "finish")
    /\ UNCHANGED <<log, live, tracing, lock, ctxVars, heapVars, req, exitVars,
                   history>>

(* The hook returns: free releases its block, the others hand theirs over. *)
Finish(t) ==
    /\ At(t, "finish")
    /\ LET r == req[t]
       IN  IF r.type = "FREE"
           THEN /\ heap' = [heap EXCEPT ![r.ptr] = NoBlock]
                /\ Released({r.ptr})
                /\ UNCHANGED owned
           ELSE /\ owned' = owned \cup r.held
                /\ UNCHANGED <<heap, live>>
    /\ req' = [req EXCEPT ![t] = NoRequest]
    /\ calls' = [calls EXCEPT ![t] = @ + (IF tracing THEN 1 ELSE 0)]
    /\ Goto(t, "idle")
    /\ UNCHANGED <<log, tracing, lock, ctxVars, scratch, exitVars, dropped>>

HookStep(t) ==
    \/ CheckTracing(t)
    \/ NewContextLocks(t)
    \/ NewContextPublishes(t)
    \/ EnterGuard(t)
    \/ Unwind(t)
    \/ Stamp(t)
    \/ Push(t)
    \/ Finish(t)

-----------------------------------------------------------------------------
(* The destructor of GLOBAL_CONTEXT runs generate_report, in Main.         *)
Exit ==
    /\ phase = "run"
    /\ IF Detached THEN pc[Main] = "idle" ELSE InCall = {}
    /\ phase' = "lock"
    /\ tracing' = FALSE
    /\ UNCHANGED <<log, live, lock, ctxVars, heapVars, pc, req, next, report,
                   history>>

(* Mutant of ReportLocks: the contexts are drained without the lock.       *)
ReportDoesNotLock ==
    /\ phase = "lock"
    /\ phase' = "drain"
    /\ UNCHANGED <<log, live, tracing, lock, ctxVars, heapVars, pc, req, next,
                   report, history>>

ReportLocks ==
    /\ phase = "lock"
    /\ lock = NoThread
    /\ lock' = Main
    /\ phase' = "drain"
    /\ UNCHANGED <<log, live, tracing, ctxVars, heapVars, pc, req, next, report,
                   history>>

(* Mutant of DrainMoves: the events replace those drained before.          *)
DrainReplaces ==
    /\ phase = "drain"
    /\ next =< Len(counters)
    /\ LET c == counters[next]
       IN  /\ report' = [events |-> events[c], total |-> report.total + total[c]]
           /\ total' = [total EXCEPT ![c] = 0]
    /\ phase' = "clear"
    /\ UNCHANGED <<log, live, tracing, lock, counters, nest, events, heapVars,
                   pc, req, next, history>>

(* alloc_counter::drain: the total and the events move over ...            *)
DrainMoves ==
    /\ phase = "drain"
    /\ next =< Len(counters)
    /\ LET c == counters[next]
       IN  /\ report' = [events |-> report.events \o events[c],
                         total |-> report.total + total[c]]
           /\ total' = [total EXCEPT ![c] = 0]
    /\ phase' = "clear"
    /\ UNCHANGED <<log, live, tracing, lock, counters, nest, events, heapVars,
                   pc, req, next, history>>

(* Mutant of DrainClears: the loop does not advance.                       *)
DrainStays ==
    /\ phase = "clear"
    /\ events' = [events EXCEPT ![counters[next]] = << >>]
    /\ phase' = "drain"
    /\ UNCHANGED <<log, live, tracing, lock, counters, nest, total, heapVars,
                   pc, req, next, report, history>>

(* ... and oe.clear().                                                     *)
DrainClears ==
    /\ phase = "clear"
    /\ events' = [events EXCEPT ![counters[next]] = << >>]
    /\ next' = next + 1
    /\ phase' = "drain"
    /\ UNCHANGED <<log, live, tracing, lock, counters, nest, total, heapVars,
                   pc, req, report, history>>

DrainEnds ==
    /\ phase = "drain"
    /\ next > Len(counters)
    /\ phase' = "dump"
    /\ UNCHANGED <<log, live, tracing, lock, ctxVars, heapVars, pc, req, next,
                   report, history>>

(* dump_json writes the file and generate_report's guard unlocks.          *)
Dump ==
    /\ phase = "dump"
    /\ scratch[Main] = {}
    /\ lock' = NoThread
    /\ phase' = "destroy"
    /\ UNCHANGED <<log, live, tracing, ctxVars, heapVars, pc, req, next, report,
                   history>>

(* dump_json throws and the destructor is noexcept: std::terminate.        *)
DumpFails ==
    /\ "dump" \in Allowed
    /\ phase = "dump"
    /\ phase' = "terminated"
    /\ UNCHANGED <<log, live, tracing, lock, ctxVars, heapVars, pc, req, next,
                   report, history>>

(* The members of GLOBAL_CONTEXT are destroyed: every local_context is     *)
(* freed.                                                                  *)
Destroy ==
    /\ phase = "destroy"
    /\ phase' = "done"
    /\ UNCHANGED <<log, live, tracing, lock, ctxVars, heapVars, pc, req, next,
                   report, history>>

(* Main returns from the last static destructor: the process is over.      *)
ProcessEnds ==
    /\ phase = "done"
    /\ pc[Main] = "idle"
    /\ phase' = "exited"
    /\ UNCHANGED <<log, live, tracing, lock, ctxVars, heapVars, pc, req, next,
                   report, history>>

ExitStep ==
    ReportLocks \/ DrainMoves \/ DrainClears \/ DrainEnds \/ Dump \/ Destroy

Terminated == Over /\ UNCHANGED vars

-----------------------------------------------------------------------------
ProgramStep(t) ==
    \/ \E n \in Sizes, a \in Addr : Malloc(t, n, a)
    \/ \E n \in Sizes : MallocFails(t, n)
    \/ \E h \in Addr, n \in Sizes : ReallocInPlace(t, h, n)
    \/ \E h, a \in Addr, n \in Sizes : ReallocMoves(t, h, n, a)
    \/ \E h \in Addr, n \in Sizes : ReallocFails(t, h, n)
    \/ \E h \in Addr : ReallocToZero(t, h)
    \/ \E p \in Addr : Free(t, p)
    \/ \E n \in Sizes, a \in Addr : UnhookedAlloc(t, n, a)

FaultStep(t) ==
    \/ NewContextFails(t)
    \/ UnwindThrows(t)
    \/ PushThrows(t)
    \/ ThrowTerminates(t)
    \/ UndefinedCrash(t)
    \/ UndefinedNest(t)

SelfStep(t) ==
    \/ \E n \in Sizes, a \in Addr : SelfMalloc(t, n, a)
    \/ \E a \in Addr : SelfFree(t, a)

Next ==
    \/ \E t \in Threads : ProgramStep(t) \/ HookStep(t) \/ FaultStep(t) \/ SelfStep(t)
    \/ Exit \/ ExitStep \/ DumpFails \/ ProcessEnds
    \/ Terminated

Spec == Init /\ [][Next]_vars

(* The scheduler runs every thread that can run, a mutex is released to a  *)
(* thread that waits for it, and the unwinder and the report writer, which *)
(* may allocate and free on the way, return.                               *)
Fairness ==
    /\ \A t \in Threads : /\ WF_vars(HookStep(t))
                          /\ WF_vars(\E a \in Addr : SelfFree(t, a))
                          /\ SF_vars(Unwind(t))
    /\ WF_vars(ExitStep)
    /\ SF_vars(Dump)

FairSpec == Spec /\ Fairness

-----------------------------------------------------------------------------
RequestType ==
    [type : {"ALLOC", "FREE"}, size : Sizes \cup {0}, ptr : Ptr, hint : Ptr,
     held : SUBSET Addr, id : Nat]

Phases == {"run", "lock", "drain", "clear", "dump", "destroy", "done",
           "exited", "terminated"}

CtxTypeOK ==
    /\ tracing \in BOOLEAN
    /\ lock \in Threads \cup {NoThread}
    /\ counters \in Seq(Threads)
    /\ nest \in [Threads -> Int]
    /\ events \in [Threads -> Seq(Nat)]
    /\ total \in [Threads -> Nat]

HeapTypeOK ==
    /\ heap \in [Addr -> Sizes \cup {NoBlock}]
    /\ owned \in SUBSET Addr
    /\ scratch \in [Threads -> SUBSET Addr]

CallTypeOK ==
    /\ pc \in [Threads -> PCs]
    /\ req \in [Threads -> RequestType]
    /\ calls \in [Threads -> Nat]
    /\ dropped \in SUBSET Nat

ExitTypeOK ==
    /\ phase \in Phases
    /\ next \in Nat \ {0}
    /\ report \in [events : Seq(Nat), total : Nat]

TypeOK == LogTypeOK /\ CtxTypeOK /\ HeapTypeOK /\ CallTypeOK /\ ExitTypeOK

(* No two parties hold the same block: the program, the calls in flight    *)
(* and the profiler's own memory are disjoint, and all of it is allocated. *)
OwnersDisjoint ==
    \A a \in Addr :
        /\ a \in owned => heap[a] # NoBlock
        /\ \A t \in Threads :
               /\ a \in req[t].held =>
                      heap[a] # NoBlock /\ a \notin owned /\ a \notin scratch[t]
               /\ a \in scratch[t] => heap[a] # NoBlock /\ a \notin owned
        /\ \A t, u \in Threads : t # u =>
               /\ a \in req[t].held => a \notin req[u].held /\ a \notin scratch[u]
               /\ a \in scratch[t] => a \notin scratch[u]

(* The log knows the real size of the block at every address it believes   *)
(* to be live, so the size a FREE is given is the size of the block freed. *)
LiveIsTrue ==
    \A a \in Addr : live[a] # NoStamp =>
        heap[a] # NoBlock /\ log[live[a]].size = heap[a]

(* The guard of a thread's context is up exactly while the thread records: *)
(* every way out of the hook lowers it, an exception included.             *)
GuardBalance ==
    \A t \in Threads :
        nest[t] = (IF pc[t] \in {"unwind", "stamp", "push"} THEN 1 ELSE 0)

(* While tracing is on, a thread's context holds exactly one event for     *)
(* each hook call its program completed: no call is missed, and none that  *)
(* the profiler makes itself is recorded.                                  *)
OneEventPerCall ==
    tracing => \A t \in Threads :
        pc[t] = "idle" => Len(events[t]) = calls[t]

Reported == phase \in {"dump", "destroy", "done", "exited"}

(* The report of a program that joined its threads holds every event that  *)
(* was stamped, once, except those lost to an exception; the total counts  *)
(* those as well.                                                          *)
ReportComplete ==
    (Reported /\ ~Detached) =>
        /\ Len(report.events) = Cardinality(1..Len(log) \ dropped)
        /\ {report.events[i] : i \in 1..Len(report.events)} = 1..Len(log) \ dropped
        /\ report.total = Cardinality({i \in 1..Len(log) : log[i].type # "FREE"})

(* The events of one context are stored in the order of their ids.         *)
ContextInOrder ==
    \A t \in Threads : \A i, j \in 1..Len(events[t]) :
        i < j => events[t][i] < events[t][j]

(* No context is published while generate_report iterates over counters.   *)
NoRegistrationWhileDraining ==
    [][(phase \in {"drain", "clear", "dump"}) => counters' = counters]_vars

(* A local_context is used only while GLOBAL_CONTEXT keeps it alive: a     *)
(* thread that found tracing on can safely get its context.                *)
ContextSafe == \A t \in Threads : ~UsesFreedContext(t)

(* What a reader who replays the log relies on: when an address is handed  *)
(* out again, the event that released it comes first, as the ids order the *)
(* events chronologically.                                                 *)
Replayable ==
    \A i, j \in 1..Len(log) :
        (i < j /\ log[i].type = "ALLOC" /\ log[j].type = "ALLOC"
            /\ log[i].ptr = log[j].ptr /\ log[i].ptr # Null) =>
        \E k \in (i + 1)..j :
            (log[k].type = "FREE" /\ log[k].ptr = log[i].ptr)
                \/ log[k].hint = log[i].ptr

(* Every FREE is given the size of the block it frees, whoever allocated   *)
(* it.                                                                     *)
EveryFreeSized ==
    \A j \in 1..Len(log) :
        log[j].type = "FREE" => SavedSize(log, j) = log[j].held

(* Every hook call that starts returns or throws, unless the process ends. *)
HookReturns == \A t \in Threads : pc[t] # "idle" ~> (pc[t] = "idle" \/ Over)

(* Once exit begins, a report is produced or the process is terminated.    *)
ExitCompletes == (phase = "lock") ~> (phase \in {"done", "exited", "terminated"})
=============================================================================
