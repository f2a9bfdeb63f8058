----------------------------- MODULE Allocators -----------------------------
(***************************************************************************)
(* What lies between a request for memory and the C library: calloc and   *)
(* the forms of operator new and delete (mem_profile.cpp), mp::allocator  *)
(* (allocator.h), and the table of dlsym'd functions which replaces       *)
(* __libc_malloc where there is no glibc (alloc.h, dlsym.h).  Recording   *)
(* is one step here; Runtime models its inside.                           *)
(***************************************************************************)
EXTENDS Naturals, FiniteSets, Functions

CONSTANTS
    Threads,
    Addrs,          \* where the C library may put a block
    Null,
    Bits,           \* the width of size_t
    Capacity,       \* bytes the C library has
    MaxReserve,     \* those of them that new_handler may give back
    Counts,         \* numbers of bytes or elements that are asked for
    Alignments,     \* align_val_t of aligned operator new
    ElemTypes,      \* types of elements: sizeof and alignof
    DefaultAlign,   \* __STDCPP_DEFAULT_NEW_ALIGNMENT__, which malloc keeps to
    Glibc,          \* __GLIBC__ >= 2
    Libraries       \* what dlsym(RTLD_NEXT, ...) may find: sets of functions

Powers == {2 ^ i : i \in 0 .. Bits - 1}

\* The C functions that calls reach.
CFunctions == {"malloc", "memalign", "calloc", "free"}

\* That powers of two are positive is a fact the prover lacks.
ASSUME AllocatorsAssumption ==
    /\ Null \notin Addrs \cup [size : Nat, align : Nat]
    /\ 2 ^ Bits \in Nat \ {0} /\ Powers \subseteq Nat \ {0}
    /\ Bits \in Nat \ {0} /\ Capacity \in Nat /\ MaxReserve \in 0 .. Capacity
    /\ Counts \subseteq 1 .. 2 ^ Bits - 1
    /\ Alignments \subseteq Powers /\ DefaultAlign \in Powers
    /\ ElemTypes \subseteq [size : 1 .. 2 ^ Bits - 1, align : Powers]
    /\ Glibc \in BOOLEAN
    /\ Libraries \subseteq SUBSET CFunctions

VARIABLES
    exported,       \* what dlsym finds in this process
    table,          \* ALLOC_HOOK_TABLE
    handler,        \* whether a new_handler is installed
    reserve,        \* bytes it can still give back
    blocks,         \* at each address Null, or the size and alignment there
    pc, req, ptr,   \* of each thread: its place in a call, the call, a block
    running         \* until std::exit

vars == <<exported, table, handler, reserve, blocks, pc, req, ptr, running>>

-----------------------------------------------------------------------------
SizeT(n) == n % 2 ^ Bits

\* The forms a call may have; vec is a container with an mp::allocator.
\* count is a number of elements of the given type, of bytes where there is none.
Throwing == {"new", "new_aligned"}
Aligned == {"new_aligned", "new_aligned_nothrow"}
Nothrow == {"new_nothrow", "new_aligned_nothrow", "calloc"}

\* std::vector asks for no more elements than its allocator's max_size.
\* Mutant of MaxSize: the size of an element is forgotten.
MaxCount(type) == 2 ^ Bits - 1

MaxSize(type) == (2 ^ Bits - 1) \div type.size

Byte(align) == [size |-> 1, align |-> align]

Calls ==
    [form : {"new", "new_nothrow"}, count : Counts, type : {Byte(DefaultAlign)}]
    \cup [form : Aligned, count : Counts, type : {Byte(al) : al \in Alignments}]
    \cup [form : {"calloc"}, count : Counts, type : ElemTypes]
    \cup {r \in [form : {"vec"}, count : Counts, type : ElemTypes] :
            r.count <= MaxSize(r.type)}

NoCall == [form |-> "none", count |-> 0, type |-> Byte(1)]
FreeCall == [form |-> "free", count |-> 0, type |-> Byte(1)]

Bytes(r) == r.count * r.type.size

Overaligned(r) == r.form = "vec" /\ r.type.align > DefaultAlign

\* Which of them a call reaches.
Function(r) ==
    CASE r.form \in Aligned \/ Overaligned(r) -> "memalign"
      [] r.form \in {"calloc", "free"} -> r.form
      [] OTHER -> "malloc"

\* And with which arguments: the alignment, malloc's own where none is given,
\* and the size, a product of two for calloc.  The aligned forms of operator new
\* call memalign(count, al).
\* Mutant of Arguments: calloc computes the product itself.
ProductFirst(r) ==
    CASE r.form \in Aligned -> [align |-> r.count, size |-> r.type.align]
      [] OTHER ->
             [align |-> IF Overaligned(r) THEN r.type.align ELSE DefaultAlign,
              size |-> SizeT(Bytes(r))]

Arguments(r) ==
    CASE r.form \in Aligned -> [align |-> r.count, size |-> r.type.align]
      [] r.form = "vec" ->
             [align |-> IF Overaligned(r) THEN r.type.align ELSE DefaultAlign,
              size |-> SizeT(Bytes(r))]
      [] OTHER -> [align |-> DefaultAlign, size |-> Bytes(r)]

\* The size that the hook records.
RecordedSize(r) == IF r.form = "calloc" THEN SizeT(Bytes(r)) ELSE r.count

\* The bytes the caller may use, and the alignment it relies on.
Asked(r) == Bytes(r)
AskedAlign(r) ==
    IF r.form \in Aligned \cup {"vec"} THEN r.type.align ELSE DefaultAlign

-----------------------------------------------------------------------------
(* The C library: calloc checks its product, glibc rounds an alignment up  *)
(* to a power of two, the others refuse one that is not.                   *)
SizeAt(a) == IF blocks[a] = Null THEN 0 ELSE blocks[a].size
Used == reserve + SumFunction([a \in Addrs |-> SizeAt(a)])

RoundedUp(n) == {p \in Powers : n =< p /\ p < 2 * n}

CanServe(args) ==
    /\ args.size < 2 ^ Bits
    /\ Used + args.size <= Capacity
    /\ RoundedUp(args.align) # {}
    /\ Glibc \/ args.align \in Powers

-----------------------------------------------------------------------------
Init ==
    /\ exported \in Libraries
    /\ table = [f \in CFunctions |-> Null]
    /\ handler \in BOOLEAN
    /\ reserve = MaxReserve
    /\ blocks = [a \in Addrs |-> Null]
    /\ pc = [t \in Threads |-> "idle"]
    /\ req = [t \in Threads |-> NoCall]
    /\ ptr = [t \in Threads |-> Null]
    /\ running = TRUE

At(t, place) == running /\ pc[t] = place
Go(t, place) == pc' = [pc EXCEPT ![t] = place]

\* The call is over: it has returned or thrown.
Leave(t) ==
    /\ Go(t, "idle")
    /\ req' = [req EXCEPT ![t] = NoCall]
    /\ ptr' = [ptr EXCEPT ![t] = Null]

Call(t) ==
    /\ At(t, "idle")
    /\ \E r \in Calls : req' = [req EXCEPT ![t] = r]
    /\ Go(t, "entry")
    /\ UNCHANGED <<exported, table, handler, reserve, blocks, ptr, running>>

\* free, operator delete and deallocate of a block that no one else frees.
Release(t) ==
    /\ At(t, "idle")
    /\ \E a \in Addrs :
         /\ blocks[a] # Null
         /\ \A u \in Threads : ptr[u] # a
         /\ ptr' = [ptr EXCEPT ![t] = a]
    /\ req' = [req EXCEPT ![t] = FreeCall]
    /\ Go(t, "entry")
    /\ UNCHANGED <<exported, table, handler, reserve, blocks, running>>

\* alloc_hook_table::get_*: the entry is read, and if it is null looked up.
GetEntry(t) ==
    /\ At(t, "entry")
    /\ Go(t, IF Glibc \/ table[Function(req[t])] # Null THEN "call" ELSE "load")
    /\ UNCHANGED <<exported, table, handler, reserve, blocks, req, ptr, running>>

\* Mutant of DlsymLoad: the error takes the place of the address.
SwappedResult(f) ==
    IF f \in exported THEN [addr |-> f, error_msg |-> Null]
                      ELSE [addr |-> "dlerror", error_msg |-> Null]

DlsymLoad(f) ==
    IF f \in exported THEN [addr |-> f, error_msg |-> Null]
                      ELSE [addr |-> Null, error_msg |-> "dlerror"]

\* Mutant of LoadEntry: a failed lookup is stored and called.
StoreAnyResult(t) ==
    /\ At(t, "load")
    /\ LET f == Function(req[t]) IN table' = [table EXCEPT ![f] = DlsymLoad(f).addr]
    /\ Go(t, "call")
    /\ UNCHANGED <<exported, handler, reserve, blocks, req, ptr, running>>

LoadEntry(t) ==
    /\ At(t, "load")
    /\ LET f == Function(req[t]) IN
       /\ DlsymLoad(f).addr # Null
       /\ table' = [table EXCEPT ![f] = DlsymLoad(f).addr]
    /\ Go(t, "call")
    /\ UNCHANGED <<exported, handler, reserve, blocks, req, ptr, running>>

\* dlsym_load_or_exit: std::exit(1).
ExitOnMissing(t) ==
    /\ At(t, "load")
    /\ DlsymLoad(Function(req[t])).addr = Null
    /\ Go(t, "exit")
    /\ UNCHANGED <<exported, table, handler, reserve, blocks, req, ptr, running>>

\* It runs the static destructors, ~global_context with its report among them
\* (Runtime has that), while the other threads run on; then the process ends.
DestructorsRun(t) ==
    /\ At(t, "exit")
    /\ running' = FALSE
    /\ UNCHANGED <<exported, table, handler, reserve, blocks, pc, req, ptr>>

Succeed(t) ==
    /\ At(t, "call")
    /\ req[t].form # "free"
    /\ LET args == Arguments(req[t]) IN
       /\ CanServe(args)
       /\ \E a \in Addrs, p \in RoundedUp(args.align) :
            /\ blocks[a] = Null
            /\ blocks' = [blocks EXCEPT ![a] = [size |-> args.size, align |-> p]]
            /\ ptr' = [ptr EXCEPT ![t] = a]
    /\ Go(t, "return")
    /\ UNCHANGED <<exported, table, handler, reserve, req, running>>

\* A null result: it is recorded and returned (calloc, nothrow), looked at by
\* ALLOCATE_OR_THROW, or becomes bad_alloc (mp::allocator::allocate).
\* Mutant of Fail: every form treats null as calloc does.
NullForEveryForm(t) ==
    /\ At(t, "call")
    /\ req[t].form # "free"
    /\ ~ CanServe(Arguments(req[t])) \/ \A a \in Addrs : blocks[a] # Null
    /\ Go(t, "return") /\ UNCHANGED <<req, ptr>>
    /\ UNCHANGED <<exported, table, handler, reserve, blocks, running>>

Fail(t) ==
    /\ At(t, "call")
    /\ req[t].form # "free"
    /\ ~ CanServe(Arguments(req[t])) \/ \A a \in Addrs : blocks[a] # Null
    /\ \/ req[t].form \in Nothrow /\ Go(t, "return") /\ UNCHANGED <<req, ptr>>
       \/ req[t].form \in Throwing /\ Go(t, "failed") /\ UNCHANGED <<req, ptr>>
       \/ req[t].form = "vec" /\ Leave(t)
    /\ UNCHANGED <<exported, table, handler, reserve, blocks, running>>

\* RECORD_ALLOC (not for containers) and the return.
Return(t) ==
    /\ At(t, "return")
    /\ Leave(t)
    /\ UNCHANGED <<exported, table, handler, reserve, blocks, running>>

Free(t) ==
    /\ At(t, "call")
    /\ req[t].form = "free"
    /\ blocks' = [blocks EXCEPT ![ptr[t]] = Null]
    /\ Leave(t)
    /\ UNCHANGED <<exported, table, handler, reserve, running>>

\* std::get_new_handler, bad_alloc if there is none.
\* Mutant of ReadHandler: without a handler, try again.
RetryWithoutHandler(t) ==
    /\ At(t, "failed")
    /\ Go(t, IF handler THEN "handle" ELSE "entry")
    /\ UNCHANGED <<exported, table, handler, reserve, blocks, req, ptr, running>>

ReadHandler(t) ==
    /\ At(t, "failed")
    /\ IF handler THEN Go(t, "handle") /\ UNCHANGED <<req, ptr>> ELSE Leave(t)
    /\ UNCHANGED <<exported, table, handler, reserve, blocks, running>>

(* new_handler, which is asked to make memory available, to throw, or to   *)
(* uninstall itself when it can do no more; then the loop begins again.    *)
HandlerReleases(t) ==
    /\ At(t, "handle")
    /\ reserve > 0
    /\ reserve' = reserve - 1
    /\ Go(t, "entry")
    /\ UNCHANGED <<exported, table, handler, blocks, req, ptr, running>>

HandlerUninstalls(t) ==
    /\ At(t, "handle")
    /\ reserve = 0
    /\ handler' = FALSE
    /\ Go(t, "entry")
    /\ UNCHANGED <<exported, table, reserve, blocks, req, ptr, running>>

HandlerThrows(t) ==
    /\ At(t, "handle")
    /\ Leave(t)
    /\ UNCHANGED <<exported, table, handler, reserve, blocks, running>>

Exited == ~ running /\ UNCHANGED vars

InCall(t) ==
    \/ GetEntry(t) \/ LoadEntry(t) \/ ExitOnMissing(t) \/ DestructorsRun(t)
    \/ Succeed(t) \/ Fail(t) \/ Return(t) \/ Free(t) \/ ReadHandler(t)
    \/ HandlerReleases(t) \/ HandlerUninstalls(t) \/ HandlerThrows(t)

Next == (\E t \in Threads : Call(t) \/ Release(t) \/ InCall(t)) \/ Exited

Spec == Init /\ [][Next]_vars /\ \A t \in Threads : WF_vars(InCall(t))

-----------------------------------------------------------------------------
TypeOK ==
    /\ exported \in SUBSET CFunctions
    /\ table \in [CFunctions -> CFunctions \cup {Null}]
    /\ handler \in BOOLEAN /\ running \in BOOLEAN
    /\ reserve \in 0 .. MaxReserve
    /\ \A a \in Addrs : blocks[a] = Null
         \/ blocks[a] \in [size : 0 .. 2 ^ Bits - 1, align : Powers]
    /\ pc \in [Threads -> {"idle", "entry", "load", "call", "return", "failed",
                           "handle", "exit"}]
    /\ req \in [Threads -> Calls \cup {NoCall, FreeCall}]
    /\ ptr \in [Threads -> Addrs \cup {Null}]

(* However first uses of the hook table race, a call goes to the function  *)
(* it asked for, and never to null (the getters of alloc_hook_table).         *)
TableSound ==
    \A t \in Threads :
        pc[t] = "call" /\ ~ Glibc => table[Function(req[t])] = Function(req[t])

(* What a throwing operator new gives back, and what it records, is a      *)
(* block; only the other hooks record a null (ALLOCATE_OR_THROW).          *)
ThrowingGetsBlock ==
    \A t \in Threads : pc[t] = "return" /\ ptr[t] = Null => req[t].form \in Nothrow

\* The block that is about to be returned is as large and as aligned as asked.
Fits(t) ==
    pc[t] = "return" /\ ptr[t] # Null =>
        /\ blocks[ptr[t]] # Null
        /\ blocks[ptr[t]].size >= Asked(req[t])
        /\ blocks[ptr[t]].align >= AskedAlign(req[t])

(* Unless aligned operator new is called, a block has room for what was    *)
(* asked for even where the product of count and size wraps around, and    *)
(* what is recorded of it is that size (calloc, mp::allocator::_alloc and  *)
(* max_size).                                                              *)
BlockFits ==
    \A t \in Threads :
        /\ req[t].form \notin Aligned => Fits(t)
        /\ pc[t] = "return" /\ ptr[t] # Null /\ req[t].form # "vec" =>
             RecordedSize(req[t]) = Asked(req[t])

(* prelude.h:10 and alloc.h:21: memalign takes the alignment and then the  *)
(* size.  The block of aligned operator new has the size and alignment     *)
(* that the program asked for.                                             *)
AlignedFits == \A t \in Threads : req[t].form \in Aligned => Fits(t)

(* With a handler that keeps to its contract every call ends, whatever the *)
(* other threads allocate and release meanwhile (ALLOCATE_OR_THROW).       *)
CallsEnd == \A t \in Threads : pc[t] # "idle" ~> (pc[t] = "idle" \/ ~ running)
=============================================================================
