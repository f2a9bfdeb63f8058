---------------------------- MODULE RuntimeProofs ----------------------------
(***************************************************************************)
(* For any threads, addresses, sizes, faults and bounds: the hooks never   *)
(* let two parties hold one block, every log they write is a log of        *)
(* EventLog, and hence the size of every freed block is recovered.         *)
(*                                                                         *)
(* IInv strengthens TypeOK with what a call in flight knows of its block   *)
(* (InFlight): an ALLOC not stamped yet has an address with no live entry  *)
(* in the log, because nobody else can be handed that address before the   *)
(* program frees it, and a FREE holds its block until it is stamped.       *)
(*                                                                         *)
(* ReplayInv and KnownInv tell what tracing adds: while it is on, an       *)
(* address that is not live has been freed in the log, and a block that    *)
(* the program owns is in it.                                              *)
(*                                                                         *)
(* The second part follows the events: none is lost, stored twice or       *)
(* stored out of order on its way from a hook to the report.  OrderInv:    *)
(* the events of a context are those its thread has logged, in order, up   *)
(* to the one it is about to store.  RegisteredInv: a thread that has      *)
(* logged anything is in counters, once.                                   *)
(***************************************************************************)
EXTENDS Runtime, EventLogProofs, SequenceTheorems, FunctionTheorems, FiniteSetTheorems

BeforeStamp == {"check", "context", "register", "unwind", "stamp"}

InFlight ==
    \A t \in Threads :
        /\ pc[t] = "idle" => req[t] = NoRequest
        /\ (pc[t] # "idle" /\ req[t].type = "FREE") =>
               req[t].ptr \in Addr /\ req[t].ptr \in req[t].held
        /\ (pc[t] \in BeforeStamp /\ req[t].type = "ALLOC" /\ req[t].ptr # Null) =>
               /\ req[t].ptr \in req[t].held
               /\ live[req[t].ptr] = NoStamp
               /\ heap[req[t].ptr] = req[t].size

ScratchUnlogged ==
    \A t \in Threads : \A a \in scratch[t] : live[a] = NoStamp

TracingOff == tracing => phase \in {"run", "terminated"}

BlockInv ==
    OwnersDisjoint /\ LiveIsTrue /\ InFlight /\ ScratchUnlogged

IInv == TypeOK /\ LogInv /\ BlockInv /\ GuardBalance /\ TracingOff

-----------------------------------------------------------------------------
LEMMA InitInv == ASSUME Init PROVE IInv
<1>1. LogInv
  BY LogInitInv DEF Init
<1>2. TypeOK
  BY <1>1, RuntimeAssumption DEF Init, TypeOK, CtxTypeOK, HeapTypeOK,
     CallTypeOK, ExitTypeOK, LogInv, RequestType, NoRequest,
     Request, PCs, Phases, NoStamp, NoBlock, Ptr
<1>3. BlockInv
  BY DEF Init, LogInit, BlockInv, OwnersDisjoint, LiveIsTrue, InFlight,
     ScratchUnlogged, NoRequest, Request, NoStamp, BeforeStamp
<1>4. GuardBalance /\ TracingOff
  BY DEF Init, GuardBalance, TracingOff
<1> QED  BY <1>1, <1>2, <1>3, <1>4 DEF IInv

(* The steps that touch neither the log nor the blocks.                    *)
QuietVars == <<log, live, heap, owned, scratch, req>>

LEMMA QuietBlocks ==
    ASSUME IInv, UNCHANGED QuietVars,
           \A t \in Threads :
               /\ pc'[t] = "idle" => pc[t] = "idle"
               /\ pc'[t] # "idle" => pc[t] # "idle"
               /\ pc'[t] \in BeforeStamp => pc[t] \in BeforeStamp
    PROVE  BlockInv' /\ LogInv'
<1>1. LogInv'
  BY LogStutterInv DEF IInv, QuietVars, logVars
<1>2. OwnersDisjoint' /\ LiveIsTrue' /\ ScratchUnlogged'
  BY DEF IInv, BlockInv, OwnersDisjoint, LiveIsTrue, ScratchUnlogged, QuietVars
<1>3. InFlight'
  BY DEF IInv, BlockInv, InFlight, QuietVars
<1> QED  BY <1>1, <1>2, <1>3 DEF BlockInv

QuietStep(t) ==
    \/ CheckTracing(t) \/ NewContextLocks(t) \/ NewContextPublishes(t)
    \/ EnterGuard(t) \/ Unwind(t) \/ Push(t)
    \/ NewContextFails(t) \/ ThrowTerminates(t) \/ UndefinedCrash(t)
    \/ UndefinedNest(t)

QuietExit == Exit \/ ExitStep \/ DumpFails \/ ProcessEnds \/ Terminated

LEMMA QuietStepBlocks ==
    ASSUME IInv, NEW t \in Threads, QuietStep(t)
    PROVE  BlockInv' /\ LogInv'
<1>1. pc \in [Threads -> PCs]
  BY DEF IInv, TypeOK, CallTypeOK
<1>2. UNCHANGED QuietVars
  BY DEF QuietStep, CheckTracing, NewContextLocks, NewContextPublishes,
     EnterGuard, Unwind, Push, NewContextFails, ThrowTerminates,
     UndefinedCrash, UndefinedNest, QuietVars, heapVars
<1>3. \E w \in PCs :
          /\ pc' = [pc EXCEPT ![t] = w]
          /\ w = "idle" => pc[t] = "idle"
          /\ w # "idle" => pc[t] # "idle"
          /\ w \in BeforeStamp => pc[t] \in BeforeStamp
  <2>1. CASE CheckTracing(t) \/ NewContextLocks(t) \/ NewContextPublishes(t)
             \/ EnterGuard(t)
    BY <2>1 DEF CheckTracing, NewContextLocks, NewContextPublishes, EnterGuard,
       At, Goto, PCs, BeforeStamp
  <2>2. CASE Unwind(t) \/ Push(t) \/ UndefinedNest(t)
    BY <2>2 DEF Unwind, Push, UndefinedNest, At, Goto, PCs, BeforeStamp
  <2>3. CASE NewContextFails(t) \/ ThrowTerminates(t) \/ UndefinedCrash(t)
    <3>1. pc' = pc
      BY <2>3 DEF NewContextFails, ThrowTerminates, UndefinedCrash
    <3>2. pc[t] \in PCs /\ pc' = [pc EXCEPT ![t] = pc[t]]
      BY <1>1, <3>1
    <3> QED  BY <3>2
  <2> QED  BY <2>1, <2>2, <2>3 DEF QuietStep
<1>4. \A u \in Threads :
          /\ pc'[u] = "idle" => pc[u] = "idle"
          /\ pc'[u] # "idle" => pc[u] # "idle"
          /\ pc'[u] \in BeforeStamp => pc[u] \in BeforeStamp
  BY <1>1, <1>3
<1> QED  BY <1>2, <1>4, QuietBlocks

LEMMA QuietExitBlocks ==
    ASSUME IInv, QuietExit
    PROVE  BlockInv' /\ LogInv'
<1>1. UNCHANGED QuietVars /\ UNCHANGED pc
  BY DEF QuietExit, Exit, ExitStep, ReportLocks, DrainMoves, DrainClears,
     DrainEnds, Dump, Destroy, DumpFails, ProcessEnds, Terminated, QuietVars,
     heapVars, vars
<1> QED  BY <1>1, QuietBlocks

-----------------------------------------------------------------------------
(* The hooks that call the underlying allocator first.  Each leaves the    *)
(* log alone, moves one block between its owners, and forgets a block that *)
(* realloc released.                                                       *)
LEMMA BeginFacts ==
    ASSUME IInv, NEW t \in Threads, NEW r, MayCall(t), Begin(t, r)
    PROVE  /\ pc[t] = "idle"
           /\ req[t].held = {}
           /\ req' = [req EXCEPT ![t] = r]
           /\ pc' = [pc EXCEPT ![t] = "check"]
           /\ log' = log /\ scratch' = scratch
           /\ pc \in [Threads -> PCs]
           /\ req \in [Threads -> RequestType]
           /\ scratch \in [Threads -> SUBSET Addr]
           /\ heap \in [Addr -> Sizes \cup {NoBlock}]
           /\ live \in [Addr -> Nat]
<1>1. pc[t] = "idle"
  BY DEF MayCall, InProgram
<1>2. req[t].held = {}
  BY <1>1 DEF IInv, BlockInv, InFlight, NoRequest, Request
<1> QED
  BY <1>1, <1>2 DEF Begin, Goto, IInv, TypeOK, HeapTypeOK, CallTypeOK, LogTypeOK

LEMMA ForgetKeepsLog ==
    ASSUME IInv, log' = log,
           live' = live \/ (\E A \in SUBSET Addr : Released(A))
    PROVE  LogInv'
BY ForgetInv, LogStutterInv DEF IInv, Forget, logVars

LEMMA MallocBlocks ==
    ASSUME IInv, NEW t \in Threads, NEW n \in Sizes, NEW a \in Addr,
           Malloc(t, n, a)
    PROVE  BlockInv' /\ LogInv'
<1> DEFINE r == Request("ALLOC", n, a, Null, {a})
<1>1. MayCall(t) /\ Begin(t, r) /\ heap[a] = NoBlock
      /\ heap' = [heap EXCEPT ![a] = n] /\ live' = live /\ owned' = owned
  BY DEF Malloc
<1>2. /\ pc[t] = "idle" /\ req[t].held = {}
      /\ req' = [req EXCEPT ![t] = r]
      /\ pc' = [pc EXCEPT ![t] = "check"]
      /\ log' = log /\ scratch' = scratch
      /\ pc \in [Threads -> PCs]
      /\ req \in [Threads -> RequestType]
      /\ scratch \in [Threads -> SUBSET Addr]
      /\ heap \in [Addr -> Sizes \cup {NoBlock}]
      /\ live \in [Addr -> Nat]
  BY <1>1, BeginFacts
<1>3. r.held = {a} /\ r.type = "ALLOC" /\ r.ptr = a /\ r.size = n
  BY DEF Request
<1> HIDE DEF r
<1>4. n # NoBlock
  BY EventsAssumption DEF NoBlock
<1>5. OwnersDisjoint'
  BY <1>1, <1>2, <1>3, <1>4 DEF IInv, BlockInv, OwnersDisjoint
<1>6. live[a] = NoStamp
  BY <1>1 DEF IInv, BlockInv, LiveIsTrue
<1>7. LiveIsTrue' /\ ScratchUnlogged'
  BY <1>1, <1>2, <1>6 DEF IInv, BlockInv, LiveIsTrue, ScratchUnlogged
<1>8. InFlight'
  BY <1>1, <1>2, <1>3, <1>6 DEF IInv, BlockInv, InFlight, OwnersDisjoint
<1>9. LogInv'
  BY <1>1, <1>2, ForgetKeepsLog
<1> QED  BY <1>5, <1>7, <1>8, <1>9 DEF BlockInv

LEMMA MallocFailsBlocks ==
    ASSUME IInv, NEW t \in Threads, NEW n \in Sizes,
           MallocFails(t, n)
    PROVE  BlockInv' /\ LogInv'
<1> DEFINE r == Request("ALLOC", n, Null, Null, {})
<1>1. MayCall(t) /\ Begin(t, r)
      /\ heap' = heap /\ live' = live /\ owned' = owned
  BY DEF MallocFails
<1>2. /\ pc[t] = "idle" /\ req[t].held = {}
      /\ req' = [req EXCEPT ![t] = r]
      /\ pc' = [pc EXCEPT ![t] = "check"]
      /\ log' = log /\ scratch' = scratch
      /\ pc \in [Threads -> PCs]
      /\ req \in [Threads -> RequestType]
      /\ scratch \in [Threads -> SUBSET Addr]
      /\ heap \in [Addr -> Sizes \cup {NoBlock}]
      /\ live \in [Addr -> Nat]
  BY <1>1, BeginFacts
<1>3. r.held = {} /\ r.type = "ALLOC" /\ r.ptr = Null
  BY DEF Request
<1> HIDE DEF r
<1>5. OwnersDisjoint'
  BY <1>1, <1>2, <1>3 DEF IInv, BlockInv, OwnersDisjoint
<1>6. LiveIsTrue' /\ ScratchUnlogged'
  BY <1>1, <1>2, <1>3 DEF IInv, BlockInv, LiveIsTrue, ScratchUnlogged,
     OwnersDisjoint, Released
<1>7. InFlight'
  <2>1. /\ pc'[t] = "check" /\ req'[t] = r
        /\ \A u \in Threads : u # t => pc'[u] = pc[u] /\ req'[u] = req[u]
    BY <1>2
  <2>2. \A u \in Threads : u # t => \A x \in req[u].held :
            heap'[x] = heap[x] /\ live'[x] = live[x]
    BY <1>1, <1>2 DEF Released, RequestType, IInv, BlockInv, OwnersDisjoint
  <2> QED  BY <2>1, <2>2, <1>3 DEF IInv, BlockInv, InFlight
<1>8. LogInv'
  BY <1>1, <1>2, ForgetKeepsLog
<1> QED  BY <1>5, <1>6, <1>7, <1>8 DEF BlockInv

LEMMA ReallocInPlaceBlocks ==
    ASSUME IInv, NEW t \in Threads, NEW h \in Addr, NEW n \in Sizes,
           ReallocInPlace(t, h, n)
    PROVE  BlockInv' /\ LogInv'
<1> DEFINE r == Request("ALLOC", n, h, h, {h})
<1>1. MayCall(t) /\ Begin(t, r)
      /\ h \in owned /\ heap' = [heap EXCEPT ![h] = n]
      /\ Released({h}) /\ owned' = owned \ {h}
  BY DEF ReallocInPlace
<1>2. /\ pc[t] = "idle" /\ req[t].held = {}
      /\ req' = [req EXCEPT ![t] = r]
      /\ pc' = [pc EXCEPT ![t] = "check"]
      /\ log' = log /\ scratch' = scratch
      /\ pc \in [Threads -> PCs]
      /\ req \in [Threads -> RequestType]
      /\ scratch \in [Threads -> SUBSET Addr]
      /\ heap \in [Addr -> Sizes \cup {NoBlock}]
      /\ live \in [Addr -> Nat]
  BY <1>1, BeginFacts
<1>3. r.held = {h} /\ r.type = "ALLOC" /\ r.ptr = h /\ r.size = n
  BY DEF Request
<1> HIDE DEF r
<1>4. n # NoBlock /\ NoStamp \in Nat
  BY EventsAssumption DEF NoBlock, NoStamp
<1>5. OwnersDisjoint'
  BY <1>1, <1>2, <1>3, <1>4 DEF IInv, BlockInv, OwnersDisjoint
<1>6. LiveIsTrue' /\ ScratchUnlogged'
  BY <1>1, <1>2, <1>3, <1>4 DEF IInv, BlockInv, LiveIsTrue, ScratchUnlogged,
     OwnersDisjoint, Released
<1>7. InFlight'
  <2>1. /\ pc'[t] = "check" /\ req'[t] = r
        /\ \A u \in Threads : u # t => pc'[u] = pc[u] /\ req'[u] = req[u]
    BY <1>2
  <2>2. \A x \in Addr : x # h /\ heap[x] # NoBlock =>
            heap'[x] = heap[x] /\ live'[x] = live[x]
    BY <1>1, <1>2 DEF Released
  <2>3. \A u \in Threads : u # t => h \notin req[u].held
    BY <1>1 DEF IInv, BlockInv, OwnersDisjoint
  <2>4. \A u \in Threads : \A x \in req[u].held : x \in Addr /\ heap[x] # NoBlock
    BY <1>2 DEF RequestType, IInv, BlockInv, OwnersDisjoint
  <2>5. heap'[r.ptr] = r.size /\ live'[r.ptr] = NoStamp
    BY <1>1, <1>2, <1>3, <1>4 DEF Released, IInv, BlockInv, LiveIsTrue
  <2> QED  BY <2>1, <2>2, <2>3, <2>4, <2>5, <1>3 DEF IInv, BlockInv, InFlight
<1>8. LogInv'
  BY <1>1, <1>2, ForgetKeepsLog
<1> QED  BY <1>5, <1>6, <1>7, <1>8 DEF BlockInv

LEMMA ReallocMovesBlocks ==
    ASSUME IInv, NEW t \in Threads, NEW h \in Addr, NEW n \in Sizes, NEW a \in Addr,
           ReallocMoves(t, h, n, a)
    PROVE  BlockInv' /\ LogInv'
<1> DEFINE r == Request("ALLOC", n, a, h, {a})
<1>1. MayCall(t) /\ Begin(t, r)
      /\ h \in owned /\ heap[a] = NoBlock
      /\ heap' = [heap EXCEPT ![h] = NoBlock, ![a] = n]
      /\ Released({h}) /\ owned' = owned \ {h}
  BY DEF ReallocMoves
<1>2. /\ pc[t] = "idle" /\ req[t].held = {}
      /\ req' = [req EXCEPT ![t] = r]
      /\ pc' = [pc EXCEPT ![t] = "check"]
      /\ log' = log /\ scratch' = scratch
      /\ pc \in [Threads -> PCs]
      /\ req \in [Threads -> RequestType]
      /\ scratch \in [Threads -> SUBSET Addr]
      /\ heap \in [Addr -> Sizes \cup {NoBlock}]
      /\ live \in [Addr -> Nat]
  BY <1>1, BeginFacts
<1>3. r.held = {a} /\ r.type = "ALLOC" /\ r.ptr = a /\ r.size = n
  BY DEF Request
<1> HIDE DEF r
<1>4. n # NoBlock /\ NoStamp \in Nat
  BY EventsAssumption DEF NoBlock, NoStamp
<1>5. OwnersDisjoint'
  BY <1>1, <1>2, <1>3, <1>4 DEF IInv, BlockInv, OwnersDisjoint
<1>6. LiveIsTrue' /\ ScratchUnlogged'
  BY <1>1, <1>2, <1>3, <1>4 DEF IInv, BlockInv, LiveIsTrue, ScratchUnlogged,
     OwnersDisjoint, Released
<1>7. InFlight'
  <2>1. /\ pc'[t] = "check" /\ req'[t] = r
        /\ \A u \in Threads : u # t => pc'[u] = pc[u] /\ req'[u] = req[u]
    BY <1>2
  <2>2. \A x \in Addr : x # h /\ heap[x] # NoBlock =>
            heap'[x] = heap[x] /\ live'[x] = live[x]
    BY <1>1, <1>2 DEF Released
  <2>3. \A u \in Threads : u # t => h \notin req[u].held
    BY <1>1 DEF IInv, BlockInv, OwnersDisjoint
  <2>4. \A u \in Threads : \A x \in req[u].held : x \in Addr /\ heap[x] # NoBlock
    BY <1>2 DEF RequestType, IInv, BlockInv, OwnersDisjoint
  <2>5. heap'[r.ptr] = r.size /\ live'[r.ptr] = NoStamp
    BY <1>1, <1>2, <1>3, <1>4 DEF Released, IInv, BlockInv, LiveIsTrue
  <2> QED  BY <2>1, <2>2, <2>3, <2>4, <2>5, <1>3 DEF IInv, BlockInv, InFlight
<1>8. LogInv'
  BY <1>1, <1>2, ForgetKeepsLog
<1> QED  BY <1>5, <1>6, <1>7, <1>8 DEF BlockInv

LEMMA ReallocFailsBlocks ==
    ASSUME IInv, NEW t \in Threads, NEW h \in Addr, NEW n \in Sizes,
           ReallocFails(t, h, n)
    PROVE  BlockInv' /\ LogInv'
<1> DEFINE r == Request("ALLOC", n, Null, h, {h})
<1>1. MayCall(t) /\ Begin(t, r)
      /\ h \in owned /\ heap' = heap
      /\ live' = live /\ owned' = owned \ {h}
  BY DEF ReallocFails
<1>2. /\ pc[t] = "idle" /\ req[t].held = {}
      /\ req' = [req EXCEPT ![t] = r]
      /\ pc' = [pc EXCEPT ![t] = "check"]
      /\ log' = log /\ scratch' = scratch
      /\ pc \in [Threads -> PCs]
      /\ req \in [Threads -> RequestType]
      /\ scratch \in [Threads -> SUBSET Addr]
      /\ heap \in [Addr -> Sizes \cup {NoBlock}]
      /\ live \in [Addr -> Nat]
  BY <1>1, BeginFacts
<1>3. r.held = {h} /\ r.type = "ALLOC" /\ r.ptr = Null
  BY DEF Request
<1> HIDE DEF r
<1>5. OwnersDisjoint'
  BY <1>1, <1>2, <1>3 DEF IInv, BlockInv, OwnersDisjoint
<1>6. LiveIsTrue' /\ ScratchUnlogged'
  BY <1>1, <1>2, <1>3 DEF IInv, BlockInv, LiveIsTrue, ScratchUnlogged,
     OwnersDisjoint, Released
<1>7. InFlight'
  <2>1. /\ pc'[t] = "check" /\ req'[t] = r
        /\ \A u \in Threads : u # t => pc'[u] = pc[u] /\ req'[u] = req[u]
    BY <1>2
  <2>2. \A u \in Threads : u # t => \A x \in req[u].held :
            heap'[x] = heap[x] /\ live'[x] = live[x]
    BY <1>1, <1>2 DEF Released, RequestType, IInv, BlockInv, OwnersDisjoint
  <2> QED  BY <2>1, <2>2, <1>3 DEF IInv, BlockInv, InFlight
<1>8. LogInv'
  BY <1>1, <1>2, ForgetKeepsLog
<1> QED  BY <1>5, <1>6, <1>7, <1>8 DEF BlockInv

LEMMA ReallocToZeroBlocks ==
    ASSUME IInv, NEW t \in Threads, NEW h \in Addr,
           ReallocToZero(t, h)
    PROVE  BlockInv' /\ LogInv'
<1> DEFINE r == Request("ALLOC", 0, Null, h, {})
<1>1. MayCall(t) /\ Begin(t, r)
      /\ h \in owned /\ heap' = [heap EXCEPT ![h] = NoBlock]
      /\ Released({h}) /\ owned' = owned \ {h}
  BY DEF ReallocToZero
<1>2. /\ pc[t] = "idle" /\ req[t].held = {}
      /\ req' = [req EXCEPT ![t] = r]
      /\ pc' = [pc EXCEPT ![t] = "check"]
      /\ log' = log /\ scratch' = scratch
      /\ pc \in [Threads -> PCs]
      /\ req \in [Threads -> RequestType]
      /\ scratch \in [Threads -> SUBSET Addr]
      /\ heap \in [Addr -> Sizes \cup {NoBlock}]
      /\ live \in [Addr -> Nat]
  BY <1>1, BeginFacts
<1>3. r.held = {} /\ r.type = "ALLOC" /\ r.ptr = Null
  BY DEF Request
<1> HIDE DEF r
<1>5. OwnersDisjoint'
  BY <1>1, <1>2, <1>3 DEF IInv, BlockInv, OwnersDisjoint
<1>6. LiveIsTrue' /\ ScratchUnlogged'
  BY <1>1, <1>2, <1>3 DEF IInv, BlockInv, LiveIsTrue, ScratchUnlogged,
     OwnersDisjoint, Released
<1>7. InFlight'
  <2>1. /\ pc'[t] = "check" /\ req'[t] = r
        /\ \A u \in Threads : u # t => pc'[u] = pc[u] /\ req'[u] = req[u]
    BY <1>2
  <2>2. \A u \in Threads : u # t => \A x \in req[u].held :
            heap'[x] = heap[x] /\ live'[x] = live[x]
    BY <1>1, <1>2 DEF Released, RequestType, IInv, BlockInv, OwnersDisjoint
  <2> QED  BY <2>1, <2>2, <1>3 DEF IInv, BlockInv, InFlight
<1>8. LogInv'
  BY <1>1, <1>2, ForgetKeepsLog
<1> QED  BY <1>5, <1>6, <1>7, <1>8 DEF BlockInv

LEMMA FreeBlocks ==
    ASSUME IInv, NEW t \in Threads, NEW p \in Addr,
           Free(t, p)
    PROVE  BlockInv' /\ LogInv'
<1> DEFINE r == Request("FREE", 0, p, Null, {p})
<1>1. MayCall(t) /\ Begin(t, r)
      /\ p \in owned /\ heap' = heap
      /\ live' = live /\ owned' = owned \ {p}
  BY DEF Free
<1>2. /\ pc[t] = "idle" /\ req[t].held = {}
      /\ req' = [req EXCEPT ![t] = r]
      /\ pc' = [pc EXCEPT ![t] = "check"]
      /\ log' = log /\ scratch' = scratch
      /\ pc \in [Threads -> PCs]
      /\ req \in [Threads -> RequestType]
      /\ scratch \in [Threads -> SUBSET Addr]
      /\ heap \in [Addr -> Sizes \cup {NoBlock}]
      /\ live \in [Addr -> Nat]
  BY <1>1, BeginFacts
<1>3. r.held = {p} /\ r.type = "FREE" /\ r.ptr = p
  BY DEF Request
<1> HIDE DEF r
<1>5. OwnersDisjoint'
  BY <1>1, <1>2, <1>3 DEF IInv, BlockInv, OwnersDisjoint
<1>6. LiveIsTrue' /\ ScratchUnlogged'
  BY <1>1, <1>2, <1>3 DEF IInv, BlockInv, LiveIsTrue, ScratchUnlogged,
     OwnersDisjoint, Released
<1>7. InFlight'
  <2>1. /\ pc'[t] = "check" /\ req'[t] = r
        /\ \A u \in Threads : u # t => pc'[u] = pc[u] /\ req'[u] = req[u]
    BY <1>2
  <2>2. \A u \in Threads : u # t => \A x \in req[u].held :
            heap'[x] = heap[x] /\ live'[x] = live[x]
    BY <1>1, <1>2 DEF Released, RequestType, IInv, BlockInv, OwnersDisjoint
  <2> QED  BY <2>1, <2>2, <1>3 DEF IInv, BlockInv, InFlight
<1>8. LogInv'
  BY <1>1, <1>2, ForgetKeepsLog
<1> QED  BY <1>5, <1>6, <1>7, <1>8 DEF BlockInv

LEMMA UnhookedAllocBlocks ==
    ASSUME IInv, NEW t \in Threads, NEW n \in Sizes, NEW a \in Addr,
           UnhookedAlloc(t, n, a)
    PROVE  BlockInv' /\ LogInv'
<1>1. /\ heap[a] = NoBlock /\ heap' = [heap EXCEPT ![a] = n]
      /\ owned' = owned \cup {a}
      /\ UNCHANGED <<log, live, scratch, pc, req>>
  BY DEF UnhookedAlloc
<1>2. /\ heap \in [Addr -> Sizes \cup {NoBlock}] /\ n # NoBlock
      /\ req \in [Threads -> RequestType] /\ scratch \in [Threads -> SUBSET Addr]
  BY EventsAssumption DEF IInv, TypeOK, HeapTypeOK, CallTypeOK, NoBlock
<1>3. OwnersDisjoint'
  BY <1>1, <1>2 DEF IInv, BlockInv, OwnersDisjoint
<1>4. LiveIsTrue' /\ ScratchUnlogged'
  BY <1>1, <1>2 DEF IInv, BlockInv, LiveIsTrue, ScratchUnlogged
<1>5. InFlight'
  BY <1>1, <1>2 DEF IInv, BlockInv, InFlight, OwnersDisjoint
<1>6. LogInv'
  BY <1>1, ForgetKeepsLog
<1> QED  BY <1>3, <1>4, <1>5, <1>6 DEF BlockInv

-----------------------------------------------------------------------------
(* A hook the profiler calls itself is not recorded.                       *)
LEMMA SelfUnrecorded ==
    ASSUME IInv, NEW t \in Threads, SelfCalls(t)
    PROVE  ~WouldRecord(t)
BY DEF IInv, GuardBalance, TracingOff, SelfCalls, At, WouldRecord

LEMMA SelfBlocks ==
    ASSUME IInv, NEW t \in Threads, NEW a \in Addr,
           \/ \E n \in Sizes : SelfMalloc(t, n, a)
           \/ SelfFree(t, a)
    PROVE  BlockInv' /\ LogInv'
<1>1. UNCHANGED <<log, live, owned, pc, req>>
  <2>1. CASE \E n \in Sizes : SelfMalloc(t, n, a)
    BY <2>1, SelfUnrecorded DEF SelfMalloc, RecordAtOnce
  <2>2. CASE SelfFree(t, a)
    BY <2>2, SelfUnrecorded DEF SelfFree, RecordAtOnce
  <2> QED  BY <2>1, <2>2
<1>2. /\ heap \in [Addr -> Sizes \cup {NoBlock}]
      /\ \A n \in Sizes : n # NoBlock
      /\ req \in [Threads -> RequestType] /\ scratch \in [Threads -> SUBSET Addr]
  BY EventsAssumption DEF IInv, TypeOK, HeapTypeOK, CallTypeOK, NoBlock
<1>3. \/ \E n \in Sizes : /\ heap[a] = NoBlock /\ heap' = [heap EXCEPT ![a] = n]
                          /\ scratch[t] = {}
                          /\ scratch' = [scratch EXCEPT ![t] = {a}]
      \/ /\ a \in scratch[t] /\ heap' = [heap EXCEPT ![a] = NoBlock]
         /\ scratch' = [scratch EXCEPT ![t] = {}]
  BY DEF SelfMalloc, SelfFree
<1>4. OwnersDisjoint'
  <2>1. CASE heap[a] = NoBlock
    BY <2>1, <1>1, <1>2, <1>3 DEF IInv, BlockInv, OwnersDisjoint
  <2>2. CASE heap[a] # NoBlock
    BY <2>2, <1>1, <1>2, <1>3 DEF IInv, BlockInv, OwnersDisjoint
  <2> QED  BY <2>1, <2>2
<1>5. live[a] = NoStamp
  BY <1>3 DEF IInv, BlockInv, LiveIsTrue, ScratchUnlogged
<1>6. LiveIsTrue' /\ ScratchUnlogged'
  BY <1>1, <1>2, <1>3, <1>5 DEF IInv, BlockInv, LiveIsTrue, ScratchUnlogged
<1>7. InFlight'
  <2>1. \A u \in Threads : \A x \in req[u].held : heap'[x] = heap[x]
    BY <1>1, <1>2, <1>3 DEF RequestType, IInv, BlockInv, OwnersDisjoint
  <2> QED  BY <2>1, <1>1 DEF IInv, BlockInv, InFlight
<1>8. LogInv'
  BY <1>1, ForgetKeepsLog
<1> QED  BY <1>4, <1>6, <1>7, <1>8 DEF BlockInv

LEMMA ThrowBlocks ==
    ASSUME IInv, NEW t \in Threads, UnwindThrows(t) \/ PushThrows(t)
    PROVE  BlockInv' /\ LogInv'
<1> DEFINE back == IF req[t].ptr = Null THEN req[t].held ELSE {}
<1>1. /\ req' = [req EXCEPT ![t] = NoRequest]
      /\ owned' = owned \cup scratch[t] \cup back
      /\ scratch' = [scratch EXCEPT ![t] = {}]
      /\ pc' = [pc EXCEPT ![t] = "idle"]
      /\ UNCHANGED <<log, live, heap>>
  BY DEF UnwindThrows, PushThrows, ThrowOut, Goto
<1>2. /\ req \in [Threads -> RequestType] /\ scratch \in [Threads -> SUBSET Addr]
      /\ pc \in [Threads -> PCs]
  BY DEF IInv, TypeOK, HeapTypeOK, CallTypeOK
<1>3. back \subseteq req[t].held /\ NoRequest.held = {}
  BY DEF NoRequest, Request
<1> HIDE DEF back
<1>4. OwnersDisjoint'
  BY <1>1, <1>2, <1>3 DEF IInv, BlockInv, OwnersDisjoint
<1>5. LiveIsTrue' /\ ScratchUnlogged'
  BY <1>1, <1>2 DEF IInv, BlockInv, LiveIsTrue, ScratchUnlogged
<1>6. InFlight'
  BY <1>1, <1>2 DEF IInv, BlockInv, InFlight, BeforeStamp
<1>7. LogInv'
  BY <1>1, ForgetKeepsLog
<1> QED  BY <1>4, <1>5, <1>6, <1>7 DEF BlockInv

-----------------------------------------------------------------------------
(* EVENT_COUNTER++ is the step of the abstract log.                        *)
LEMMA StampLogs ==
    ASSUME IInv, NEW t \in Threads, Stamp(t)
    PROVE  \/ /\ req[t].type = "ALLOC"
              /\ LogAlloc(t, req[t].size, req[t].ptr, req[t].hint)
              /\ req[t].size \in Sizes \cup {0}
              /\ req[t].ptr \in Ptr /\ req[t].hint \in Ptr
           \/ /\ req[t].type = "FREE"
              /\ LogFree(t, req[t].ptr, heap[req[t].ptr])
              /\ req[t].ptr \in Addr /\ heap[req[t].ptr] \in Sizes
<1>1. req[t] \in RequestType /\ pc[t] = "stamp"
  BY DEF IInv, TypeOK, CallTypeOK, Stamp, At
<1>2. CASE req[t].type = "FREE"
  <2>1. req[t].ptr \in Addr /\ heap[req[t].ptr] # NoBlock
    BY <1>1, <1>2 DEF IInv, BlockInv, InFlight, OwnersDisjoint
  <2>2. heap[req[t].ptr] \in Sizes
    BY <2>1 DEF IInv, TypeOK, HeapTypeOK
  <2>3. live[req[t].ptr] # NoStamp =>
            heap[req[t].ptr] = log[live[req[t].ptr]].size
    BY <2>1 DEF IInv, BlockInv, LiveIsTrue
  <2> QED  BY <1>2, <2>1, <2>2, <2>3 DEF Stamp, LogFree
<1>3. CASE req[t].type = "ALLOC"
  <2>1. req[t].ptr # Null => live[req[t].ptr] = NoStamp
    BY <1>1, <1>3 DEF IInv, BlockInv, InFlight, BeforeStamp
  <2> QED  BY <1>1, <1>3, <2>1 DEF Stamp, LogAlloc, RequestType
<1> QED  BY <1>1, <1>2, <1>3 DEF RequestType

LEMMA StampBlocks ==
    ASSUME IInv, NEW t \in Threads, Stamp(t)
    PROVE  BlockInv' /\ LogInv'
<1> DEFINE r == req[t]
<1>1. /\ req' = [req EXCEPT ![t].id = Len(log) + 1]
      /\ pc' = [pc EXCEPT ![t] = "push"]
      /\ UNCHANGED <<heap, owned, scratch>>
      /\ pc[t] = "stamp"
  BY DEF Stamp, Goto, heapVars, At
<1>2. /\ req \in [Threads -> RequestType] /\ pc \in [Threads -> PCs]
      /\ scratch \in [Threads -> SUBSET Addr]
      /\ log \in Seq(Event) /\ live \in [Addr -> Nat] /\ Len(log) \in Nat
  BY DEF IInv, TypeOK, HeapTypeOK, CallTypeOK, LogTypeOK
<1>3. LogInv'
  <2>1. LogNext
    BY StampLogs DEF LogNext
  <2> QED  BY <2>1, LogNextInv DEF IInv
<1>4. \A u \in Threads :
          /\ req'[u].held = req[u].held /\ req'[u].type = req[u].type
          /\ req'[u].ptr = req[u].ptr /\ req'[u].size = req[u].size
          /\ u # t => req'[u] = req[u] /\ pc'[u] = pc[u]
  BY <1>1, <1>2 DEF RequestType
<1>5. OwnersDisjoint'
  BY <1>1, <1>4 DEF IInv, BlockInv, OwnersDisjoint
<1>6. /\ \A a \in Addr : a # r.ptr => live'[a] = live[a]
      /\ \A i \in 1..Len(log) : log'[i] = log[i]
  <2>1. CASE r.type = "ALLOC"
    BY <2>1, <1>2, StampLogs DEF LogAlloc
  <2>2. CASE r.type = "FREE"
    BY <2>2, <1>2, StampLogs DEF LogFree
  <2> QED  BY <2>1, <2>2, StampLogs
<1>7. LiveIsTrue'
  <2> SUFFICES ASSUME NEW a \in Addr, live'[a] # NoStamp
               PROVE  heap[a] # NoBlock /\ log'[live'[a]].size = heap[a]
    BY <1>1 DEF LiveIsTrue
  <2>1. CASE a # r.ptr
    <3>1. live'[a] = live[a] /\ live[a] \in 1..Len(log)
      BY <1>6, <2>1 DEF IInv, LogInv, LiveIsLast
    <3> QED  BY <3>1, <1>6 DEF IInv, BlockInv, LiveIsTrue
  <2>2. CASE a = r.ptr /\ r.type = "ALLOC"
    <3>1. live'[a] = Len(log) + 1 /\ log'[Len(log) + 1].size = r.size
      <4>1. live'[a] = Len(log) + 1
        BY <2>2, StampLogs DEF LogAlloc
      <4>2. log' = Append(log, AllocEvent(t, r.size, r.ptr, r.hint))
        BY <2>2, StampLogs DEF LogAlloc
      <4>3. AllocEvent(t, r.size, r.ptr, r.hint) \in Event
        BY <2>2, StampLogs, EventTypes, EventsAssumption
      <4>4. log'[Len(log) + 1] = AllocEvent(t, r.size, r.ptr, r.hint)
        BY <1>2, <4>2, <4>3, AppendFacts
      <4> QED  BY <4>1, <4>4 DEF AllocEvent
    <3>2. a # Null /\ a \in r.held /\ heap[a] = r.size
      BY <2>2, <1>1, EventsAssumption DEF IInv, BlockInv, InFlight, BeforeStamp
    <3> QED  BY <3>1, <3>2 DEF IInv, BlockInv, OwnersDisjoint
  <2>3. CASE a = r.ptr /\ r.type = "FREE"
    BY <2>3, <1>2, StampLogs DEF LogFree
  <2> QED  BY <2>1, <2>2, <2>3, StampLogs
<1>8. \A u \in Threads : u # t => r.ptr \notin req[u].held
                                  \/ r.ptr \notin r.held
  BY <1>2 DEF IInv, BlockInv, OwnersDisjoint, RequestType
<1>9. r.ptr \in Addr => r.ptr \in r.held
  BY <1>1, StampLogs, EventsAssumption DEF IInv, BlockInv, InFlight, BeforeStamp
<1>10. ScratchUnlogged'
  BY <1>1, <1>2, <1>6, <1>9 DEF IInv, BlockInv, ScratchUnlogged, OwnersDisjoint
<1>11. InFlight'
  <2> SUFFICES ASSUME NEW u \in Threads
               PROVE  /\ pc'[u] = "idle" => req'[u] = NoRequest
                      /\ (pc'[u] # "idle" /\ req'[u].type = "FREE") =>
                             req'[u].ptr \in Addr /\ req'[u].ptr \in req'[u].held
                      /\ (pc'[u] \in BeforeStamp /\ req'[u].type = "ALLOC"
                              /\ req'[u].ptr # Null) =>
                             /\ req'[u].ptr \in req'[u].held
                             /\ live'[req'[u].ptr] = NoStamp
                             /\ heap'[req'[u].ptr] = req'[u].size
    BY DEF InFlight
  <2>1. CASE u = t
    BY <2>1, <1>1, <1>2, <1>4 DEF IInv, BlockInv, InFlight, BeforeStamp
  <2>2. CASE u # t
    <3>1. req'[u] = req[u] /\ pc'[u] = pc[u] /\ req[u].held \subseteq Addr
      BY <2>2, <1>2, <1>4 DEF RequestType
    <3>2. \A x \in req[u].held : live'[x] = live[x]
      BY <2>2, <3>1, <1>6, <1>8, <1>9
    <3> QED  BY <3>1, <3>2, <1>1 DEF IInv, BlockInv, InFlight
  <2> QED  BY <2>1, <2>2
<1> QED  BY <1>3, <1>5, <1>7, <1>10, <1>11 DEF BlockInv

LEMMA FinishBlocks ==
    ASSUME IInv, NEW t \in Threads, Finish(t)
    PROVE  BlockInv' /\ LogInv'
<1>1. /\ req' = [req EXCEPT ![t] = NoRequest]
      /\ pc' = [pc EXCEPT ![t] = "idle"]
      /\ UNCHANGED <<log, scratch>>
      /\ pc[t] = "finish"
  BY DEF Finish, Goto, At
<1>2. /\ req \in [Threads -> RequestType] /\ pc \in [Threads -> PCs]
      /\ scratch \in [Threads -> SUBSET Addr]
      /\ heap \in [Addr -> Sizes \cup {NoBlock}] /\ live \in [Addr -> Nat]
  BY DEF IInv, TypeOK, HeapTypeOK, CallTypeOK, LogTypeOK
<1>3. NoRequest.held = {}
  BY DEF NoRequest, Request
<1>4. CASE req[t].type = "FREE"
  <2> DEFINE p == req[t].ptr
  <2>1. /\ heap' = [heap EXCEPT ![p] = NoBlock] /\ Released({p}) /\ owned' = owned
        /\ p \in Addr /\ p \in req[t].held
    BY <1>4, <1>1 DEF Finish, IInv, BlockInv, InFlight
  <2> HIDE DEF p
  <2>2. OwnersDisjoint'
    BY <1>1, <1>2, <1>3, <2>1 DEF IInv, BlockInv, OwnersDisjoint
  <2>3. /\ \A x \in Addr : x # p => heap'[x] = heap[x] /\ live'[x] = live[x]
        /\ live'[p] = NoStamp
    BY <1>2, <2>1 DEF Released
  <2>4. LiveIsTrue' /\ ScratchUnlogged'
    BY <1>1, <1>2, <2>1, <2>3 DEF IInv, BlockInv, LiveIsTrue, ScratchUnlogged
  <2>5. \A u \in Threads : u # t =>
            /\ req'[u] = req[u] /\ pc'[u] = pc[u]
            /\ \A x \in req[u].held : heap'[x] = heap[x] /\ live'[x] = live[x]
    BY <1>1, <1>2, <2>1, <2>3 DEF RequestType, IInv, BlockInv, OwnersDisjoint
  <2>6. pc'[t] = "idle" /\ req'[t] = NoRequest
    BY <1>1, <1>2
  <2>7. InFlight'
    BY <2>5, <2>6 DEF IInv, BlockInv, InFlight, BeforeStamp
  <2>8. LogInv'
    BY <1>1, <2>1, ForgetKeepsLog
  <2> QED  BY <2>2, <2>4, <2>7, <2>8 DEF BlockInv
<1>5. CASE req[t].type # "FREE"
  <2>1. UNCHANGED <<heap, live>> /\ owned' = owned \cup req[t].held
    BY <1>5 DEF Finish
  <2>2. OwnersDisjoint'
    BY <1>1, <1>2, <1>3, <2>1 DEF IInv, BlockInv, OwnersDisjoint
  <2>3. LiveIsTrue' /\ ScratchUnlogged'
    BY <1>1, <2>1 DEF IInv, BlockInv, LiveIsTrue, ScratchUnlogged
  <2>4. InFlight'
    BY <1>1, <1>2, <2>1 DEF IInv, BlockInv, InFlight, BeforeStamp
  <2>5. LogInv'
    BY <1>1, <2>1, ForgetKeepsLog
  <2> QED  BY <2>2, <2>3, <2>4, <2>5 DEF BlockInv
<1> QED  BY <1>4, <1>5

-----------------------------------------------------------------------------
LEMMA ProgramBlocks ==
    ASSUME IInv, NEW t \in Threads, ProgramStep(t)
    PROVE  BlockInv' /\ LogInv'
BY MallocBlocks, MallocFailsBlocks, ReallocInPlaceBlocks, ReallocMovesBlocks,
   ReallocFailsBlocks, ReallocToZeroBlocks, FreeBlocks, UnhookedAllocBlocks
   DEF ProgramStep

LEMMA NextBlocks ==
    ASSUME IInv, [Next]_vars
    PROVE  BlockInv' /\ LogInv'
<1>1. ASSUME NEW t \in Threads, ProgramStep(t) PROVE BlockInv' /\ LogInv'
  BY <1>1, ProgramBlocks
<1>2. ASSUME NEW t \in Threads, HookStep(t) PROVE BlockInv' /\ LogInv'
  BY <1>2, QuietStepBlocks, StampBlocks, FinishBlocks DEF HookStep, QuietStep
<1>3. ASSUME NEW t \in Threads, FaultStep(t) PROVE BlockInv' /\ LogInv'
  BY <1>3, QuietStepBlocks, ThrowBlocks DEF FaultStep, QuietStep
<1>4. ASSUME NEW t \in Threads, SelfStep(t) PROVE BlockInv' /\ LogInv'
  BY <1>4, SelfBlocks DEF SelfStep
<1>5. CASE QuietExit
  BY <1>5, QuietExitBlocks
<1>6. CASE UNCHANGED vars
  BY <1>6, QuietBlocks DEF QuietVars, vars, heapVars
<1> QED  BY <1>1, <1>2, <1>3, <1>4, <1>5, <1>6 DEF Next, QuietExit

LEMMA NextGuards ==
    ASSUME IInv, [Next]_vars
    PROVE  GuardBalance' /\ TracingOff'
<1> USE DEF IInv, TypeOK, CtxTypeOK, CallTypeOK
<1>1. ASSUME NEW t \in Threads, ProgramStep(t)
      PROVE  GuardBalance' /\ TracingOff'
  <2>1. /\ UNCHANGED <<nest, tracing, phase>>
        /\ pc' = pc \/ (pc[t] = "idle" /\ pc' = [pc EXCEPT ![t] = "check"])
    BY <1>1 DEF ProgramStep, Malloc, MallocFails, ReallocInPlace, ReallocMoves,
       ReallocFails, ReallocToZero, Free, UnhookedAlloc, Begin, Goto, MayCall,
       InProgram, ctxVars, exitVars
  <2> QED  BY <2>1 DEF GuardBalance, TracingOff
<1>2. ASSUME NEW t \in Threads, HookStep(t)
      PROVE  GuardBalance' /\ TracingOff'
  <2>1. UNCHANGED <<tracing, phase>>
    BY <1>2 DEF HookStep, CheckTracing, NewContextLocks, NewContextPublishes,
       EnterGuard, Unwind, Stamp, Push, Finish, exitVars
  <2>2. CASE CheckTracing(t) \/ NewContextLocks(t) \/ NewContextPublishes(t)
    BY <2>1, <2>2 DEF CheckTracing, NewContextLocks, NewContextPublishes, At, Goto,
       ctxVars, GuardBalance, TracingOff
  <2>3. CASE EnterGuard(t) \/ Push(t)
    <3>1. \/ /\ nest[t] = 0 /\ nest' = [nest EXCEPT ![t] = 1]
             /\ pc' = [pc EXCEPT ![t] = "unwind"]
          \/ /\ nest' = nest /\ pc[t] = "context"
             /\ pc' = [pc EXCEPT ![t] = "finish"]
          \/ /\ nest[t] = 1 /\ nest' = [nest EXCEPT ![t] = nest[t] - 1]
             /\ pc' = [pc EXCEPT ![t] = "finish"]
      BY <2>3 DEF EnterGuard, Push, At, Goto, GuardBalance
    <3>2. GuardBalance'
      BY <3>1 DEF GuardBalance
    <3> QED  BY <2>1, <3>2 DEF TracingOff
  <2>4. CASE Unwind(t) \/ Stamp(t) \/ Finish(t)
    BY <2>1, <2>4 DEF Unwind, Stamp, Finish, At, Goto, ctxVars, GuardBalance,
       TracingOff
  <2> QED  BY <1>2, <2>2, <2>3, <2>4 DEF HookStep
<1>3. ASSUME NEW t \in Threads, FaultStep(t)
      PROVE  GuardBalance' /\ TracingOff'
  <2>1. CASE UnwindThrows(t) \/ PushThrows(t)
    <3>1. /\ UNCHANGED <<tracing, phase>>
          /\ nest[t] = 1 /\ nest' = [nest EXCEPT ![t] = nest[t] - 1]
          /\ pc' = [pc EXCEPT ![t] = "idle"]
      BY <2>1 DEF UnwindThrows, PushThrows, ThrowOut, At, Goto, exitVars,
         GuardBalance
    <3>2. GuardBalance'
      BY <3>1 DEF GuardBalance
    <3> QED  BY <3>1, <3>2 DEF TracingOff
  <2>2. CASE NewContextFails(t) \/ ThrowTerminates(t) \/ UndefinedCrash(t)
    BY <2>2 DEF NewContextFails, ThrowTerminates, UndefinedCrash, ctxVars,
       GuardBalance, TracingOff
  <2>3. CASE UndefinedNest(t)
    BY <2>3 DEF UndefinedNest, At, Goto, ctxVars, exitVars, GuardBalance, TracingOff
  <2> QED  BY <1>3, <2>1, <2>2, <2>3 DEF FaultStep
<1>4. ASSUME NEW t \in Threads, SelfStep(t)
      PROVE  GuardBalance' /\ TracingOff'
  BY <1>4 DEF SelfStep, SelfMalloc, SelfFree, exitVars, GuardBalance, TracingOff
<1>5. CASE QuietExit
  <2>1. UNCHANGED <<pc, nest>>
    BY <1>5 DEF QuietExit, Exit, ExitStep, ReportLocks, DrainMoves, DrainClears,
       DrainEnds, Dump, Destroy, DumpFails, ProcessEnds, Terminated, ctxVars, vars
  <2>2. TracingOff'
    <3>1. CASE ~tracing'
      BY <3>1 DEF TracingOff
    <3>2. CASE tracing'
      BY <1>5, <3>2 DEF QuietExit, Exit, ExitStep, ReportLocks, DrainMoves,
         DrainClears, DrainEnds, Dump, Destroy, DumpFails, ProcessEnds,
         Terminated, vars, exitVars, TracingOff
    <3> QED  BY <3>1, <3>2
  <2> QED  BY <2>1, <2>2 DEF GuardBalance
<1>6. CASE UNCHANGED vars
  BY <1>6 DEF vars, ctxVars, exitVars, GuardBalance, TracingOff
<1> QED  BY <1>1, <1>2, <1>3, <1>4, <1>5, <1>6 DEF Next, QuietExit

-----------------------------------------------------------------------------
(* Type correctness of one step, one group of variables at a time.         *)
LEMMA RequestTypes ==
    /\ \A ty \in {"ALLOC", "FREE"}, n \in Sizes \cup {0}, p, h \in Ptr,
          hs \in SUBSET Addr : Request(ty, n, p, h, hs) \in RequestType
    /\ NoRequest \in RequestType
    /\ Addr \subseteq Ptr /\ Null \in Ptr
BY DEF Request, NoRequest, RequestType, NoStamp, Ptr

LEMMA ProgramTypes ==
    ASSUME TypeOK, NEW t \in Threads, ProgramStep(t)
    PROVE  CtxTypeOK' /\ HeapTypeOK' /\ CallTypeOK' /\ ExitTypeOK'
<1>1. CtxTypeOK' /\ ExitTypeOK'
  <2>1. UNCHANGED <<tracing, lock, ctxVars, exitVars>>
    BY DEF ProgramStep, Malloc, MallocFails, ReallocInPlace, ReallocMoves,
       ReallocFails, ReallocToZero, Free, UnhookedAlloc, Begin
  <2> QED  BY <2>1 DEF TypeOK, CtxTypeOK, ExitTypeOK, ctxVars, exitVars
<1>2. HeapTypeOK'
  <2>1. /\ heap \in [Addr -> Sizes \cup {NoBlock}] /\ owned \in SUBSET Addr
        /\ scratch \in [Threads -> SUBSET Addr]
    BY DEF TypeOK, HeapTypeOK
  <2>2. scratch' = scratch
    BY DEF ProgramStep, Malloc, MallocFails, ReallocInPlace, ReallocMoves,
       ReallocFails, ReallocToZero, Free, UnhookedAlloc, Begin
  <2>3. owned' \in SUBSET Addr
    BY <2>1 DEF ProgramStep, Malloc, MallocFails, ReallocInPlace, ReallocMoves,
       ReallocFails, ReallocToZero, Free, UnhookedAlloc
  <2>4. \/ heap' = heap
        \/ \E x \in Addr, n \in Sizes \cup {NoBlock} : heap' = [heap EXCEPT ![x] = n]
        \/ \E x, y \in Addr, n \in Sizes :
               heap' = [heap EXCEPT ![x] = NoBlock, ![y] = n]
    BY DEF ProgramStep, Malloc, MallocFails, ReallocInPlace, ReallocMoves,
       ReallocFails, ReallocToZero, Free, UnhookedAlloc
  <2>5. heap' \in [Addr -> Sizes \cup {NoBlock}]
    BY <2>1, <2>4
  <2> QED  BY <2>1, <2>2, <2>3, <2>5 DEF HeapTypeOK
<1>3. CallTypeOK'
  <2> DEFINE Began == /\ pc' = [pc EXCEPT ![t] = "check"]
                      /\ \E r \in RequestType : req' = [req EXCEPT ![t] = r]
                      /\ UNCHANGED history
  <2>1. ASSUME NEW n \in Sizes, NEW a \in Addr, Malloc(t, n, a) PROVE Began
    BY <2>1, RequestTypes DEF Malloc, Begin, Goto
  <2>2. ASSUME NEW n \in Sizes, MallocFails(t, n) PROVE Began
    BY <2>2, RequestTypes DEF MallocFails, Begin, Goto
  <2>3. ASSUME NEW h \in Addr, NEW n \in Sizes, ReallocInPlace(t, h, n) PROVE Began
    BY <2>3, RequestTypes DEF ReallocInPlace, Begin, Goto
  <2>4. ASSUME NEW h \in Addr, NEW a \in Addr, NEW n \in Sizes,
               ReallocMoves(t, h, n, a)
        PROVE  Began
    BY <2>4, RequestTypes DEF ReallocMoves, Begin, Goto
  <2>5. ASSUME NEW h \in Addr, NEW n \in Sizes, ReallocFails(t, h, n) PROVE Began
    BY <2>5, RequestTypes DEF ReallocFails, Begin, Goto
  <2>6. ASSUME NEW h \in Addr, ReallocToZero(t, h) PROVE Began
    BY <2>6, RequestTypes DEF ReallocToZero, Begin, Goto
  <2>7. ASSUME NEW p \in Addr, Free(t, p) PROVE Began
    BY <2>7, RequestTypes DEF Free, Begin, Goto
  <2>8. ASSUME NEW n \in Sizes, NEW a \in Addr, UnhookedAlloc(t, n, a)
        PROVE  UNCHANGED <<pc, req, history>>
    BY <2>8 DEF UnhookedAlloc
  <2>9. Began \/ UNCHANGED <<pc, req, history>>
    BY <2>1, <2>2, <2>3, <2>4, <2>5, <2>6, <2>7, <2>8 DEF ProgramStep
  <2> QED  BY <2>9 DEF TypeOK, CallTypeOK, history, PCs
<1> QED  BY <1>1, <1>2, <1>3

LEMMA HookTypes ==
    ASSUME IInv, NEW t \in Threads, HookStep(t) \/ FaultStep(t) \/ SelfStep(t)
    PROVE  CtxTypeOK' /\ HeapTypeOK' /\ CallTypeOK' /\ ExitTypeOK'
<1> USE DEF HookStep, FaultStep, SelfStep
<1>1. /\ req[t] \in RequestType /\ req[t].id \in Nat /\ req[t].held \subseteq Addr
      /\ Len(log) \in Nat
      /\ CtxTypeOK /\ HeapTypeOK /\ CallTypeOK /\ ExitTypeOK
  BY DEF IInv, TypeOK, CallTypeOK, LogTypeOK, RequestType
<1>2. CtxTypeOK'
  <2>1. CASE SelfStep(t)
    BY <1>1, <2>1, SelfUnrecorded DEF SelfMalloc, SelfFree, RecordAtOnce, CtxTypeOK
  <2>2. CASE NewContextLocks(t) \/ NewContextPublishes(t) \/ EnterGuard(t)
    <3>1. CASE NewContextLocks(t)
      BY <1>1, <3>1 DEF NewContextLocks, CtxTypeOK, ctxVars
    <3>2. CASE NewContextPublishes(t)
      BY <1>1, <3>2 DEF NewContextPublishes, CtxTypeOK
    <3>3. CASE EnterGuard(t)
      BY <1>1, <3>3 DEF EnterGuard, CtxTypeOK
    <3> QED  BY <2>2, <3>1, <3>2, <3>3
  <2>3. CASE Push(t) \/ PushThrows(t)
    <3>1. total' \in [Threads -> Nat]
      BY <1>1, <2>3 DEF Push, PushThrows, CountAlloc, CtxTypeOK
    <3>2. nest' \in [Threads -> Int]
      BY <1>1, <2>3 DEF Push, PushThrows, ThrowOut, CtxTypeOK
    <3>3. events' \in [Threads -> Seq(Nat)]
      <4>1. events[t] \in Seq(Nat) /\ events \in [Threads -> Seq(Nat)]
        BY <1>1 DEF CtxTypeOK
      <4>2. Append(events[t], req[t].id) \in Seq(Nat)
        BY <1>1, <4>1
      <4> QED  BY <2>3, <4>1, <4>2 DEF Push, PushThrows
    <3>4. UNCHANGED <<tracing, lock, counters>>
      BY <2>3 DEF Push, PushThrows
    <3> QED  BY <1>1, <3>1, <3>2, <3>3, <3>4 DEF CtxTypeOK
  <2>4. CASE CheckTracing(t) \/ Unwind(t) \/ Stamp(t) \/ Finish(t)
    BY <1>1, <2>4 DEF CheckTracing, Unwind, Stamp, Finish, CtxTypeOK, ctxVars
  <2>5. CASE UnwindThrows(t) \/ NewContextFails(t) \/ ThrowTerminates(t)
             \/ UndefinedCrash(t) \/ UndefinedNest(t)
    BY <1>1, <2>5 DEF UnwindThrows, ThrowOut, NewContextFails, ThrowTerminates,
       UndefinedCrash, UndefinedNest, CtxTypeOK, ctxVars
  <2> QED  BY <2>1, <2>2, <2>3, <2>4, <2>5
<1>3. HeapTypeOK'
  <2>1. CASE UNCHANGED heapVars
    BY <1>1, <2>1 DEF heapVars, HeapTypeOK
  <2>2. CASE SelfStep(t)
    BY <1>1, <2>2 DEF SelfMalloc, SelfFree, HeapTypeOK
  <2>3. CASE Finish(t)
    BY <1>1, <2>3 DEF Finish, HeapTypeOK
  <2>4. CASE UnwindThrows(t) \/ PushThrows(t)
    BY <1>1, <2>4 DEF UnwindThrows, PushThrows, ThrowOut, HeapTypeOK
  <2> QED
    BY <2>1, <2>2, <2>3, <2>4 DEF CheckTracing, NewContextLocks,
       NewContextPublishes, EnterGuard, Unwind, Stamp, Push, NewContextFails,
       ThrowTerminates, UndefinedCrash, UndefinedNest
<1>4. CallTypeOK'
  <2>1. /\ pc \in [Threads -> PCs] /\ req \in [Threads -> RequestType]
        /\ calls \in [Threads -> Nat] /\ dropped \in SUBSET Nat
    BY <1>1 DEF CallTypeOK
  <2>2. pc' \in [Threads -> PCs]
    <3>1. pc' = pc \/ \E w \in PCs : pc' = [pc EXCEPT ![t] = w]
      BY DEF CheckTracing, NewContextLocks, NewContextPublishes, EnterGuard, Unwind,
         Stamp, Push, Finish, UnwindThrows, PushThrows, ThrowOut, NewContextFails,
         ThrowTerminates, UndefinedCrash, UndefinedNest, SelfMalloc, SelfFree,
         Goto, PCs
    <3> QED  BY <2>1, <3>1
  <2>3. req' \in [Threads -> RequestType]
    <3>1. CASE Stamp(t)
      <4>1. [req[t] EXCEPT !.id = Len(log) + 1] \in RequestType
        BY <1>1 DEF RequestType
      <4> QED  BY <2>1, <3>1, <4>1 DEF Stamp
    <3>2. CASE Finish(t) \/ UnwindThrows(t) \/ PushThrows(t)
      BY <2>1, <3>2, RequestTypes DEF Finish, UnwindThrows, PushThrows, ThrowOut
    <3>3. CASE UNCHANGED req
      BY <2>1, <3>3
    <3> QED
      BY <3>1, <3>2, <3>3 DEF CheckTracing, NewContextLocks, NewContextPublishes,
         EnterGuard, Unwind, Push, NewContextFails, ThrowTerminates,
         UndefinedCrash, UndefinedNest, SelfMalloc, SelfFree
  <2>4. calls' \in [Threads -> Nat] /\ dropped' \in SUBSET Nat
    <3>1. CASE Finish(t)
      BY <2>1, <3>1 DEF Finish
    <3>2. CASE PushThrows(t)
      BY <1>1, <2>1, <3>2 DEF PushThrows
    <3>3. CASE UNCHANGED history
      BY <2>1, <3>3 DEF history
    <3> QED
      BY <3>1, <3>2, <3>3 DEF CheckTracing, NewContextLocks, NewContextPublishes,
         EnterGuard, Unwind, Stamp, Push, UnwindThrows, NewContextFails,
         ThrowTerminates, UndefinedCrash, UndefinedNest, SelfMalloc, SelfFree
  <2> QED  BY <2>2, <2>3, <2>4 DEF CallTypeOK
<1>5. ExitTypeOK'
  <2>1. /\ UNCHANGED <<next, report>>
        /\ phase' = phase \/ phase' = "terminated"
    BY DEF CheckTracing, NewContextLocks, NewContextPublishes, EnterGuard, Unwind,
       Stamp, Push, Finish, UnwindThrows, PushThrows, NewContextFails,
       ThrowTerminates, UndefinedCrash, UndefinedNest, SelfMalloc, SelfFree,
       exitVars
  <2> QED  BY <1>1, <2>1 DEF ExitTypeOK, Phases
<1> QED  BY <1>2, <1>3, <1>4, <1>5

LEMMA ExitTypes ==
    ASSUME TypeOK, QuietExit \/ UNCHANGED vars
    PROVE  CtxTypeOK' /\ HeapTypeOK' /\ CallTypeOK' /\ ExitTypeOK'
<1> USE DEF QuietExit, ExitStep
<1>1. HeapTypeOK' /\ CallTypeOK'
  <2>1. UNCHANGED <<heapVars, pc, req, history>>
    BY DEF Exit, ReportLocks, DrainMoves, DrainClears, DrainEnds, Dump, Destroy,
       DumpFails, ProcessEnds, Terminated, vars
  <2> QED  BY <2>1 DEF TypeOK, HeapTypeOK, CallTypeOK, heapVars, history
<1>2. CtxTypeOK /\ ExitTypeOK
  BY DEF TypeOK
<1>3. CASE DrainMoves
  <2>1. counters[next] \in Threads
    BY <1>2, <1>3 DEF DrainMoves, CtxTypeOK, ExitTypeOK
  <2>2. /\ events[counters[next]] \in Seq(Nat) /\ total[counters[next]] \in Nat
        /\ report.events \in Seq(Nat) /\ report.total \in Nat
    BY <1>2, <2>1 DEF CtxTypeOK, ExitTypeOK
  <2>3. ExitTypeOK'
    BY <1>2, <1>3, <2>2 DEF DrainMoves, ExitTypeOK, Phases
  <2>4. CtxTypeOK'
    BY <1>2, <1>3 DEF DrainMoves, CtxTypeOK
  <2> QED  BY <1>1, <2>3, <2>4
<1>4. CASE DrainClears
  <2>1. << >> \in Seq(Nat)
    OBVIOUS
  <2>2. events' \in [Threads -> Seq(Nat)]
    BY <1>2, <1>4, <2>1 DEF DrainClears, CtxTypeOK
  <2>3. CtxTypeOK'
    BY <1>2, <1>4, <2>2 DEF DrainClears, CtxTypeOK
  <2>4. ExitTypeOK'
    BY <1>2, <1>4 DEF DrainClears, ExitTypeOK, Phases
  <2> QED  BY <1>1, <2>3, <2>4
<1>5. CASE Exit \/ ReportLocks \/ DrainEnds \/ Dump \/ Destroy \/ DumpFails
           \/ ProcessEnds
  BY <1>1, <1>2, <1>5, RuntimeAssumption DEF Exit, ReportLocks, DrainEnds, Dump,
     Destroy, DumpFails, ProcessEnds, CtxTypeOK, ExitTypeOK, ctxVars, Phases
<1>6. CASE Terminated \/ UNCHANGED vars
  BY <1>1, <1>2, <1>6 DEF Terminated, vars, CtxTypeOK, ExitTypeOK, ctxVars, exitVars
<1> QED  BY <1>3, <1>4, <1>5, <1>6

LEMMA NextInv == ASSUME IInv, [Next]_vars PROVE IInv'
<1>1. BlockInv' /\ LogInv'
  BY NextBlocks
<1>2. GuardBalance' /\ TracingOff'
  BY NextGuards
<1>3. LogTypeOK'
  BY <1>1 DEF LogInv
<1>4. CtxTypeOK' /\ HeapTypeOK' /\ CallTypeOK' /\ ExitTypeOK'
  BY ProgramTypes, HookTypes, ExitTypes DEF Next, QuietExit, IInv
<1>5. TypeOK'
  BY <1>3, <1>4 DEF TypeOK
<1> QED  BY <1>1, <1>2, <1>5 DEF IInv

THEOREM Invariant == Spec => []IInv
BY InitInv, NextInv, PTL DEF Spec

(* Every variable of the runtime keeps its type.                           *)
THEOREM RuntimeTypes == Spec => []TypeOK
<1>1. IInv => TypeOK
  BY DEF IInv
<1> QED  BY <1>1, Invariant, PTL

(* No block is ever held by two of: the program, a hook call in flight,    *)
(* the profiler; and none of them holds a block that has been released.    *)
THEOREM RuntimeOwners == Spec => []OwnersDisjoint
<1>1. IInv => OwnersDisjoint
  BY DEF IInv, BlockInv
<1> QED  BY <1>1, Invariant, PTL

(* What the log says is live is live, and has the size the log says.       *)
THEOREM RuntimeLive == Spec => []LiveIsTrue
<1>1. IInv => LiveIsTrue
  BY DEF IInv, BlockInv
<1> QED  BY <1>1, Invariant, PTL

(* Exceptions included, the guard is up exactly while a hook records.      *)
THEOREM RuntimeGuards == Spec => []GuardBalance
<1>1. IInv => GuardBalance
  BY DEF IInv
<1> QED  BY <1>1, Invariant, PTL

(* Every FREE of a recorded block is given that block's size.              *)
THEOREM RuntimeFreeSizes == Spec => []FreeSizes
<1>1. IInv => FreeSizes
  BY LogInvFreeSizes DEF IInv
<1> QED  BY <1>1, Invariant, PTL

-----------------------------------------------------------------------------
(* Each step of the runtime is a step of the abstract log or leaves it as  *)
(* it is: Stamp logs; realloc, and a free that was not recorded, forget.   *)
LEMMA NextRefines == ASSUME IInv, [Next]_vars PROVE [LogNext]_logVars
<1>1. ASSUME NEW h \in Addr, log' = log, Released({h}) PROVE LogNext
  BY <1>1 DEF LogNext, Forget
<1>2. ASSUME NEW t \in Threads, ProgramStep(t) PROVE [LogNext]_logVars
  BY <1>1, <1>2 DEF ProgramStep, Malloc, MallocFails, ReallocInPlace,
     ReallocMoves, ReallocFails, ReallocToZero, Free, UnhookedAlloc, Begin, logVars
<1>3. ASSUME NEW t \in Threads, HookStep(t) PROVE [LogNext]_logVars
  <2>1. CASE Stamp(t)
    BY <2>1, StampLogs DEF LogNext
  <2>2. CASE Finish(t)
    <3>1. req[t].type = "FREE" => req[t].ptr \in Addr
      BY <2>2 DEF Finish, At, IInv, BlockInv, InFlight
    <3> QED  BY <1>1, <2>2, <3>1 DEF Finish, logVars
  <2>3. CASE QuietStep(t)
    BY <2>3 DEF QuietStep, CheckTracing, NewContextLocks, NewContextPublishes,
       EnterGuard, Unwind, Push, NewContextFails, ThrowTerminates,
       UndefinedCrash, UndefinedNest, logVars
  <2> QED  BY <1>3, <2>1, <2>2, <2>3 DEF HookStep, QuietStep
<1>4. ASSUME NEW t \in Threads, FaultStep(t) PROVE [LogNext]_logVars
  BY <1>4 DEF FaultStep, NewContextFails, UnwindThrows, PushThrows,
     ThrowTerminates, UndefinedCrash, UndefinedNest, logVars
<1>5. ASSUME NEW t \in Threads, SelfStep(t) PROVE [LogNext]_logVars
  BY <1>5, SelfUnrecorded DEF SelfStep, SelfMalloc, SelfFree, RecordAtOnce, logVars
<1>6. CASE QuietExit \/ UNCHANGED vars
  BY <1>6 DEF QuietExit, Exit, ExitStep, ReportLocks, DrainMoves, DrainClears,
     DrainEnds, Dump, Destroy, DumpFails, ProcessEnds, Terminated, vars, logVars
<1> QED  BY <1>2, <1>3, <1>4, <1>5, <1>6 DEF Next, QuietExit

(* The hooks of all threads, however they interleave, fail or throw, write *)
(* one log that EventLog allows.                                           *)
THEOREM RuntimeRefinesLog == Spec => LogSpec
<1>1. Init => LogInit
  BY DEF Init
<1> QED  BY <1>1, NextRefines, Invariant, PTL DEF Spec, LogSpec

-----------------------------------------------------------------------------
(* Main is in no hook while it is in the destructor of GLOBAL_CONTEXT, and *)
(* a thread that publishes its context holds the lock, as Main does from   *)
(* the first drain to the end of the dump.                                 *)
Exiting == {"lock", "drain", "clear", "dump", "destroy"}
Locked  == {"drain", "clear", "dump"}

LockInv ==
    /\ phase \in Exiting => pc[Main] = "idle"
    /\ phase \in Locked => lock = Main
    /\ \A t \in Threads : (pc[t] = "register" /\ ~Over) => lock = t

LEMMA LockInit == ASSUME Init PROVE LockInv
BY DEF Init, LockInv, Exiting, Locked

LEMMA LockNext ==
    ASSUME IInv, LockInv, [Next]_vars
    PROVE  LockInv' /\ (phase \in Locked => counters' = counters)
<1> DEFINE Goal == LockInv' /\ (phase \in Locked => counters' = counters)
<1>1. /\ pc \in [Threads -> PCs] /\ Main \in Threads
      /\ NoThread \notin Threads
  BY RuntimeAssumption DEF IInv, TypeOK, CallTypeOK
<1>2. ASSUME NEW t \in Threads, ProgramStep(t) PROVE Goal
  <2>1. /\ UNCHANGED <<lock, phase, counters>>
        /\ \/ pc' = pc
           \/ InProgram(t) /\ pc' = [pc EXCEPT ![t] = "check"]
    BY <1>2 DEF ProgramStep, Malloc, MallocFails, ReallocInPlace, ReallocMoves,
       ReallocFails, ReallocToZero, Free, UnhookedAlloc, Begin, Goto, MayCall,
       ctxVars, exitVars
  <2> QED  BY <1>1, <2>1 DEF LockInv, Over, Exiting, Locked, InProgram
<1>3. ASSUME NEW t \in Threads, HookStep(t) \/ FaultStep(t) PROVE Goal
  <2>1. CASE NewContextLocks(t)
    BY <1>1, <2>1 DEF NewContextLocks, At, Goto, LockInv, Over, Exiting, Locked,
       ctxVars, exitVars
  <2>2. CASE NewContextPublishes(t)
    <3>1. lock = t /\ pc[t] = "register" /\ ~Over
      BY <2>2 DEF NewContextPublishes, At, LockInv
    <3>2. phase \notin Locked
      BY <3>1 DEF LockInv, Exiting, Locked
    <3>3. \A u \in Threads : (u # t /\ ~Over) => pc[u] # "register"
      BY <3>1 DEF LockInv
    <3> QED  BY <1>1, <2>2, <3>1, <3>2, <3>3 DEF NewContextPublishes, Goto, LockInv,
             Over, Exiting, Locked, exitVars
  <2>3. CASE NewContextFails(t) \/ ThrowTerminates(t) \/ UndefinedCrash(t)
    BY <1>1, <2>3 DEF NewContextFails, ThrowTerminates, UndefinedCrash, LockInv,
       Over, Exiting, Locked, ctxVars
  <2>4. CASE CheckTracing(t) \/ EnterGuard(t) \/ Unwind(t) \/ Stamp(t) \/ Push(t)
             \/ Finish(t) \/ UnwindThrows(t) \/ PushThrows(t) \/ UndefinedNest(t)
    <3>1. /\ UNCHANGED <<lock, phase, counters>>
          /\ pc[t] # "idle"
          /\ \E w \in PCs \ {"register"} : pc' = [pc EXCEPT ![t] = w]
      BY <2>4 DEF CheckTracing, EnterGuard, Unwind, Stamp, Push, Finish,
         UnwindThrows, PushThrows, ThrowOut, UndefinedNest, At, Goto, PCs, ctxVars,
         exitVars
    <3> QED  BY <1>1, <3>1 DEF LockInv, Over, Exiting, Locked
  <2> QED  BY <1>3, <2>1, <2>2, <2>3, <2>4 DEF HookStep, FaultStep
<1>4. ASSUME NEW t \in Threads, SelfStep(t) PROVE Goal
  BY <1>4 DEF SelfStep, SelfMalloc, SelfFree, LockInv, Over, Exiting, Locked,
     exitVars
<1>5. CASE QuietExit
  <2>1. UNCHANGED <<pc, counters>>
    BY <1>5 DEF QuietExit, Exit, ExitStep, ReportLocks, DrainMoves, DrainClears,
       DrainEnds, Dump, Destroy, DumpFails, ProcessEnds, Terminated, ctxVars, vars
  <2>2. CASE Exit
    BY <1>1, <2>1, <2>2 DEF Exit, InCall, LockInv, Over, Exiting, Locked
  <2>3. CASE ReportLocks
    <3>1. \A t \in Threads : pc[t] = "register" => lock = t
      BY <2>3 DEF ReportLocks, LockInv, Over
    <3>2. \A t \in Threads : pc[t] # "register"
      BY <1>1, <2>3, <3>1 DEF ReportLocks
    <3> QED
      BY <1>1, <2>1, <2>3, <3>2 DEF ReportLocks, LockInv, Over, Exiting, Locked
  <2>4. CASE DrainMoves \/ DrainClears \/ DrainEnds
    BY <2>1, <2>4 DEF DrainMoves, DrainClears, DrainEnds, LockInv, Over, Exiting,
       Locked
  <2>5. CASE Dump
    BY <1>1, <2>1, <2>5 DEF Dump, LockInv, Over, Exiting, Locked
  <2>6. CASE Destroy \/ DumpFails \/ ProcessEnds
    BY <2>1, <2>6 DEF Destroy, DumpFails, ProcessEnds, LockInv, Over, Exiting, Locked
  <2>7. CASE Terminated
    BY <2>7 DEF Terminated, vars, ctxVars, exitVars, LockInv, Over
  <2> QED  BY <1>5, <2>2, <2>3, <2>4, <2>5, <2>6, <2>7 DEF QuietExit, ExitStep
<1>6. CASE UNCHANGED vars
  BY <1>6 DEF vars, ctxVars, exitVars, LockInv, Over
<1> QED  BY <1>2, <1>3, <1>4, <1>5, <1>6 DEF Next, QuietExit

(* context_lock keeps every thread, detached ones included, from adding a  *)
(* context to counters while generate_report walks it.                     *)
THEOREM RuntimeDrainLocked == Spec => NoRegistrationWhileDraining
<1>1. LockInv /\ IInv /\ [Next]_vars
          => [(phase \in {"drain", "clear", "dump"}) => counters' = counters]_vars
  BY LockNext DEF Locked
<1>2. Spec => []LockInv
  <2>1. IInv /\ LockInv /\ [Next]_vars => LockInv'
    BY LockNext
  <2> QED  BY <2>1, LockInit, Invariant, PTL DEF Spec
<1> QED  BY <1>1, <1>2, Invariant, PTL DEF Spec, NoRegistrationWhileDraining

-----------------------------------------------------------------------------
(* From the check of tracing_enabled to the place in the log.              *)
Recording == {"context", "register", "unwind", "stamp"}

(* Every allocation logged at a is followed by the FREE that released it.  *)
Closed(a) ==
    \A i \in 1..Len(log) :
        (log[i].type = "ALLOC" /\ log[i].ptr = a) =>
            \E k \in (i + 1)..Len(log) : log[k].type = "FREE" /\ log[k].ptr = a

ReplayInv ==
    /\ tracing => \A a \in Addr : live[a] = NoStamp => Closed(a)
    /\ \A t \in Threads :
           /\ (pc[t] \in Recording /\ req[t].type = "ALLOC" /\ req[t].ptr # Null) =>
                  Closed(req[t].ptr)
           /\ (tracing /\ pc[t] \in {"push", "finish"} /\ req[t].type = "FREE") =>
                  live[req[t].ptr] = NoStamp
    /\ Replayable

(* The blocks of a call that are in the log if it is recorded: what an     *)
(* allocation holds, once it is stamped or if it failed, and what a free   *)
(* holds, until it is stamped.                                             *)
Logged(t) ==
    IF req[t].type = "ALLOC"
    THEN IF req[t].ptr # Null /\ pc[t] \in BeforeStamp THEN {} ELSE req[t].held
    ELSE IF pc[t] \in BeforeStamp THEN req[t].held ELSE {}

KnownInv ==
    /\ tracing => \A a \in owned : live[a] # NoStamp
    /\ \A t \in Threads :
           /\ (tracing \/ pc[t] \in Recording) => \A a \in Logged(t) : live[a] # NoStamp
           /\ req[t].ptr # Null => req[t].held \subseteq {req[t].ptr}
           /\ "self" \notin Allowed => scratch[t] = {}
    /\ \A j \in 1..Len(log) : log[j].type = "FREE" => log[j].born # NoStamp

-----------------------------------------------------------------------------
LEMMA ReplayInit == ASSUME Init PROVE ReplayInv
BY DEF Init, LogInit, ReplayInv, Replayable, Closed, Recording

(* The steps that leave the log and the live blocks alone, and take no     *)
(* call past the check of tracing_enabled but when tracing is on.          *)
LEMMA ReplayQuiet ==
    ASSUME IInv, ReplayInv, log' = log, live' = live, tracing' => tracing,
           \A t \in Threads :
               \/ pc'[t] \in {"idle", "check"}
               \/ /\ req'[t] = req[t]
                  /\ pc'[t] \in Recording =>
                         pc[t] \in Recording \/ (tracing /\ pc[t] = "check")
                  /\ (tracing' /\ pc'[t] \in {"push", "finish"}) =>
                         pc[t] \in {"push", "finish"}
    PROVE  ReplayInv'
<1>1. \A a : Closed(a)' <=> Closed(a)
  BY DEF Closed
<1>2. Replayable'
  BY DEF ReplayInv, Replayable
<1>3. tracing' => \A a \in Addr : live'[a] = NoStamp => Closed(a)'
  BY <1>1 DEF ReplayInv
<1>4. ASSUME NEW t \in Threads, pc'[t] \in Recording, req'[t].type = "ALLOC",
             req'[t].ptr # Null
      PROVE  Closed(req'[t].ptr)
  <2>1. /\ req'[t] = req[t]
        /\ pc[t] \in Recording \/ (tracing /\ pc[t] = "check")
    BY <1>4 DEF Recording
  <2>2. CASE pc[t] \in Recording
    BY <1>4, <2>1, <2>2 DEF ReplayInv
  <2>3. CASE tracing /\ pc[t] = "check"
    <3>1. live[req[t].ptr] = NoStamp
      BY <1>4, <2>1, <2>3 DEF IInv, BlockInv, InFlight, BeforeStamp
    <3>2. req[t].ptr \in Addr
      BY <1>4, <2>1 DEF IInv, TypeOK, CallTypeOK, RequestType, Ptr
    <3> QED  BY <2>1, <2>3, <3>1, <3>2 DEF ReplayInv
  <2> QED  BY <2>1, <2>2, <2>3
<1>5. ASSUME NEW t \in Threads, tracing', pc'[t] \in {"push", "finish"},
             req'[t].type = "FREE"
      PROVE  live'[req'[t].ptr] = NoStamp
  BY <1>5 DEF ReplayInv
<1>6. ASSUME NEW t \in Threads, pc'[t] \in Recording, req'[t].type = "ALLOC",
             req'[t].ptr # Null
      PROVE  Closed(req[t].ptr)'
  <2>1. req'[t] = req[t]
    BY <1>6 DEF Recording
  <2> QED  BY <1>1, <1>4, <1>6, <2>1
<1> QED  BY <1>2, <1>3, <1>5, <1>6 DEF ReplayInv

(* What EVENT_COUNTER++ does to the log and the live blocks.               *)
LEMMA StampShape ==
    ASSUME IInv, NEW t \in Threads, Stamp(t)
    PROVE  LET p == req[t].ptr
               n == Len(log)
           IN  /\ n \in Nat /\ Len(log') = n + 1
               /\ \A i \in 1..n : log'[i] = log[i]
               /\ log'[n + 1].type = req[t].type /\ log'[n + 1].ptr = p
               /\ \A a \in Addr : a # p => live'[a] = live[a]
               /\ req[t].type = "FREE" =>
                      /\ p \in Addr /\ live'[p] = NoStamp
                      /\ log'[n + 1].born = live[p]
               /\ (req[t].type = "ALLOC" /\ p \in Addr) => live'[p] # NoStamp
               /\ pc[t] = "stamp" /\ pc' = [pc EXCEPT ![t] = "push"]
               /\ req' = [req EXCEPT ![t].id = n + 1]
               /\ tracing' = tracing /\ owned' = owned /\ scratch' = scratch
<1> DEFINE p == req[t].ptr
           n == Len(log)
<1>1. /\ log \in Seq(Event) /\ n \in Nat /\ live \in [Addr -> Nat]
      /\ req[t].type \in {"ALLOC", "FREE"}
  BY DEF IInv, TypeOK, LogTypeOK, CallTypeOK, RequestType
<1>2. /\ pc[t] = "stamp" /\ pc' = [pc EXCEPT ![t] = "push"]
      /\ req' = [req EXCEPT ![t].id = n + 1]
      /\ tracing' = tracing /\ owned' = owned /\ scratch' = scratch
  BY DEF Stamp, At, Goto, heapVars
<1>3. CASE req[t].type = "ALLOC"
  <2> DEFINE e == AllocEvent(t, req[t].size, p, req[t].hint)
  <2>1. e \in Event /\ e.type = "ALLOC" /\ e.ptr = p /\ log' = Append(log, e)
    <3>1. log' = Append(log, e)
      BY <1>3, StampLogs DEF LogAlloc
    <3>2. e \in Event
      BY <1>3, StampLogs, EventTypes, EventsAssumption
    <3> QED  BY <3>1, <3>2 DEF AllocEvent
  <2>2. live' = [a \in Addr |-> IF a = p THEN n + 1 ELSE live[a]]
    BY <1>3, StampLogs DEF LogAlloc
  <2> HIDE DEF e
  <2>3. /\ Len(log') = n + 1 /\ log'[n + 1] = e
        /\ \A i \in 1..n : log'[i] = log[i]
    BY <1>1, <2>1, AppendFacts
  <2>4. /\ \A a \in Addr : a # p => live'[a] = live[a]
        /\ p \in Addr => live'[p] # NoStamp
    BY <1>1, <2>2 DEF NoStamp
  <2> QED  BY <1>1, <1>2, <1>3, <2>1, <2>3, <2>4
<1>4. CASE req[t].type = "FREE"
  <2> DEFINE e == FreeEvent(t, p, live[p], heap[p])
  <2>1. /\ e \in Event /\ e.type = "FREE" /\ e.ptr = p /\ e.born = live[p]
        /\ log' = Append(log, e) /\ p \in Addr
    <3>1. log' = Append(log, e) /\ p \in Addr /\ heap[p] \in Sizes
      BY <1>4, StampLogs DEF LogFree
    <3>2. live[p] \in Nat /\ heap[p] \in Nat /\ p \in Ptr
      BY <1>1, <3>1, EventsAssumption DEF Ptr
    <3>3. e \in Event
      BY <3>2, EventTypes
    <3> QED  BY <3>1, <3>3 DEF FreeEvent
  <2>2. live' = [live EXCEPT ![p] = NoStamp]
    BY <1>4, StampLogs DEF LogFree
  <2> HIDE DEF e
  <2>3. /\ Len(log') = n + 1 /\ log'[n + 1] = e
        /\ \A i \in 1..n : log'[i] = log[i]
    BY <1>1, <2>1, AppendFacts
  <2>4. (\A a \in Addr : a # p => live'[a] = live[a]) /\ live'[p] = NoStamp
    BY <1>1, <2>1, <2>2 DEF NoStamp
  <2> QED  BY <1>1, <1>2, <1>4, <2>1, <2>3, <2>4
<1> QED  BY <1>1, <1>3, <1>4

(* A call that is about to be stamped, or is stamped and frees, holds its  *)
(* address alone.                                                          *)
LEMMA OtherCalls ==
    ASSUME IInv, NEW t \in Threads, NEW u \in Threads, u # t,
           NEW a \in Addr, a \in req[t].held
    PROVE  a \notin req[u].held
BY DEF IInv, BlockInv, OwnersDisjoint

LEMMA HoldsPtr ==
    ASSUME IInv, NEW t \in Threads, req[t].ptr \in Addr, pc[t] # "idle",
           req[t].type = "FREE" \/ pc[t] \in BeforeStamp
    PROVE  req[t].ptr \in req[t].held
<1>1. req[t].ptr # Null /\ req[t].type \in {"ALLOC", "FREE"}
  BY EventsAssumption DEF IInv, TypeOK, CallTypeOK, RequestType
<1> QED  BY <1>1 DEF IInv, BlockInv, InFlight

LEMMA ReplayStamp ==
    ASSUME IInv, ReplayInv, NEW t \in Threads, Stamp(t)
    PROVE  ReplayInv'
<1> DEFINE p == req[t].ptr
           n == Len(log)
<1>1. /\ n \in Nat /\ Len(log') = n + 1
      /\ \A i \in 1..n : log'[i] = log[i]
      /\ log'[n + 1].type = req[t].type /\ log'[n + 1].ptr = p
      /\ \A a \in Addr : a # p => live'[a] = live[a]
      /\ req[t].type = "FREE" => p \in Addr /\ live'[p] = NoStamp
      /\ (req[t].type = "ALLOC" /\ p \in Addr) => live'[p] # NoStamp
      /\ pc[t] = "stamp" /\ pc' = [pc EXCEPT ![t] = "push"]
      /\ req' = [req EXCEPT ![t].id = n + 1]
      /\ tracing' = tracing
  BY StampShape
<1>2. /\ req \in [Threads -> RequestType] /\ pc \in [Threads -> PCs]
      /\ req[t].type \in {"ALLOC", "FREE"} /\ p \in Addr \cup {Null} /\ Null \notin Addr
  BY EventsAssumption DEF IInv, TypeOK, CallTypeOK, RequestType, Ptr
<1>3. /\ \A u \in Threads : u # t => req'[u] = req[u] /\ pc'[u] = pc[u]
      /\ req'[t].type = req[t].type /\ req'[t].ptr = p /\ pc'[t] = "push"
  BY <1>1, <1>2 DEF RequestType
<1>4. p \in Addr => p \in req[t].held
  BY <1>1, HoldsPtr DEF BeforeStamp
<1>5. ASSUME NEW u \in Threads, u # t, req[u].ptr \in Addr, pc[u] # "idle",
             req[u].type = "FREE" \/ pc[u] \in BeforeStamp
      PROVE  req[u].ptr # p
  BY <1>4, <1>5, OtherCalls, HoldsPtr
<1> HIDE DEF p, n
<1>6. \A a \in Addr : Closed(a) /\ (a # p \/ req[t].type = "FREE") => Closed(a)'
  <2> SUFFICES ASSUME NEW a \in Addr, Closed(a), a # p \/ req[t].type = "FREE",
                      NEW i \in 1..(n + 1), log'[i].type = "ALLOC", log'[i].ptr = a
               PROVE  \E k \in (i + 1)..(n + 1) : log'[k].type = "FREE" /\ log'[k].ptr = a
    BY <1>1 DEF Closed
  <2>1. i \in 1..n
    BY <1>1
  <2>2. PICK k \in (i + 1)..n : log[k].type = "FREE" /\ log[k].ptr = a
    BY <1>1, <2>1 DEF Closed, n
  <2>3. k \in 1..n /\ k \in (i + 1)..(n + 1)
    BY <1>1, <2>1, <2>2
  <2> QED  BY <1>1, <2>2, <2>3
<1>7. \A a \in Addr : a = p /\ req[t].type = "FREE" => Closed(a)'
  <2> SUFFICES ASSUME NEW a \in Addr, a = p, req[t].type = "FREE",
                      NEW i \in 1..(n + 1), log'[i].type = "ALLOC", log'[i].ptr = a
               PROVE  \E k \in (i + 1)..(n + 1) : log'[k].type = "FREE" /\ log'[k].ptr = a
    BY <1>1 DEF Closed
  <2>1. i \in 1..n /\ n + 1 \in (i + 1)..(n + 1)
    BY <1>1
  <2> QED  BY <1>1, <2>1
<1>8. tracing' => \A a \in Addr : live'[a] = NoStamp => Closed(a)'
  <2> SUFFICES ASSUME tracing, NEW a \in Addr, live'[a] = NoStamp PROVE Closed(a)'
    BY <1>1
  <2>1. CASE a = p
    BY <1>1, <1>2, <1>7, <2>1
  <2>2. CASE a # p
    BY <1>1, <1>6, <2>2 DEF ReplayInv
  <2> QED  BY <2>1, <2>2
<1>9. ASSUME NEW u \in Threads
      PROVE  /\ (pc'[u] \in Recording /\ req'[u].type = "ALLOC" /\ req'[u].ptr # Null) =>
                    Closed(req[u].ptr)'
             /\ (tracing' /\ pc'[u] \in {"push", "finish"} /\ req'[u].type = "FREE") =>
                    live'[req'[u].ptr] = NoStamp
  <2>1. CASE u = t
    BY <1>1, <1>3, <2>1 DEF Recording, p
  <2>2. CASE u # t
    <3>1. req'[u] = req[u] /\ pc'[u] = pc[u] /\ req[u].ptr \in Addr \cup {Null}
      BY <1>2, <1>3, <2>2 DEF RequestType, Ptr
    <3>2. ASSUME pc[u] \in Recording, req[u].type = "ALLOC", req[u].ptr # Null
          PROVE  Closed(req[u].ptr)'
      <4>1. PICK a \in Addr : a = req[u].ptr
        BY <3>1, <3>2
      <4>2. a # p
        BY <1>5, <2>2, <3>2, <4>1 DEF Recording, BeforeStamp
      <4>3. Closed(a)
        BY <3>2, <4>1 DEF ReplayInv
      <4>4. Closed(a)'
        BY <1>6, <4>2, <4>3
      <4> QED  BY <3>1, <4>1, <4>4
    <3>3. ASSUME tracing', pc[u] \in {"push", "finish"}, req[u].type = "FREE"
          PROVE  live'[req[u].ptr] = NoStamp
      <4>1. req[u].ptr \in Addr
        BY <3>3 DEF IInv, BlockInv, InFlight
      <4>2. req[u].ptr # p
        BY <1>5, <2>2, <3>3, <4>1
      <4>3. live[req[u].ptr] = NoStamp
        BY <1>1, <3>3 DEF ReplayInv
      <4> QED  BY <1>1, <4>1, <4>2, <4>3
    <3> QED  BY <3>1, <3>2, <3>3
  <2> QED  BY <2>1, <2>2
<1>10. Replayable'
  <2> SUFFICES ASSUME NEW i \in 1..(n + 1), NEW j \in 1..(n + 1),
                      i < j, log'[i].type = "ALLOC", log'[j].type = "ALLOC",
                      log'[i].ptr = log'[j].ptr, log'[i].ptr # Null
               PROVE  \E k \in (i + 1)..j :
                          (log'[k].type = "FREE" /\ log'[k].ptr = log'[i].ptr)
                              \/ log'[k].hint = log'[i].ptr
    BY <1>1 DEF Replayable
  <2>1. i \in 1..n /\ log'[i] = log[i]
    BY <1>1
  <2>2. CASE j \in 1..n
    <3>1. log'[j] = log[j] /\ \A k \in (i + 1)..j : log'[k] = log[k]
      BY <1>1, <2>1, <2>2
    <3>2. \E k \in (i + 1)..j :
              (log[k].type = "FREE" /\ log[k].ptr = log[i].ptr) \/ log[k].hint = log[i].ptr
      BY <2>1, <2>2, <3>1 DEF ReplayInv, Replayable, n
    <3> QED  BY <2>1, <3>1, <3>2
  <2>3. CASE j = n + 1
    <3>1. req[t].type = "ALLOC" /\ p # Null /\ log[i].ptr = p /\ log[i].type = "ALLOC"
      BY <1>1, <2>1, <2>3
    <3>2. Closed(p)
      BY <1>1, <3>1 DEF ReplayInv, Recording, p
    <3>3. PICK k \in (i + 1)..n : log[k].type = "FREE" /\ log[k].ptr = p
      BY <2>1, <3>1, <3>2 DEF Closed, n
    <3>4. k \in (i + 1)..j /\ k \in 1..n
      BY <1>1, <2>1, <2>3, <3>3
    <3> QED  BY <1>1, <2>1, <3>1, <3>3, <3>4
  <2> QED  BY <1>1, <2>2, <2>3
<1> QED  BY <1>8, <1>9, <1>10 DEF ReplayInv

(* free releases a block that its event has already taken out of the live  *)
(* blocks, or one it did not record because tracing is off.                *)
LEMMA ReplayFinish ==
    ASSUME IInv, ReplayInv, NEW t \in Threads, Finish(t)
    PROVE  ReplayInv'
<1>1. /\ pc[t] = "finish" /\ pc' = [pc EXCEPT ![t] = "idle"]
      /\ req' = [req EXCEPT ![t] = NoRequest]
      /\ log' = log /\ tracing' = tracing
  BY DEF Finish, At, Goto
<1>2. /\ req \in [Threads -> RequestType] /\ pc \in [Threads -> PCs]
      /\ live \in [Addr -> Nat] /\ req[t].type \in {"ALLOC", "FREE"}
  BY DEF IInv, TypeOK, LogTypeOK, CallTypeOK, RequestType
<1>3. \A u \in Threads : pc'[u] = "idle" \/ (req'[u] = req[u] /\ pc'[u] = pc[u])
  BY <1>1, <1>2
<1>4. CASE req[t].type = "ALLOC"
  <2>1. live' = live
    BY <1>4 DEF Finish
  <2> QED  BY <1>1, <1>3, <2>1, ReplayQuiet
<1>5. CASE req[t].type = "FREE"
  <2> DEFINE p == req[t].ptr
  <2>1. /\ p \in Addr
        /\ \A a \in Addr : live'[a] = IF a = p THEN NoStamp ELSE live[a]
        /\ tracing => live[p] = NoStamp
    BY <1>1, <1>5 DEF Finish, Released, ReplayInv, IInv, BlockInv, InFlight
  <2> HIDE DEF p
  <2>2. /\ \A a : Closed(a)' <=> Closed(a)
        /\ Replayable' <=> Replayable
    BY <1>1 DEF Closed, Replayable
  <2>3. tracing' => \A a \in Addr : live'[a] = NoStamp => Closed(a)'
    BY <1>1, <2>1, <2>2 DEF ReplayInv
  <2>4. ASSUME NEW u \in Threads
        PROVE  /\ (pc'[u] \in Recording /\ req'[u].type = "ALLOC" /\ req'[u].ptr # Null) =>
                      Closed(req[u].ptr)'
               /\ (tracing' /\ pc'[u] \in {"push", "finish"} /\ req'[u].type = "FREE") =>
                      live'[req'[u].ptr] = NoStamp
    <3>1. CASE pc'[u] = "idle"
      BY <3>1 DEF Recording
    <3>2. CASE req'[u] = req[u] /\ pc'[u] = pc[u]
      <4>1. ASSUME pc[u] \in Recording, req[u].type = "ALLOC", req[u].ptr # Null
            PROVE  Closed(req[u].ptr)'
        <5>1. Closed(req[u].ptr)
          BY <4>1 DEF ReplayInv
        <5>2. PICK a : a = req[u].ptr
          OBVIOUS
        <5>3. Closed(a)'
          BY <2>2, <5>1, <5>2
        <5> QED  BY <3>2, <5>2, <5>3
      <4>2. ASSUME tracing, pc[u] \in {"push", "finish"}, req[u].type = "FREE"
            PROVE  live'[req[u].ptr] = NoStamp
        <5>1. req[u].ptr \in Addr /\ live[req[u].ptr] = NoStamp
          BY <4>2 DEF ReplayInv, IInv, BlockInv, InFlight
        <5> QED  BY <2>1, <5>1
      <4> QED  BY <1>1, <3>2, <4>1, <4>2
    <3> QED  BY <1>3, <3>1, <3>2
  <2> QED  BY <2>2, <2>3, <2>4 DEF ReplayInv
<1> QED  BY <1>2, <1>4, <1>5

LEMMA ReplayProgram ==
    ASSUME IInv, ReplayInv, "realloc" \notin Allowed, NEW t \in Threads, ProgramStep(t)
    PROVE  ReplayInv'
<1>1. /\ pc \in [Threads -> PCs] /\ req \in [Threads -> RequestType]
  BY DEF IInv, TypeOK, CallTypeOK
<1>2. /\ log' = log /\ live' = live /\ tracing' = tracing
      /\ \/ pc' = pc /\ req' = req
         \/ /\ pc' = [pc EXCEPT ![t] = "check"]
            /\ \E r : req' = [req EXCEPT ![t] = r]
  BY DEF ProgramStep, Malloc, MallocFails, ReallocInPlace, ReallocMoves, ReallocFails,
     ReallocToZero, Free, UnhookedAlloc, Begin, Goto
<1>3. \A u \in Threads : pc'[u] = "check" \/ (req'[u] = req[u] /\ pc'[u] = pc[u])
  BY <1>1, <1>2
<1> QED  BY <1>2, <1>3, ReplayQuiet

LEMMA ReplayHook ==
    ASSUME IInv, ReplayInv, NEW t \in Threads, HookStep(t) \/ FaultStep(t) \/ SelfStep(t)
    PROVE  ReplayInv'
<1>1. pc \in [Threads -> PCs] /\ req \in [Threads -> RequestType]
  BY DEF IInv, TypeOK, CallTypeOK
<1>2. CASE CheckTracing(t) \/ NewContextLocks(t) \/ NewContextPublishes(t)
           \/ EnterGuard(t) \/ Unwind(t) \/ Push(t) \/ UndefinedNest(t)
  <2>1. log' = log /\ live' = live /\ tracing' = tracing /\ req' = req
    BY <1>2 DEF CheckTracing, NewContextLocks, NewContextPublishes, EnterGuard, Unwind,
       Push, UndefinedNest
  <2>2. \E w \in PCs :
            /\ pc' = [pc EXCEPT ![t] = w]
            /\ w \in Recording => pc[t] \in Recording \/ (tracing /\ pc[t] = "check")
            /\ (tracing /\ w \in {"push", "finish"}) => pc[t] \in {"push", "finish"}
    <3>1. CASE CheckTracing(t)
      BY <3>1 DEF CheckTracing, At, Goto, PCs, Recording
    <3>2. CASE NewContextLocks(t) \/ NewContextPublishes(t) \/ Unwind(t) \/ Push(t)
      BY <3>2 DEF NewContextLocks, NewContextPublishes, Unwind, Push, At, Goto, PCs, Recording
    <3>3. CASE EnterGuard(t)
      BY <3>3 DEF EnterGuard, At, Goto, PCs, Recording, IInv, GuardBalance
    <3>4. CASE UndefinedNest(t)
      BY <3>4 DEF UndefinedNest, At, Goto, PCs, Recording, IInv, TracingOff
    <3> QED  BY <1>2, <3>1, <3>2, <3>3, <3>4
  <2>3. \A u \in Threads :
            /\ pc'[u] \in Recording => pc[u] \in Recording \/ (tracing /\ pc[u] = "check")
            /\ (tracing /\ pc'[u] \in {"push", "finish"}) => pc[u] \in {"push", "finish"}
    BY <1>1, <2>2
  <2> QED  BY <2>1, <2>3, ReplayQuiet
<1>3. CASE NewContextFails(t) \/ ThrowTerminates(t) \/ UndefinedCrash(t) \/ SelfStep(t)
  <2>1. log' = log /\ live' = live /\ tracing' = tracing /\ req' = req /\ pc' = pc
    BY <1>3, SelfUnrecorded DEF NewContextFails, ThrowTerminates, UndefinedCrash, SelfStep,
       SelfMalloc, SelfFree, RecordAtOnce
  <2> QED  BY <2>1, ReplayQuiet
<1>4. CASE UnwindThrows(t) \/ PushThrows(t)
  <2>1. /\ log' = log /\ live' = live /\ tracing' = tracing
        /\ pc' = [pc EXCEPT ![t] = "idle"] /\ req' = [req EXCEPT ![t] = NoRequest]
    BY <1>4 DEF UnwindThrows, PushThrows, ThrowOut, Goto
  <2>2. \A u \in Threads : pc'[u] = "idle" \/ (req'[u] = req[u] /\ pc'[u] = pc[u])
    BY <1>1, <2>1
  <2> QED  BY <2>1, <2>2, ReplayQuiet
<1> QED  BY <1>2, <1>3, <1>4, ReplayStamp, ReplayFinish DEF HookStep, FaultStep

LEMMA ReplayNext ==
    ASSUME IInv, ReplayInv, "realloc" \notin Allowed, [Next]_vars
    PROVE  ReplayInv'
<1>1. CASE QuietExit \/ UNCHANGED vars
  <2>1. /\ log' = log /\ live' = live /\ req' = req /\ pc' = pc
        /\ tracing' = FALSE \/ tracing' = tracing
    BY <1>1 DEF QuietExit, Exit, ExitStep, ReportLocks, DrainMoves, DrainClears, DrainEnds,
       Dump, Destroy, DumpFails, ProcessEnds, Terminated, vars
  <2> QED  BY <2>1, ReplayQuiet
<1> QED  BY <1>1, ReplayProgram, ReplayHook DEF Next, QuietExit

(* In a program that never calls realloc, when an address is handed out    *)
(* again, the log holds the event that released it in between: a reader    *)
(* who replays the ids in order never sees two live blocks at one address. *)
(* The event of a free is stamped before the block is released, and an     *)
(* allocation is stamped after it (mem_profile.cpp).                       *)
THEOREM RuntimeReplayable ==
    ASSUME "realloc" \notin Allowed
    PROVE  Spec => []Replayable
<1>1. Init => ReplayInv
  BY ReplayInit
<1>2. IInv /\ ReplayInv /\ [Next]_vars => ReplayInv'
  BY ReplayNext
<1>3. ReplayInv => Replayable
  BY DEF ReplayInv
<1> QED  BY Invariant, <1>1, <1>2, <1>3, PTL DEF Spec

-----------------------------------------------------------------------------
(* The program's blocks all come from a hook that recorded them: nothing   *)
(* is allocated behind the hooks, and no exception hands the program a     *)
(* block that the profiler allocated under its own guard.                  *)
AllocationsHooked ==
    /\ "unhooked" \notin Allowed
    /\ "self" \in Allowed => {"unwind", "push"} \cap Allowed = {}

LEMMA KnownInit == ASSUME Init PROVE KnownInv
BY DEF Init, LogInit, KnownInv, Logged, NoRequest, Request, BeforeStamp

LEMMA KnownTypes ==
    ASSUME IInv
    PROVE  /\ pc \in [Threads -> PCs] /\ req \in [Threads -> RequestType]
           /\ scratch \in [Threads -> SUBSET Addr] /\ live \in [Addr -> Nat]
           /\ owned \subseteq Addr /\ Null \notin Addr
           /\ \A t \in Threads : /\ req[t].type \in {"ALLOC", "FREE"}
                                 /\ req[t].ptr \in Addr \cup {Null}
                                 /\ req[t].held \subseteq Addr
BY EventsAssumption DEF IInv, TypeOK, LogTypeOK, CallTypeOK, HeapTypeOK, RequestType, Ptr

(* The steps that leave the log and the live blocks alone and take a call  *)
(* on without giving it a block.                                           *)
LEMMA KnownQuiet ==
    ASSUME IInv, KnownInv, log' = log, live' = live, tracing' => tracing,
           tracing => \A a \in owned' : live[a] # NoStamp,
           \A u \in Threads :
               /\ \/ req'[u] = NoRequest
                  \/ /\ req'[u] = req[u]
                     /\ (tracing' \/ pc'[u] \in Recording) =>
                            /\ tracing \/ pc[u] \in Recording
                            /\ pc'[u] \in BeforeStamp <=> pc[u] \in BeforeStamp
               /\ "self" \notin Allowed => scratch'[u] = {}
    PROVE  KnownInv'
<1>1. ASSUME NEW u \in Threads, tracing' \/ pc'[u] \in Recording, NEW a \in Logged(u)'
      PROVE  live[a] # NoStamp
  <2>1. req'[u] # NoRequest
    BY <1>1 DEF Logged, NoRequest, Request
  <2>2. Logged(u)' = Logged(u)
    BY <1>1, <2>1 DEF Logged
  <2> QED  BY <1>1, <2>1, <2>2 DEF KnownInv
<1>2. \A u \in Threads : req'[u].ptr # Null => req'[u].held \subseteq {req'[u].ptr}
  BY DEF KnownInv, NoRequest, Request
<1> QED  BY <1>1, <1>2 DEF KnownInv

(* A call of the program: what its hook holds from now on is either the    *)
(* block it is about to log or a block the program owned; realloc gives up *)
(* the blocks H.                                                           *)
LEMMA ProgramShape ==
    ASSUME IInv, NEW t \in Threads, ProgramStep(t), "unhooked" \notin Allowed
    PROVE  /\ log' = log /\ tracing' = tracing /\ scratch' = scratch
           /\ pc' = [pc EXCEPT ![t] = "check"]
           /\ \E r, H :
                  /\ req' = [req EXCEPT ![t] = r]
                  /\ H \subseteq owned /\ owned' \subseteq owned \ H
                  /\ live' = [a \in Addr |-> IF a \in H THEN NoStamp ELSE live[a]]
                  /\ r.ptr # Null => r.held \subseteq {r.ptr}
                  /\ \/ r.type = "ALLOC" /\ r.ptr # Null
                     \/ r.held \subseteq owned \ H
<1>1. live = [a \in Addr |-> IF a \in {} THEN NoStamp ELSE live[a]] /\ Null \notin Addr
  BY KnownTypes
<1>2. /\ log' = log /\ tracing' = tracing /\ scratch' = scratch
      /\ pc' = [pc EXCEPT ![t] = "check"]
  BY DEF ProgramStep, Malloc, MallocFails, ReallocInPlace, ReallocMoves, ReallocFails,
     ReallocToZero, Free, UnhookedAlloc, Begin, Goto
<1> DEFINE Shape(r, H) ==
               /\ req' = [req EXCEPT ![t] = r]
               /\ H \subseteq owned /\ owned' \subseteq owned \ H
               /\ live' = [a \in Addr |-> IF a \in H THEN NoStamp ELSE live[a]]
               /\ r.ptr # Null => r.held \subseteq {r.ptr}
               /\ \/ r.type = "ALLOC" /\ r.ptr # Null
                  \/ r.held \subseteq owned \ H
<1>3. ASSUME NEW n \in Sizes, NEW a \in Addr, Malloc(t, n, a)
      PROVE  Shape(Request("ALLOC", n, a, Null, {a}), {})
  BY <1>1, <1>3 DEF Malloc, Begin, Request
<1>4. ASSUME NEW n \in Sizes, MallocFails(t, n)
      PROVE  Shape(Request("ALLOC", n, Null, Null, {}), {})
  BY <1>1, <1>4 DEF MallocFails, Begin, Request
<1>5. ASSUME NEW h \in Addr, NEW n \in Sizes, ReallocInPlace(t, h, n)
      PROVE  Shape(Request("ALLOC", n, h, h, {h}), {h})
  BY <1>1, <1>5 DEF ReallocInPlace, Begin, Request, Released
<1>6. ASSUME NEW h \in Addr, NEW n \in Sizes, NEW a \in Addr, ReallocMoves(t, h, n, a)
      PROVE  Shape(Request("ALLOC", n, a, h, {a}), {h})
  BY <1>1, <1>6 DEF ReallocMoves, Begin, Request, Released
<1>7. ASSUME NEW h \in Addr, NEW n \in Sizes, ReallocFails(t, h, n)
      PROVE  Shape(Request("ALLOC", n, Null, h, {h}), {})
  BY <1>1, <1>7 DEF ReallocFails, Begin, Request
<1>8. ASSUME NEW h \in Addr, ReallocToZero(t, h)
      PROVE  Shape(Request("ALLOC", 0, Null, h, {}), {h})
  BY <1>1, <1>8 DEF ReallocToZero, Begin, Request, Released
<1>9. ASSUME NEW p \in Addr, Free(t, p)
      PROVE  Shape(Request("FREE", 0, p, Null, {p}), {})
  BY <1>1, <1>9 DEF Free, Begin, Request
<1>10. ~ \E n \in Sizes, a \in Addr : UnhookedAlloc(t, n, a)
  BY DEF UnhookedAlloc
<1>11. \E r, H : Shape(r, H)
  <2> HIDE DEF Shape
  <2> QED  BY <1>3, <1>4, <1>5, <1>6, <1>7, <1>8, <1>9, <1>10 DEF ProgramStep
<1> QED  BY <1>2, <1>11

LEMMA KnownProgram ==
    ASSUME IInv, KnownInv, AllocationsHooked, NEW t \in Threads, ProgramStep(t)
    PROVE  KnownInv'
<1>1. /\ log' = log /\ tracing' = tracing /\ scratch' = scratch
      /\ pc' = [pc EXCEPT ![t] = "check"]
  BY ProgramShape DEF AllocationsHooked
<1>2. PICK r, H :
          /\ req' = [req EXCEPT ![t] = r]
          /\ H \subseteq owned /\ owned' \subseteq owned \ H
          /\ live' = [a \in Addr |-> IF a \in H THEN NoStamp ELSE live[a]]
          /\ r.ptr # Null => r.held \subseteq {r.ptr}
          /\ \/ r.type = "ALLOC" /\ r.ptr # Null
             \/ r.held \subseteq owned \ H
  BY ProgramShape DEF AllocationsHooked
<1>3. /\ req'[t] = r /\ pc'[t] = "check"
      /\ \A u \in Threads : u # t => req'[u] = req[u] /\ pc'[u] = pc[u]
  BY <1>1, <1>2, KnownTypes
<1>4. /\ owned \subseteq Addr
      /\ \A a \in Addr \ H : live'[a] = live[a]
      /\ \A u \in Threads : \A a \in req[u].held : a \in Addr \ H
  BY <1>2, KnownTypes DEF IInv, BlockInv, OwnersDisjoint
<1>5. tracing' => \A a \in owned' : live'[a] # NoStamp
  BY <1>1, <1>2, <1>4 DEF KnownInv
<1>6. ASSUME NEW u \in Threads, tracing' \/ pc'[u] \in Recording, NEW a \in Logged(u)'
      PROVE  live'[a] # NoStamp
  <2>1. CASE u = t
    <3>1. tracing
      BY <1>1, <1>3, <1>6, <2>1 DEF Recording
    <3>2. a \in owned \ H
      BY <1>2, <1>3, <1>6, <2>1 DEF Logged, BeforeStamp
    <3> QED  BY <1>4, <3>1, <3>2 DEF KnownInv
  <2>2. CASE u # t
    <3>1. a \in Logged(u) /\ (tracing \/ pc[u] \in Recording)
      BY <1>1, <1>3, <1>6, <2>2 DEF Logged
    <3>2. a \in req[u].held
      BY <3>1 DEF Logged
    <3> QED  BY <1>4, <3>1, <3>2 DEF KnownInv
  <2> QED  BY <2>1, <2>2
<1>7. \A u \in Threads : req'[u].ptr # Null => req'[u].held \subseteq {req'[u].ptr}
  BY <1>2, <1>3 DEF KnownInv
<1> QED  BY <1>1, <1>5, <1>6, <1>7 DEF KnownInv

LEMMA KnownStamp ==
    ASSUME IInv, KnownInv, NEW t \in Threads, Stamp(t)
    PROVE  KnownInv'
<1> DEFINE p == req[t].ptr
           n == Len(log)
<1>1. /\ n \in Nat /\ Len(log') = n + 1
      /\ \A i \in 1..n : log'[i] = log[i]
      /\ log'[n + 1].type = req[t].type /\ log'[n + 1].ptr = p
      /\ \A a \in Addr : a # p => live'[a] = live[a]
      /\ req[t].type = "FREE" =>
             p \in Addr /\ live'[p] = NoStamp /\ log'[n + 1].born = live[p]
      /\ (req[t].type = "ALLOC" /\ p \in Addr) => live'[p] # NoStamp
      /\ pc[t] = "stamp" /\ pc' = [pc EXCEPT ![t] = "push"]
      /\ req' = [req EXCEPT ![t].id = n + 1]
      /\ tracing' = tracing /\ owned' = owned /\ scratch' = scratch
  BY StampShape
<1>2. /\ req \in [Threads -> RequestType] /\ pc \in [Threads -> PCs]
      /\ req[t].type \in {"ALLOC", "FREE"} /\ p \in Addr \cup {Null} /\ Null \notin Addr
      /\ owned \subseteq Addr /\ \A u \in Threads : req[u].held \subseteq Addr
  BY KnownTypes
<1>3. /\ \A u \in Threads : u # t => req'[u] = req[u] /\ pc'[u] = pc[u]
      /\ req'[t].type = req[t].type /\ req'[t].ptr = p /\ req'[t].held = req[t].held
      /\ pc'[t] = "push"
  BY <1>1, <1>2 DEF RequestType
<1>4. p \in Addr => p \in req[t].held
  BY <1>1, HoldsPtr DEF BeforeStamp
<1>5. /\ p \notin owned
      /\ \A u \in Threads : u # t => p \notin req[u].held
  <2>1. p \in Addr => p \notin owned
    BY <1>4 DEF IInv, BlockInv, OwnersDisjoint
  <2>2. \A u \in Threads : u # t /\ p \in Addr => p \notin req[u].held
    BY <1>4, OtherCalls
  <2> QED  BY <1>2, <2>1, <2>2
<1> HIDE DEF p, n
<1>6. tracing' => \A a \in owned' : live'[a] # NoStamp
  BY <1>1, <1>2, <1>5 DEF KnownInv
<1>7. ASSUME NEW u \in Threads, tracing' \/ pc'[u] \in Recording, NEW a \in Logged(u)'
      PROVE  live'[a] # NoStamp
  <2>1. CASE u = t /\ req[t].type = "ALLOC"
    <3>1. a \in req[t].held /\ a \in Addr
      BY <1>2, <1>3, <1>7, <2>1 DEF Logged, BeforeStamp
    <3>2. CASE p # Null
      <4>1. a = p
        BY <3>1, <3>2 DEF KnownInv, p
      <4> QED  BY <1>1, <2>1, <3>1, <4>1
    <3>3. CASE p = Null
      <4>1. a \in Logged(t) /\ pc[t] \in Recording
        BY <1>1, <2>1, <3>1, <3>3 DEF Logged, Recording, p
      <4>2. live[a] # NoStamp
        BY <4>1 DEF KnownInv
      <4> QED  BY <1>1, <1>2, <3>1, <3>3, <4>2
    <3> QED  BY <3>2, <3>3
  <2>2. CASE u = t /\ req[t].type = "FREE"
    BY <1>3, <1>7, <2>2 DEF Logged, BeforeStamp
  <2>3. CASE u # t
    <3>1. a \in Logged(u) /\ (tracing \/ pc[u] \in Recording)
      BY <1>1, <1>3, <1>7, <2>3 DEF Logged
    <3>2. a \in req[u].held /\ a \in Addr /\ a # p
      BY <1>2, <1>5, <2>3, <3>1 DEF Logged
    <3>3. live[a] # NoStamp
      BY <3>1 DEF KnownInv
    <3> QED  BY <1>1, <3>2, <3>3
  <2> QED  BY <1>2, <2>1, <2>2, <2>3
<1>8. \A u \in Threads : req'[u].ptr # Null => req'[u].held \subseteq {req'[u].ptr}
  BY <1>3 DEF KnownInv, p
<1>9. ASSUME NEW j \in 1..(n + 1), log'[j].type = "FREE"
      PROVE  log'[j].born # NoStamp
  <2>1. CASE j \in 1..n
    BY <1>1, <1>9, <2>1 DEF KnownInv, n
  <2>2. CASE j = n + 1
    <3>1. req[t].type = "FREE" /\ p \in Addr /\ log'[j].born = live[p]
      BY <1>1, <1>9, <2>2
    <3>2. p \in Logged(t) /\ pc[t] \in Recording
      BY <1>1, <1>4, <3>1 DEF Logged, Recording, BeforeStamp
    <3> QED  BY <3>1, <3>2 DEF KnownInv
  <2> QED  BY <1>1, <2>1, <2>2
<1> QED  BY <1>1, <1>6, <1>7, <1>8, <1>9 DEF KnownInv

LEMMA KnownFinish ==
    ASSUME IInv, KnownInv, NEW t \in Threads, Finish(t)
    PROVE  KnownInv'
<1>1. /\ pc[t] = "finish" /\ pc' = [pc EXCEPT ![t] = "idle"]
      /\ req' = [req EXCEPT ![t] = NoRequest]
      /\ log' = log /\ tracing' = tracing /\ scratch' = scratch
  BY DEF Finish, At, Goto
<1>2. \A u \in Threads : /\ u # t => req'[u] = req[u] /\ pc'[u] = pc[u]
                         /\ u = t => req'[u] = NoRequest
  BY <1>1, KnownTypes
<1>3. CASE req[t].type # "FREE"
  <2>1. live' = live /\ owned' = owned \cup req[t].held
    BY <1>3 DEF Finish
  <2>2. Logged(t) = req[t].held
    BY <1>1, <1>3, KnownTypes DEF Logged, BeforeStamp
  <2>3. tracing => \A a \in owned' : live[a] # NoStamp
    BY <2>1, <2>2 DEF KnownInv
  <2>4. ASSUME NEW u \in Threads
        PROVE  /\ \/ req'[u] = NoRequest
                  \/ /\ req'[u] = req[u]
                     /\ (tracing' \/ pc'[u] \in Recording) =>
                            /\ tracing \/ pc[u] \in Recording
                            /\ pc'[u] \in BeforeStamp <=> pc[u] \in BeforeStamp
               /\ "self" \notin Allowed => scratch'[u] = {}
    BY <1>1, <1>2 DEF KnownInv
  <2> QED  BY <1>1, <2>1, <2>3, <2>4, KnownQuiet
<1>4. CASE req[t].type = "FREE"
  <2> DEFINE p == req[t].ptr
  <2>1. /\ p \in Addr /\ p \in req[t].held
        /\ owned' = owned
        /\ \A a \in Addr : a # p => live'[a] = live[a]
    BY <1>1, <1>4 DEF Finish, Released, IInv, BlockInv, InFlight
  <2>2. p \notin owned /\ \A u \in Threads : u # t => p \notin req[u].held
    BY <2>1 DEF IInv, BlockInv, OwnersDisjoint
  <2>3. owned \subseteq Addr /\ \A u \in Threads : req[u].held \subseteq Addr
    BY KnownTypes
  <2> HIDE DEF p
  <2>4. tracing' => \A a \in owned' : live'[a] # NoStamp
    BY <1>1, <2>1, <2>2, <2>3 DEF KnownInv
  <2>5. ASSUME NEW u \in Threads, tracing' \/ pc'[u] \in Recording, NEW a \in Logged(u)'
        PROVE  live'[a] # NoStamp
    <3>1. u # t
      BY <1>2, <2>5 DEF Logged, NoRequest, Request
    <3>2. a \in Logged(u) /\ (tracing \/ pc[u] \in Recording)
      BY <1>1, <1>2, <2>5, <3>1 DEF Logged
    <3>3. a \in req[u].held
      BY <3>2 DEF Logged
    <3>4. a \in Addr /\ a # p
      BY <2>2, <2>3, <3>1, <3>3
    <3> QED  BY <2>1, <3>2, <3>4 DEF KnownInv
  <2>6. \A u \in Threads : req'[u].ptr # Null => req'[u].held \subseteq {req'[u].ptr}
    BY <1>2 DEF KnownInv, NoRequest, Request
  <2> QED  BY <1>1, <2>4, <2>5, <2>6 DEF KnownInv
<1> QED  BY <1>3, <1>4

LEMMA KnownThrow ==
    ASSUME IInv, KnownInv, AllocationsHooked, NEW t \in Threads,
           UnwindThrows(t) \/ PushThrows(t)
    PROVE  KnownInv'
<1>1. /\ req' = [req EXCEPT ![t] = NoRequest]
      /\ owned' = owned \cup scratch[t] \cup (IF req[t].ptr = Null THEN req[t].held ELSE {})
      /\ scratch' = [scratch EXCEPT ![t] = {}]
      /\ pc' = [pc EXCEPT ![t] = "idle"]
      /\ log' = log /\ live' = live /\ tracing' = tracing
      /\ pc[t] \in {"unwind", "push"}
  BY DEF UnwindThrows, PushThrows, ThrowOut, Goto, At
<1>2. scratch[t] = {}
  BY DEF UnwindThrows, PushThrows, AllocationsHooked, KnownInv
<1>3. ASSUME req[t].ptr = Null PROVE Logged(t) = req[t].held
  <2>1. req[t].type = "ALLOC"
    BY <1>1, <1>3, KnownTypes DEF IInv, BlockInv, InFlight
  <2> QED  BY <1>3, <2>1 DEF Logged
<1>4. tracing => \A a \in owned' : live[a] # NoStamp
  BY <1>1, <1>2, <1>3 DEF KnownInv
<1>5. ASSUME NEW u \in Threads
      PROVE  /\ \/ req'[u] = NoRequest
                \/ /\ req'[u] = req[u]
                   /\ (tracing' \/ pc'[u] \in Recording) =>
                          /\ tracing \/ pc[u] \in Recording
                          /\ pc'[u] \in BeforeStamp <=> pc[u] \in BeforeStamp
             /\ "self" \notin Allowed => scratch'[u] = {}
  BY <1>1, KnownTypes DEF KnownInv
<1> QED  BY <1>1, <1>4, <1>5, KnownQuiet

LEMMA KnownHook ==
    ASSUME IInv, KnownInv, AllocationsHooked, NEW t \in Threads,
           HookStep(t) \/ FaultStep(t) \/ SelfStep(t)
    PROVE  KnownInv'
<1>1. CASE CheckTracing(t) \/ NewContextLocks(t) \/ NewContextPublishes(t)
           \/ EnterGuard(t) \/ Unwind(t) \/ Push(t) \/ UndefinedNest(t)
  <2>1. /\ log' = log /\ live' = live /\ tracing' = tracing /\ req' = req
        /\ owned' = owned /\ scratch' = scratch
    BY <1>1 DEF CheckTracing, NewContextLocks, NewContextPublishes, EnterGuard, Unwind,
       Push, UndefinedNest, heapVars
  <2>2. \E w \in PCs :
            /\ pc' = [pc EXCEPT ![t] = w]
            /\ (tracing \/ w \in Recording) =>
                   /\ tracing \/ pc[t] \in Recording
                   /\ w \in BeforeStamp <=> pc[t] \in BeforeStamp
    <3>1. CASE CheckTracing(t)
      BY <3>1 DEF CheckTracing, At, Goto, PCs, Recording, BeforeStamp
    <3>2. CASE NewContextLocks(t) \/ NewContextPublishes(t) \/ Unwind(t) \/ Push(t)
      BY <3>2 DEF NewContextLocks, NewContextPublishes, Unwind, Push, At, Goto, PCs,
         Recording, BeforeStamp
    <3>3. CASE EnterGuard(t)
      BY <3>3 DEF EnterGuard, At, Goto, PCs, Recording, BeforeStamp, IInv, GuardBalance
    <3>4. CASE UndefinedNest(t)
      BY <3>4 DEF UndefinedNest, At, Goto, PCs, Recording, BeforeStamp, IInv, TracingOff
    <3> QED  BY <1>1, <3>1, <3>2, <3>3, <3>4
  <2>3. \A u \in Threads :
            /\ req'[u] = req[u]
            /\ (tracing' \/ pc'[u] \in Recording) =>
                   /\ tracing \/ pc[u] \in Recording
                   /\ pc'[u] \in BeforeStamp <=> pc[u] \in BeforeStamp
            /\ "self" \notin Allowed => scratch'[u] = {}
    BY <2>1, <2>2, KnownTypes DEF KnownInv
  <2>4. tracing => \A a \in owned' : live[a] # NoStamp
    BY <2>1 DEF KnownInv
  <2> QED  BY <2>1, <2>3, <2>4, KnownQuiet
<1>2. CASE NewContextFails(t) \/ ThrowTerminates(t) \/ UndefinedCrash(t) \/ SelfStep(t)
  <2>1. /\ log' = log /\ live' = live /\ tracing' = tracing /\ req' = req /\ pc' = pc
        /\ owned' = owned
        /\ scratch' = scratch \/ "self" \in Allowed
    BY <1>2, SelfUnrecorded DEF NewContextFails, ThrowTerminates, UndefinedCrash, SelfStep,
       SelfMalloc, SelfFree, RecordAtOnce, heapVars, SelfCalls
  <2>2. tracing => \A a \in owned' : live[a] # NoStamp
    BY <2>1 DEF KnownInv
  <2>3. \A u \in Threads : "self" \notin Allowed => scratch'[u] = {}
    BY <2>1 DEF KnownInv
  <2> QED  BY <2>1, <2>2, <2>3, KnownQuiet
<1> QED  BY <1>1, <1>2, KnownStamp, KnownFinish, KnownThrow DEF HookStep, FaultStep

LEMMA KnownNext ==
    ASSUME IInv, KnownInv, AllocationsHooked, [Next]_vars
    PROVE  KnownInv'
<1>1. CASE QuietExit \/ UNCHANGED vars
  <2>1. /\ log' = log /\ live' = live /\ req' = req /\ pc' = pc
        /\ owned' = owned /\ scratch' = scratch
        /\ tracing' = FALSE \/ tracing' = tracing
    BY <1>1 DEF QuietExit, Exit, ExitStep, ReportLocks, DrainMoves, DrainClears, DrainEnds,
       Dump, Destroy, DumpFails, ProcessEnds, Terminated, vars, heapVars
  <2>2. tracing => \A a \in owned' : live[a] # NoStamp
    BY <2>1 DEF KnownInv
  <2>3. \A u \in Threads : "self" \notin Allowed => scratch'[u] = {}
    BY <2>1 DEF KnownInv
  <2>4. tracing' => tracing
    BY <2>1
  <2> QED  BY <2>1, <2>2, <2>3, <2>4, KnownQuiet
<1> QED  BY <1>1, KnownProgram, KnownHook DEF Next, QuietExit

(* compute_free_sizes gives every FREE, and not only those whose block was *)
(* logged, the size of the block freed, as long as all the program's       *)
(* blocks come from the hooks: a block is handed to the program while      *)
(* tracing is on only after its ALLOC is stamped, and no FREE is recorded  *)
(* for a block that was handed out later (mem_profile.cpp,                 *)
(* compute_free_sizes of output_record.cpp).                               *)
THEOREM RuntimeEveryFreeSized ==
    ASSUME AllocationsHooked
    PROVE  Spec => []EveryFreeSized
<1>1. Init => KnownInv
  BY KnownInit
<1>2. IInv /\ KnownInv /\ [Next]_vars => KnownInv'
  BY KnownNext
<1>3. FreeSizes /\ KnownInv => EveryFreeSized
  BY DEF FreeSizes, SizesRecoverable, KnownInv, EveryFreeSized
<1> QED  BY Invariant, RuntimeFreeSizes, <1>1, <1>2, <1>3, PTL DEF Spec

-----------------------------------------------------------------------------
OrderInv ==
    \A t \in Threads :
        /\ \A i, j \in 1..Len(events[t]) : i < j => events[t][i] < events[t][j]
        /\ \A i \in 1..Len(events[t]) :
               events[t][i] \in 1..Len(log) /\ log[events[t][i]].by = t
        /\ pc[t] = "push" =>
               /\ req[t].id \in 1..Len(log)
               /\ log[req[t].id].by = t
               /\ log[req[t].id].type = req[t].type
               /\ \A i \in 1..Len(events[t]) : events[t][i] < req[t].id

(* A call is counted when it returns, one step after its event is stored.  *)
CallsInv ==
    tracing => \A t \in Threads :
        Len(events[t]) = calls[t] + (IF pc[t] = "finish" THEN 1 ELSE 0)

RegisteredInv ==
    /\ \A t \in Threads : pc[t] \in {"unwind", "stamp", "push"} => Registered(t)
    /\ \A t \in Threads : pc[t] = "register" => ~Registered(t)
    /\ \A i, j \in 1..Len(counters) : counters[i] = counters[j] => i = j
    /\ \A i \in 1..Len(log) : Registered(log[i].by)

-----------------------------------------------------------------------------
LEMMA EventsInit == ASSUME Init PROVE OrderInv /\ CallsInv /\ RegisteredInv
BY DEF Init, LogInit, OrderInv, CallsInv, RegisteredInv, Registered

(* The steps after which every context holds what it held, and every       *)
(* thread is about to store what it was about to store.                    *)
Storing(t) == IF pc[t] = "push" THEN {req[t].id} ELSE {}

EventsKept ==
    /\ UNCHANGED <<log, events, total, report, next, dropped>>
    /\ \A t \in Threads : pc'[t] = "push" <=> pc[t] = "push"
    /\ \A t \in Threads : pc[t] = "push" => req'[t] = req[t]

LEMMA QuietKeepsEvents ==
    ASSUME IInv, NEW t \in Threads,
           \/ ProgramStep(t) \/ SelfStep(t)
           \/ HookStep(t) /\ ~Stamp(t) /\ ~Push(t)
           \/ FaultStep(t) /\ ~PushThrows(t)
    PROVE  EventsKept
<1>1. pc \in [Threads -> PCs] /\ req \in [Threads -> RequestType]
  BY DEF IInv, TypeOK, CallTypeOK
<1>2. CASE ProgramStep(t)
  <2>1. UNCHANGED <<log, events, total, report, next, dropped>>
    BY <1>2 DEF ProgramStep, Malloc, MallocFails, ReallocInPlace, ReallocMoves,
       ReallocFails, ReallocToZero, Free, UnhookedAlloc, Begin, ctxVars, exitVars, history
  <2>2. \/ pc' = pc /\ req' = req
        \/ /\ pc[t] = "idle" /\ pc' = [pc EXCEPT ![t] = "check"]
           /\ \E r : req' = [req EXCEPT ![t] = r]
    BY <1>2 DEF ProgramStep, Malloc, MallocFails, ReallocInPlace, ReallocMoves,
       ReallocFails, ReallocToZero, Free, UnhookedAlloc, Begin, Goto, MayCall, InProgram
  <2> QED  BY <1>1, <2>1, <2>2 DEF EventsKept
<1>3. CASE SelfStep(t)
  BY <1>3, SelfUnrecorded DEF SelfStep, SelfMalloc, SelfFree, RecordAtOnce, EventsKept,
     exitVars, history
<1>4. CASE CheckTracing(t) \/ NewContextLocks(t) \/ NewContextPublishes(t)
           \/ EnterGuard(t) \/ Unwind(t) \/ UndefinedNest(t)
  BY <1>1, <1>4 DEF CheckTracing, NewContextLocks, NewContextPublishes, EnterGuard, Unwind,
     UndefinedNest, At, Goto, EventsKept, ctxVars, exitVars, history
<1>5. CASE Finish(t) \/ UnwindThrows(t)
  <2>1. /\ UNCHANGED <<log, events, total, report, next, dropped>>
        /\ pc[t] # "push" /\ pc' = [pc EXCEPT ![t] = "idle"]
        /\ req' = [req EXCEPT ![t] = NoRequest]
    BY <1>5 DEF Finish, UnwindThrows, ThrowOut, At, Goto, ctxVars, exitVars, history
  <2> QED  BY <1>1, <2>1 DEF EventsKept
<1>6. CASE NewContextFails(t) \/ ThrowTerminates(t) \/ UndefinedCrash(t)
  BY <1>6 DEF NewContextFails, ThrowTerminates, UndefinedCrash, EventsKept, ctxVars, history
<1> QED  BY <1>2, <1>3, <1>4, <1>5, <1>6 DEF HookStep, FaultStep

LEMMA ExitKeepsEvents ==
    ASSUME (QuietExit /\ ~DrainMoves /\ ~DrainClears) \/ UNCHANGED vars
    PROVE  EventsKept
BY DEF QuietExit, Exit, ExitStep, ReportLocks, DrainEnds, Dump, Destroy, DumpFails,
   ProcessEnds, Terminated, vars, ctxVars, exitVars, history, EventsKept

(* What Stamp appends to the log.                                          *)
LEMMA StampAppends ==
    ASSUME IInv, NEW t \in Threads, Stamp(t)
    PROVE  /\ pc[t] = "stamp" /\ Len(log) \in Nat /\ Len(log') = Len(log) + 1
           /\ \A i \in 1..Len(log) : log'[i] = log[i]
           /\ log'[Len(log) + 1].by = t /\ log'[Len(log) + 1].type = req[t].type
           /\ req' = [req EXCEPT ![t].id = Len(log) + 1]
           /\ pc' = [pc EXCEPT ![t] = "push"]
           /\ UNCHANGED <<events, total, report, next, dropped, counters, phase, tracing,
                          calls>>
<1>1. log \in Seq(Event) /\ Len(log) \in Nat /\ log' \in Seq(Event)
  <2>1. LogInv' /\ IInv
    BY StampBlocks
  <2> QED  BY <2>1, LenProperties DEF IInv, LogInv, LogTypeOK
<1>2. \E e : log' = Append(log, e) /\ e.by = t /\ e.type = req[t].type
  <2>1. CASE req[t].type = "ALLOC"
    <3>1. log' = Append(log, AllocEvent(t, req[t].size, req[t].ptr, req[t].hint))
      BY <2>1, StampLogs DEF LogAlloc
    <3> QED  BY <2>1, <3>1 DEF AllocEvent
  <2>2. CASE req[t].type = "FREE"
    <3>1. log' = Append(log, FreeEvent(t, req[t].ptr, live[req[t].ptr], heap[req[t].ptr]))
      BY <2>2, StampLogs DEF LogFree
    <3> QED  BY <2>2, <3>1 DEF FreeEvent
  <2> QED  BY <2>1, <2>2, StampLogs
<1>3. PICK e : log' = Append(log, e) /\ e.by = t /\ e.type = req[t].type
  BY <1>2
<1>4. Len(log') = Len(log) + 1 /\ log'[Len(log) + 1] = e
      /\ \A i \in 1..Len(log) : log'[i] = log[i]
  BY <1>1, <1>3
<1> QED  BY <1>1, <1>3, <1>4 DEF Stamp, At, Goto, ctxVars, exitVars, history

LEMMA PushAppends ==
    ASSUME IInv, NEW t \in Threads, Push(t)
    PROVE  /\ pc[t] = "push" /\ Len(events[t]) \in Nat /\ req[t].id \in Nat
           /\ events' = [events EXCEPT ![t] = Append(events[t], req[t].id)]
           /\ Len(events'[t]) = Len(events[t]) + 1
           /\ events'[t][Len(events[t]) + 1] = req[t].id
           /\ \A i \in 1..Len(events[t]) : events'[t][i] = events[t][i]
           /\ \A u \in Threads \ {t} : events'[u] = events[u]
           /\ pc' = [pc EXCEPT ![t] = "finish"]
           /\ UNCHANGED <<log, req, report, next, dropped, counters, phase, tracing, calls>>
<1>1. /\ events \in [Threads -> Seq(Nat)] /\ pc \in [Threads -> PCs]
      /\ req[t].id \in Nat
  BY DEF IInv, TypeOK, CtxTypeOK, CallTypeOK, RequestType
<1>2. /\ pc[t] = "push" /\ pc' = [pc EXCEPT ![t] = "finish"]
      /\ events' = [events EXCEPT ![t] = Append(events[t], req[t].id)]
      /\ UNCHANGED <<log, req, report, next, dropped, counters, phase, tracing, calls>>
  BY DEF Push, At, Goto, exitVars, history
<1> QED  BY <1>1, <1>2

LEMMA OrderNext == ASSUME IInv, OrderInv, [Next]_vars PROVE OrderInv'
<1>1. /\ events \in [Threads -> Seq(Nat)] /\ req \in [Threads -> RequestType]
      /\ pc \in [Threads -> PCs] /\ Len(log) \in Nat
  <2>1. log \in Seq(Event)
    BY DEF IInv, LogInv, LogTypeOK
  <2> QED  BY <2>1, LenProperties DEF IInv, TypeOK, CtxTypeOK, CallTypeOK
<1>2. CASE EventsKept
  BY <1>2 DEF EventsKept, OrderInv
<1>3. ASSUME NEW t \in Threads, Stamp(t) PROVE OrderInv'
  <2>1. ASSUME NEW u \in Threads, u # t
        PROVE  req'[u] = req[u] /\ pc'[u] = pc[u]
    BY <1>1, <1>3, <2>1, StampAppends
  <2>2. req'[t].id = Len(log) + 1 /\ req'[t].type = req[t].type
    BY <1>1, <1>3, StampAppends DEF RequestType
  <2>3. /\ Len(log') = Len(log) + 1 /\ UNCHANGED events /\ pc'[t] = "push"
        /\ \A i \in 1..Len(log) : log'[i] = log[i]
        /\ log'[Len(log) + 1].by = t /\ log'[Len(log) + 1].type = req[t].type
    BY <1>1, <1>3, StampAppends
  <2>4. ASSUME NEW u \in Threads
        PROVE  /\ \A i, j \in 1..Len(events'[u]) : i < j => events'[u][i] < events'[u][j]
               /\ \A i \in 1..Len(events'[u]) :
                      events'[u][i] \in 1..Len(log) /\ log'[events'[u][i]].by = u
    BY <2>3 DEF OrderInv
  <2>5. ASSUME NEW u \in Threads, u # t, pc'[u] = "push"
        PROVE  /\ req'[u].id \in 1..Len(log)
               /\ log'[req'[u].id].by = u
               /\ log'[req'[u].id].type = req'[u].type
               /\ \A i \in 1..Len(events'[u]) : events'[u][i] < req'[u].id
    BY <2>1, <2>3, <2>5 DEF OrderInv
  <2> QED  BY <1>1, <2>2, <2>3, <2>4, <2>5 DEF OrderInv
<1>4. ASSUME NEW t \in Threads, Push(t) PROVE OrderInv'
  <2>1. /\ UNCHANGED <<log, req>> /\ Len(events[t]) \in Nat
        /\ \A u \in Threads \ {t} : events'[u] = events[u] /\ pc'[u] = pc[u]
        /\ pc[t] = "push" /\ pc'[t] = "finish"
    BY <1>1, <1>4, PushAppends
  <2>2. /\ \A i \in 1..Len(events[t]) : events'[t][i] = events[t][i]
        /\ events'[t][Len(events[t]) + 1] = req[t].id
        /\ Len(events'[t]) = Len(events[t]) + 1
    BY <1>4, PushAppends
  <2>3. /\ \A i, j \in 1..Len(events'[t]) : i < j => events'[t][i] < events'[t][j]
        /\ \A i \in 1..Len(events'[t]) :
               events'[t][i] \in 1..Len(log) /\ log[events'[t][i]].by = t
    <3>1. /\ \A i, j \in 1..Len(events[t]) : i < j => events[t][i] < events[t][j]
          /\ \A i \in 1..Len(events[t]) :
                 /\ events[t][i] \in 1..Len(log) /\ log[events[t][i]].by = t
                 /\ events[t][i] < req[t].id
          /\ req[t].id \in 1..Len(log) /\ log[req[t].id].by = t
      BY <2>1 DEF OrderInv
    <3>2. \A i \in 1..Len(events'[t]) :
             i \in 1..Len(events[t]) \/ i = Len(events[t]) + 1
      BY <2>1, <2>2
    <3>3. \A i \in 1..Len(events'[t]) :
             events'[t][i] \in 1..Len(log) /\ log[events'[t][i]].by = t
      BY <2>2, <3>1, <3>2
    <3>4. ASSUME NEW i \in 1..Len(events'[t]), NEW j \in 1..Len(events'[t]), i < j
          PROVE  events'[t][i] < events'[t][j]
      <4>1. i \in 1..Len(events[t])
        BY <2>1, <2>2, <3>4
      <4>2. events'[t][i] = events[t][i]
        BY <2>2, <4>1
      <4>3. CASE j = Len(events[t]) + 1
        BY <2>2, <3>1, <4>1, <4>2, <4>3
      <4>4. CASE j \in 1..Len(events[t])
        BY <2>2, <3>1, <3>4, <4>1, <4>2, <4>4
      <4> QED  BY <3>2, <4>3, <4>4
    <3> QED  BY <3>3, <3>4
  <2> QED  BY <2>1, <2>3 DEF OrderInv
<1>5. ASSUME NEW t \in Threads, PushThrows(t) PROVE OrderInv'
  <2>1. UNCHANGED <<log, events>> /\ pc' = [pc EXCEPT ![t] = "idle"]
        /\ req' = [req EXCEPT ![t] = NoRequest]
    BY <1>5 DEF PushThrows, ThrowOut, Goto
  <2> QED  BY <1>1, <2>1 DEF OrderInv
<1>6. CASE DrainMoves
  BY <1>6 DEF DrainMoves, OrderInv
<1>7. CASE DrainClears
  <2>1. UNCHANGED <<log, pc, req>>
        /\ \A t \in Threads : events'[t] = events[t] \/ events'[t] = << >>
    BY <1>1, <1>7 DEF DrainClears
  <2> QED  BY <2>1 DEF OrderInv
<1> QED  BY <1>2, <1>3, <1>4, <1>5, <1>6, <1>7, QuietKeepsEvents, ExitKeepsEvents
         DEF Next, QuietExit, HookStep, FaultStep, ExitStep

(* A hook that returns while tracing is on has stored its event; the guard *)
(* is never found up, so no call is taken for one of the profiler's own.   *)
LEMMA CallsNext == ASSUME IInv, CallsInv, [Next]_vars PROVE CallsInv'
<1>1. /\ events \in [Threads -> Seq(Nat)] /\ pc \in [Threads -> PCs]
      /\ calls \in [Threads -> Nat]
  BY DEF IInv, TypeOK, CtxTypeOK, CallTypeOK
<1>2. SUFFICES ASSUME tracing' PROVE CallsInv'
  BY DEF CallsInv
<1> DEFINE Same == /\ tracing /\ UNCHANGED <<events, calls>>
                   /\ \A t \in Threads : pc'[t] = "finish" <=> pc[t] = "finish"
<1>3. Same => CallsInv'
  BY DEF CallsInv
<1> HIDE DEF Same
<1>4. ASSUME NEW t \in Threads, ProgramStep(t) PROVE Same
  <2>1. /\ UNCHANGED <<tracing, events, calls>>
        /\ \/ pc' = pc
           \/ pc[t] = "idle" /\ pc' = [pc EXCEPT ![t] = "check"]
    BY <1>4 DEF ProgramStep, Malloc, MallocFails, ReallocInPlace, ReallocMoves,
       ReallocFails, ReallocToZero, Free, UnhookedAlloc, Begin, Goto, MayCall, InProgram,
       ctxVars, history
  <2> QED  BY <1>1, <1>2, <2>1 DEF Same
<1>5. ASSUME NEW t \in Threads, SelfStep(t) PROVE Same
  BY <1>2, <1>5, SelfUnrecorded DEF SelfStep, SelfMalloc, SelfFree, RecordAtOnce, Same,
     history
<1>6. ASSUME NEW t \in Threads,
             CheckTracing(t) \/ NewContextLocks(t) \/ NewContextPublishes(t)
             \/ EnterGuard(t) \/ Unwind(t) \/ Stamp(t) \/ UnwindThrows(t)
             \/ PushThrows(t) \/ UndefinedNest(t)
      PROVE  Same
  <2>1. UNCHANGED <<tracing, events, calls>>
    BY <1>6 DEF CheckTracing, NewContextLocks, NewContextPublishes, EnterGuard, Unwind,
       Stamp, UnwindThrows, PushThrows, UndefinedNest, ctxVars, history
  <2>2. CASE EnterGuard(t)
    <3>1. pc[t] = "context" /\ nest[t] = 0
      BY <2>2 DEF EnterGuard, At, IInv, GuardBalance
    <3> QED  BY <1>1, <1>2, <2>1, <2>2, <3>1 DEF EnterGuard, Goto, Same
  <2>3. CASE UndefinedNest(t)
    BY <1>2, <2>1, <2>3 DEF UndefinedNest, IInv, TracingOff
  <2>4. CASE ~EnterGuard(t) /\ ~UndefinedNest(t)
    <3>1. \E w \in PCs \ {"finish"} : pc[t] # "finish" /\ pc' = [pc EXCEPT ![t] = w]
      BY <1>2, <1>6, <2>1, <2>4 DEF CheckTracing, NewContextLocks, NewContextPublishes,
         Unwind, Stamp, UnwindThrows, PushThrows, ThrowOut, At, Goto, PCs
    <3> QED  BY <1>1, <1>2, <2>1, <3>1 DEF Same
  <2> QED  BY <2>2, <2>3, <2>4
<1>7. ASSUME NEW t \in Threads, Push(t) PROVE CallsInv'
  <2>1. tracing /\ UNCHANGED calls /\ pc[t] = "push" /\ pc' = [pc EXCEPT ![t] = "finish"]
    BY <1>2, <1>7, PushAppends
  <2>2. Len(events'[t]) = calls'[t] + 1
    <3>1. Len(events[t]) = calls[t]
      BY <1>1, <2>1 DEF CallsInv
    <3>2. Len(events'[t]) = Len(events[t]) + 1
      BY <1>7, PushAppends
    <3> QED  BY <2>1, <3>1, <3>2
  <2>3. \A u \in Threads \ {t} : events'[u] = events[u] /\ pc'[u] = pc[u]
    BY <1>1, <1>7, <2>1, PushAppends
  <2> QED  BY <1>1, <2>1, <2>2, <2>3 DEF CallsInv
<1>8. ASSUME NEW t \in Threads, Finish(t) PROVE CallsInv'
  <2>1. /\ UNCHANGED <<tracing, events>> /\ pc[t] = "finish"
        /\ pc' = [pc EXCEPT ![t] = "idle"]
        /\ calls' = [calls EXCEPT ![t] = calls[t] + 1]
    BY <1>2, <1>8 DEF Finish, At, Goto, ctxVars
  <2> QED  BY <1>1, <2>1 DEF CallsInv
<1>9. ASSUME NEW t \in Threads,
             NewContextFails(t) \/ ThrowTerminates(t) \/ UndefinedCrash(t)
      PROVE  Same
  BY <1>2, <1>9 DEF NewContextFails, ThrowTerminates, UndefinedCrash, ctxVars, history, Same
<1>10. CASE QuietExit \/ UNCHANGED vars
  <2>1. tracing
    BY <1>2, <1>10 DEF QuietExit, Exit, ExitStep, ReportLocks, DrainMoves, DrainClears,
       DrainEnds, Dump, Destroy, DumpFails, ProcessEnds, Terminated, vars
  <2>2. ~DrainClears
    BY <2>1 DEF IInv, TracingOff, DrainClears
  <2>3. UNCHANGED <<events, calls, pc>>
    BY <1>10, <2>2 DEF QuietExit, Exit, ExitStep, ReportLocks, DrainMoves, DrainEnds,
       Dump, Destroy, DumpFails, ProcessEnds, Terminated, vars, ctxVars, history
  <2>4. Same
    BY <2>1, <2>3 DEF Same
  <2> QED  BY <1>3, <2>4
<1> QED  BY <1>3, <1>4, <1>5, <1>6, <1>7, <1>8, <1>9, <1>10 DEF Next, QuietExit, HookStep,
         FaultStep

LEMMA RegisteredNext == ASSUME IInv, RegisteredInv, [Next]_vars PROVE RegisteredInv'
<1>1. /\ pc \in [Threads -> PCs] /\ counters \in Seq(Threads) /\ Len(counters) \in Nat
  BY LenProperties DEF IInv, TypeOK, CtxTypeOK, CallTypeOK
<1> DEFINE Same == /\ UNCHANGED <<log, counters>>
                   /\ \A t \in Threads :
                          /\ pc'[t] \in {"unwind", "stamp", "push"} => Registered(t)
                          /\ pc'[t] = "register" => ~Registered(t)
<1>2. Same => RegisteredInv'
  BY DEF RegisteredInv, Registered
<1> HIDE DEF Same
<1>3. ASSUME NEW t \in Threads, ProgramStep(t) PROVE Same
  <2>1. /\ UNCHANGED <<log, counters>>
        /\ \/ pc' = pc
           \/ pc[t] = "idle" /\ pc' = [pc EXCEPT ![t] = "check"]
    BY <1>3 DEF ProgramStep, Malloc, MallocFails, ReallocInPlace, ReallocMoves,
       ReallocFails, ReallocToZero, Free, UnhookedAlloc, Begin, Goto, MayCall, InProgram,
       ctxVars
  <2> QED  BY <1>1, <2>1 DEF Same, RegisteredInv
<1>4. ASSUME NEW t \in Threads, SelfStep(t) PROVE Same
  BY <1>4, SelfUnrecorded DEF SelfStep, SelfMalloc, SelfFree, RecordAtOnce, Same,
     RegisteredInv
<1>5. ASSUME NEW t \in Threads,
             CheckTracing(t) \/ NewContextLocks(t) \/ EnterGuard(t) \/ Unwind(t) \/ Push(t)
             \/ Finish(t) \/ UnwindThrows(t) \/ PushThrows(t) \/ UndefinedNest(t)
      PROVE  Same
  <2>1. UNCHANGED <<log, counters>>
    BY <1>5 DEF CheckTracing, NewContextLocks, EnterGuard, Unwind, Push, Finish,
       UnwindThrows, PushThrows, UndefinedNest, ctxVars
  <2>2. CASE NewContextLocks(t) \/ EnterGuard(t)
    <3>1. \/ ~Registered(t) /\ pc' = [pc EXCEPT ![t] = "register"]
          \/ Registered(t) /\ pc' = [pc EXCEPT ![t] = "unwind"]
          \/ pc' = [pc EXCEPT ![t] = "finish"]
      BY <2>2 DEF NewContextLocks, EnterGuard, Goto
    <3> QED  BY <1>1, <2>1, <3>1 DEF Same, RegisteredInv
  <2>3. CASE Unwind(t)
    BY <1>1, <2>1, <2>3 DEF Unwind, At, Goto, Same, RegisteredInv
  <2>4. CASE ~NewContextLocks(t) /\ ~EnterGuard(t) /\ ~Unwind(t)
    <3>1. \E w \in {"context", "finish", "idle"} : pc' = [pc EXCEPT ![t] = w]
      BY <1>5, <2>4 DEF CheckTracing, Push, Finish, UnwindThrows, PushThrows, ThrowOut,
         UndefinedNest, Goto
    <3> QED  BY <1>1, <2>1, <3>1 DEF Same, RegisteredInv
  <2> QED  BY <2>2, <2>3, <2>4
<1>6. ASSUME NEW t \in Threads, NewContextPublishes(t) PROVE RegisteredInv'
  <2>1. /\ pc[t] = "register" /\ pc' = [pc EXCEPT ![t] = "context"]
        /\ counters' = Append(counters, t) /\ log' = log
    BY <1>6 DEF NewContextPublishes, At, Goto
  <2>2. /\ Len(counters') = Len(counters) + 1 /\ counters'[Len(counters) + 1] = t
        /\ \A i \in 1..Len(counters) : counters'[i] = counters[i]
    BY <1>1, <2>1
  <2>3. ~Registered(t)
    BY <2>1 DEF RegisteredInv
  <2>4. \A u \in Threads : Registered(u)' <=> Registered(u) \/ u = t
    BY <1>1, <2>2 DEF Registered
  <2>5. \A i, j \in 1..Len(counters') : counters'[i] = counters'[j] => i = j
    BY <1>1, <2>2, <2>3 DEF RegisteredInv, Registered
  <2>6. \A i \in 1..Len(log) : log[i].by \in Threads
    <3>1. log \in Seq(Event)
      BY DEF IInv, LogInv, LogTypeOK
    <3>2. \A i \in 1..Len(log) : log[i] \in Event
      BY <3>1, ElementOfSeq
    <3> QED  BY <3>2 DEF Event
  <2> QED  BY <1>1, <2>1, <2>4, <2>5, <2>6 DEF RegisteredInv
<1>7. ASSUME NEW t \in Threads, Stamp(t) PROVE RegisteredInv'
  <2>1. Registered(t)
    BY <1>7, StampAppends DEF RegisteredInv
  <2>2. \A u : Registered(u)' <=> Registered(u)
    BY <1>7, StampAppends DEF Registered
  <2>3. \A i \in 1..Len(log') : Registered(log'[i].by)
    BY <1>7, <2>1, StampAppends DEF RegisteredInv
  <2> QED  BY <1>1, <1>7, <2>1, <2>2, <2>3, StampAppends DEF RegisteredInv
<1>8. ASSUME NEW t \in Threads,
             NewContextFails(t) \/ ThrowTerminates(t) \/ UndefinedCrash(t)
      PROVE  Same
  BY <1>8 DEF NewContextFails, ThrowTerminates, UndefinedCrash, ctxVars, RegisteredInv, Same
<1>9. CASE QuietExit \/ UNCHANGED vars
  <2>1. UNCHANGED <<log, counters, pc>>
    BY <1>9 DEF QuietExit, Exit, ExitStep, ReportLocks, DrainMoves, DrainClears,
       DrainEnds, Dump, Destroy, DumpFails, ProcessEnds, Terminated, vars, ctxVars
  <2>2. Same
    BY <2>1 DEF Same, RegisteredInv
  <2> QED  BY <1>2, <2>2
<1> QED  BY <1>2, <1>3, <1>4, <1>5, <1>6, <1>7, <1>8, <1>9 DEF Next, QuietExit, HookStep,
         FaultStep

-----------------------------------------------------------------------------
EventsInv == IInv /\ OrderInv /\ CallsInv /\ RegisteredInv

LEMMA EventsInvariant == Spec => []EventsInv
<1>1. Init => EventsInv
  BY InitInv, EventsInit DEF EventsInv
<1>2. EventsInv /\ [Next]_vars => EventsInv'
  BY NextInv, OrderNext, CallsNext, RegisteredNext DEF EventsInv
<1> QED  BY <1>1, <1>2, PTL DEF Spec

(* Threads and detached threads alike store their events in the order of   *)
(* their ids: nothing a thread does between EVENT_COUNTER++ and push_back  *)
(* lets a later event of the same thread overtake.                         *)
THEOREM RuntimeContextInOrder == Spec => []ContextInOrder
<1>1. EventsInv => ContextInOrder
  BY DEF EventsInv, OrderInv, ContextInOrder
<1> QED  BY <1>1, EventsInvariant, PTL

(* While tracing is on, every hook call that returned has stored exactly   *)
(* one event, and the hooks the profiler calls itself have stored none.    *)
THEOREM RuntimeOneEventPerCall == Spec => []OneEventPerCall
<1>1. EventsInv => OneEventPerCall
  <2>1. ASSUME EventsInv, tracing, NEW t \in Threads, pc[t] = "idle"
        PROVE  Len(events[t]) = calls[t]
    <3>1. calls[t] \in Nat
      BY <2>1 DEF EventsInv, IInv, TypeOK, CallTypeOK
    <3> QED  BY <2>1, <3>1 DEF EventsInv, CallsInv
  <2> QED  BY <2>1 DEF OneEventPerCall
<1> QED  BY <1>1, EventsInvariant, PTL

-----------------------------------------------------------------------------
(* The report of a program that joins its threads.  At exit no call is     *)
(* about to store an event, and the loop of generate_report moves one      *)
(* context after the other into the report.                                *)
Joined == ~Detached /\ phase # "terminated"

PhaseFacts ==
    /\ phase \in {"run", "lock"} => next = 1
    /\ phase = "clear" => next =< Len(counters)
    /\ phase \in {"dump", "destroy", "done", "exited"} => next > Len(counters)
    /\ phase # "run" => \A t \in Threads : pc[t] \in {"idle", "check", "finish"}

PhaseInv == Joined => PhaseFacts

LEMMA TerminatedStays ==
    ASSUME [Next]_vars, phase = "terminated" PROVE phase' = "terminated"
<1>1. ASSUME NEW t \in Threads, ProgramStep(t) PROVE phase' = phase
  BY <1>1 DEF ProgramStep, Malloc, MallocFails, ReallocInPlace, ReallocMoves,
     ReallocFails, ReallocToZero, Free, UnhookedAlloc, Begin, exitVars
<1>2. ASSUME NEW t \in Threads, HookStep(t) \/ FaultStep(t) \/ SelfStep(t)
      PROVE  phase' = phase \/ phase' = "terminated"
  BY <1>2 DEF HookStep, CheckTracing, NewContextLocks, NewContextPublishes, EnterGuard,
     Unwind, Stamp, Push, Finish, FaultStep, NewContextFails, UnwindThrows, PushThrows,
     ThrowTerminates, UndefinedCrash, UndefinedNest, SelfStep, SelfMalloc, SelfFree, exitVars
<1>3. CASE QuietExit \/ UNCHANGED vars
  BY <1>3 DEF QuietExit, Exit, ExitStep, ReportLocks, DrainMoves, DrainClears, DrainEnds,
     Dump, Destroy, DumpFails, ProcessEnds, Terminated, vars, exitVars
<1> QED  BY <1>1, <1>2, <1>3 DEF Next, QuietExit

LEMMA PhaseNext == ASSUME IInv, PhaseInv, [Next]_vars PROVE PhaseInv'
<1>1. /\ pc \in [Threads -> PCs] /\ Len(counters) \in Nat /\ next \in Nat
  <2>1. counters \in Seq(Threads)
    BY DEF IInv, TypeOK, CtxTypeOK
  <2> QED  BY <2>1, LenProperties DEF IInv, TypeOK, CallTypeOK, ExitTypeOK
<1>2. SUFFICES ASSUME Joined' PROVE PhaseFacts'
  BY DEF PhaseInv
<1>3. Joined /\ PhaseFacts
  BY <1>2, TerminatedStays DEF Joined, PhaseInv
<1>4. ASSUME NEW t \in Threads, ProgramStep(t) PROVE PhaseFacts'
  <2>1. /\ UNCHANGED <<phase, next, counters>>
        /\ pc' = pc \/ pc' = [pc EXCEPT ![t] = "check"]
    BY <1>4 DEF ProgramStep, Malloc, MallocFails, ReallocInPlace, ReallocMoves,
       ReallocFails, ReallocToZero, Free, UnhookedAlloc, Begin, Goto, ctxVars, exitVars
  <2> QED  BY <1>1, <1>3, <2>1 DEF PhaseFacts
<1>5. ASSUME NEW t \in Threads, HookStep(t) \/ FaultStep(t) PROVE PhaseFacts'
  <2>1. ~NewContextFails(t) /\ ~ThrowTerminates(t) /\ ~UndefinedCrash(t)
    BY <1>2 DEF Joined, NewContextFails, ThrowTerminates, UndefinedCrash
  <2>2. UNCHANGED <<phase, next>>
    BY <1>5, <2>1 DEF HookStep, CheckTracing, NewContextLocks, NewContextPublishes,
       EnterGuard, Unwind, Stamp, Push, Finish, FaultStep, UnwindThrows, PushThrows,
       UndefinedNest, exitVars
  <2>3. CASE phase = "run"
    BY <1>3, <2>2, <2>3 DEF PhaseFacts
  <2>4. CASE phase # "run"
    <3>1. pc[t] \in {"idle", "check", "finish"} /\ ~tracing
      BY <1>3, <2>4 DEF PhaseFacts, Joined, IInv, TracingOff
    <3>2. CheckTracing(t) \/ Finish(t)
      BY <1>5, <2>1, <3>1 DEF HookStep, NewContextLocks, NewContextPublishes, EnterGuard,
         Unwind, Stamp, Push, FaultStep, UnwindThrows, PushThrows, UndefinedNest, At
    <3>3. /\ UNCHANGED counters
          /\ pc' = [pc EXCEPT ![t] = "finish"] \/ pc' = [pc EXCEPT ![t] = "idle"]
      BY <3>1, <3>2 DEF CheckTracing, Finish, Goto, ctxVars
    <3> QED  BY <1>1, <1>3, <2>2, <3>3 DEF PhaseFacts
  <2> QED  BY <2>3, <2>4
<1>6. ASSUME NEW t \in Threads, SelfStep(t) PROVE PhaseFacts'
  BY <1>3, <1>6 DEF SelfStep, SelfMalloc, SelfFree, exitVars, PhaseFacts
<1>7. CASE Exit
  <2>1. \A t \in Threads : pc[t] = "idle"
    BY <1>3, <1>7 DEF Exit, InCall, Joined
  <2> QED  BY <1>3, <1>7, <2>1 DEF Exit, PhaseFacts, ctxVars
<1>8. CASE ReportLocks \/ DrainMoves \/ DrainClears \/ DrainEnds
  <2>1. UNCHANGED <<pc, counters>> /\ phase # "run" /\ phase' \notin {"run", "lock"}
    BY <1>8 DEF ReportLocks, DrainMoves, DrainClears, DrainEnds, ctxVars
  <2>2. \/ phase' = "drain"
        \/ phase' = "clear" /\ next' = next /\ next =< Len(counters)
        \/ phase' = "dump" /\ next' = next /\ next > Len(counters)
    <3>1. CASE ReportLocks \/ DrainClears
      BY <3>1 DEF ReportLocks, DrainClears
    <3>2. CASE DrainMoves
      BY <3>2 DEF DrainMoves
    <3>3. CASE DrainEnds
      BY <3>3 DEF DrainEnds, exitVars
    <3> QED  BY <1>8, <3>1, <3>2, <3>3
  <2>3. \A t \in Threads : pc'[t] \in {"idle", "check", "finish"}
    BY <1>3, <2>1 DEF PhaseFacts
  <2>4. counters' = counters
    BY <2>1
  <2> QED  BY <2>2, <2>3, <2>4 DEF PhaseFacts
<1>9. CASE Dump \/ Destroy \/ ProcessEnds
  <2>1. /\ UNCHANGED <<pc, counters, next>> /\ phase \in {"dump", "destroy", "done"}
        /\ phase' \in {"destroy", "done", "exited"}
    BY <1>9 DEF Dump, Destroy, ProcessEnds, ctxVars
  <2> QED  BY <1>1, <1>3, <2>1 DEF PhaseFacts
<1>10. CASE DumpFails
  BY <1>2, <1>10 DEF DumpFails, Joined
<1>11. CASE Terminated \/ UNCHANGED vars
  BY <1>3, <1>11 DEF Terminated, vars, ctxVars, exitVars, PhaseFacts
<1> QED  BY <1>4, <1>5, <1>6, <1>7, <1>8, <1>9, <1>10, <1>11 DEF Next, ExitStep

-----------------------------------------------------------------------------
(* Where each event is.  Drained(t): the report has taken what t stored.   *)
Held(t) == {events[t][i] : i \in 1..Len(events[t])}

Drained(t) ==
    \E k \in 1..Len(counters) :
        counters[k] = t /\ (k < next \/ (k = next /\ phase = "clear"))

Counted(t) ==
    {i \in 1..Len(log) : log[i].by = t /\ log[i].type # "FREE"} \ Storing(t)

DrainedEvents == {i \in 1..Len(log) : Drained(log[i].by)}

DrainedAllocs == {i \in DrainedEvents : log[i].type # "FREE"}

Moved == {report.events[i] : i \in 1..Len(report.events)}

ReportFacts ==
    /\ \A i, j \in 1..Len(report.events) :
           report.events[i] = report.events[j] => i = j
    /\ Moved = DrainedEvents \ dropped
    /\ report.total = Cardinality(DrainedAllocs)

PlaceFacts ==
    /\ ReportFacts
    /\ dropped \subseteq 1..Len(log)
    /\ \A t \in Threads : ~Drained(t) =>
           /\ \A i \in 1..Len(log) : log[i].by = t =>
                  i \in Held(t) \/ i \in Storing(t) \/ i \in dropped
           /\ total[t] = Cardinality(Counted(t))
    /\ \A t \in Threads : \A i \in dropped : i \notin Held(t) /\ i \notin Storing(t)

PlaceInv == Joined => PlaceFacts

LEMMA PlaceInit == ASSUME Init PROVE PhaseInv /\ PlaceInv
<1>1. /\ phase = "run" /\ next = 1 /\ log = << >> /\ counters = << >> /\ dropped = {}
      /\ report.events = << >> /\ report.total = 0
      /\ \A t \in Threads : pc[t] = "idle" /\ events[t] = << >> /\ total[t] = 0
  BY DEF Init, LogInit
<1>2. PhaseInv
  BY <1>1 DEF PhaseInv, PhaseFacts
<1>3. 1..0 = {}
  OBVIOUS
<1>4. Len(log) = 0 /\ Len(counters) = 0 /\ Len(report.events) = 0
  BY <1>1
<1>5. \A t : ~Drained(t)
  BY <1>3, <1>4 DEF Drained
<1>6. /\ DrainedAllocs = {} /\ \A t : Counted(t) = {}
      /\ DrainedEvents = {}
      /\ Moved = {}
  BY <1>3, <1>4 DEF DrainedAllocs, DrainedEvents, Counted, Moved
<1>7. Cardinality({}) = 0
  BY FS_EmptySet
<1> QED  BY <1>1, <1>2, <1>3, <1>4, <1>6, <1>7 DEF PlaceInv, PlaceFacts, ReportFacts

(* Only the loop of generate_report changes what is drained.               *)
LEMMA DrainedKept ==
    ASSUME IInv, PhaseInv, [Next]_vars, Joined', ~DrainMoves
    PROVE  \A t : Drained(t)' <=> Drained(t)
<1>1. /\ pc \in [Threads -> PCs] /\ Len(counters) \in Nat /\ next \in Nat
  <2>1. counters \in Seq(Threads)
    BY DEF IInv, TypeOK, CtxTypeOK
  <2> QED  BY <2>1, LenProperties DEF IInv, TypeOK, CallTypeOK, ExitTypeOK
<1>2. PhaseFacts
  BY TerminatedStays DEF Joined, PhaseInv
<1>3. /\ \A t \in Threads : ~NewContextFails(t) /\ ~ThrowTerminates(t) /\ ~UndefinedCrash(t)
      /\ ~DumpFails
  BY DEF Joined, NewContextFails, ThrowTerminates, UndefinedCrash, DumpFails
<1> DEFINE Same == UNCHANGED <<counters, next>> /\ (phase' = "clear" <=> phase = "clear")
<1>4. Same => \A t : Drained(t)' <=> Drained(t)
  BY DEF Drained
<1> HIDE DEF Same
<1>5. ASSUME NEW t \in Threads, ProgramStep(t) \/ SelfStep(t) PROVE Same
  BY <1>5 DEF ProgramStep, Malloc, MallocFails, ReallocInPlace, ReallocMoves,
     ReallocFails, ReallocToZero, Free, UnhookedAlloc, Begin, SelfStep, SelfMalloc,
     SelfFree, ctxVars, exitVars, Same
<1>6. ASSUME NEW t \in Threads, HookStep(t) \/ FaultStep(t), ~NewContextPublishes(t)
      PROVE  Same
  BY <1>3, <1>6 DEF HookStep, CheckTracing, NewContextLocks, EnterGuard, Unwind, Stamp,
     Push, Finish, FaultStep, UnwindThrows, PushThrows, UndefinedNest, ctxVars, exitVars, Same
<1>7. ASSUME NEW t \in Threads, NewContextPublishes(t)
      PROVE  \A u : Drained(u)' <=> Drained(u)
  <2>1. /\ UNCHANGED <<next, phase>> /\ pc[t] = "register"
    BY <1>7 DEF NewContextPublishes, At, exitVars
  <2>2. phase = "run" /\ next = 1
    BY <1>2, <2>1 DEF PhaseFacts
  <2>3. \A k \in 1..Len(counters) : ~(k < next)
    BY <1>1, <2>2
  <2>4. \A k \in 1..Len(counters') : ~(k < next')
    BY <1>1, <2>1, <2>2
  <2> QED  BY <2>1, <2>2, <2>3, <2>4 DEF Drained
<1>8. CASE DrainClears
  <2>1. /\ UNCHANGED counters /\ next' = next + 1 /\ phase = "clear" /\ phase' = "drain"
    BY <1>8 DEF DrainClears
  <2>2. \A k \in 1..Len(counters) : (k < next \/ k = next) <=> k < next'
    BY <1>1, <2>1
  <2> QED  BY <2>1, <2>2 DEF Drained
<1>9. CASE Exit \/ ReportLocks \/ DrainEnds \/ Dump \/ Destroy \/ ProcessEnds \/ Terminated
           \/ UNCHANGED vars
  <2>1. Same
    BY <1>9 DEF Exit, ReportLocks, DrainEnds, Dump, Destroy, ProcessEnds, Terminated, vars,
       ctxVars, exitVars, Same
  <2> QED  BY <1>4, <2>1
<1> QED  BY <1>3, <1>4, <1>5, <1>6, <1>7, <1>8, <1>9 DEF Next, ExitStep

LEMMA KeptReport ==
    ASSUME ReportFacts, report' = report, DrainedEvents' \ dropped' = DrainedEvents \ dropped,
           DrainedAllocs' = DrainedAllocs
    PROVE  ReportFacts'
<1>1. Moved' = Moved
  BY DEF Moved
<1> QED  BY <1>1 DEF ReportFacts

(* A step that moves no event and drains no context.                       *)
LEMMA KeptPlaces ==
    ASSUME IInv, PlaceFacts, EventsKept, \A t : Drained(t)' <=> Drained(t)
    PROVE  PlaceFacts'
<1>1. /\ log' = log /\ total' = total /\ report' = report /\ dropped' = dropped
      /\ \A t \in Threads : Held(t)' = Held(t) /\ Storing(t)' = Storing(t)
  BY DEF EventsKept, Held, Storing
<1>2. DrainedEvents' = DrainedEvents
  BY <1>1 DEF DrainedEvents, Drained
<1>3. DrainedAllocs' = DrainedAllocs /\ \A t \in Threads : Counted(t)' = Counted(t)
  BY <1>1, <1>2 DEF DrainedAllocs, Counted
<1>4. ReportFacts'
  BY <1>1, <1>2, <1>3, KeptReport DEF PlaceFacts
<1> QED  BY <1>1, <1>3, <1>4 DEF PlaceFacts

(* While the program runs nothing is drained.                              *)
LEMMA RunDrainsNothing ==
    ASSUME IInv, PhaseFacts, phase = "run" PROVE \A t : ~Drained(t)
<1>1. next = 1 /\ Len(counters) \in Nat
  <2>1. counters \in Seq(Threads)
    BY DEF IInv, TypeOK, CtxTypeOK
  <2> QED  BY <2>1, LenProperties DEF PhaseFacts
<1>2. \A k \in 1..Len(counters) : ~(k < next)
  BY <1>1
<1> QED  BY <1>2 DEF Drained

LEMMA StampPlaces ==
    ASSUME EventsInv, PhaseFacts, PlaceFacts, NEW t \in Threads, Stamp(t),
           \A u : Drained(u)' <=> Drained(u), \A u : ~Drained(u)
    PROVE  PlaceFacts'
<1>1. /\ pc \in [Threads -> PCs] /\ req \in [Threads -> RequestType]
      /\ Len(log) \in Nat
  BY StampAppends DEF EventsInv, IInv, TypeOK, CallTypeOK
<1>2. /\ Len(log') = Len(log) + 1 /\ pc[t] = "stamp"
      /\ \A i \in 1..Len(log) : log'[i] = log[i]
      /\ log'[Len(log) + 1].by = t
      /\ UNCHANGED <<events, total, report, dropped>>
  BY StampAppends DEF EventsInv
<1>3. /\ Storing(t) = {} /\ Storing(t)' = {Len(log) + 1}
      /\ \A u \in Threads \ {t} : Storing(u)' = Storing(u)
  <2>1. req'[t].id = Len(log) + 1 /\ pc'[t] = "push"
    BY <1>1, StampAppends DEF EventsInv, RequestType
  <2>2. \A u \in Threads \ {t} : req'[u] = req[u] /\ pc'[u] = pc[u]
    BY <1>1, StampAppends DEF EventsInv
  <2> QED  BY <1>2, <2>1, <2>2 DEF Storing
<1>4. \A u : Held(u)' = Held(u)
  BY <1>2 DEF Held
<1>5. ASSUME NEW u \in Threads PROVE Counted(u)' = Counted(u)
  <2>1. ASSUME NEW i PROVE i \in Counted(u)' <=> i \in Counted(u)
    <3>1. CASE i \in 1..Len(log)
      <4>1. i \in 1..Len(log') /\ log'[i] = log[i]
        BY <1>1, <1>2, <3>1
      <4>2. i \in Storing(u)' <=> i \in Storing(u)
        BY <1>1, <1>3, <3>1
      <4> QED  BY <3>1, <4>1, <4>2 DEF Counted
    <3>2. CASE i = Len(log) + 1
      <4>1. i \notin 1..Len(log)
        BY <1>1, <3>2
      <4> QED  BY <1>2, <1>3, <3>2, <4>1 DEF Counted
    <3>3. CASE i \notin 1..Len(log) /\ i # Len(log) + 1
      BY <1>1, <1>2, <3>3 DEF Counted
    <3> QED  BY <3>1, <3>2, <3>3
  <2> QED  BY <2>1 DEF Counted
<1>6. \A u \in Threads : \A i \in 1..Len(log') : log'[i].by = u =>
          i \in Held(u) \/ i \in Storing(u)' \/ i \in dropped
  <2>1. ASSUME NEW u \in Threads, NEW i \in 1..Len(log'), log'[i].by = u
        PROVE  i \in Held(u) \/ i \in Storing(u)' \/ i \in dropped
    <3>1. CASE i = Len(log) + 1
      BY <1>2, <1>3, <2>1, <3>1
    <3>2. CASE i # Len(log) + 1
      <4>1. i \in 1..Len(log) /\ log[i].by = u
        BY <1>1, <1>2, <2>1, <3>2
      <4>2. i \in Held(u) \/ i \in Storing(u) \/ i \in dropped
        BY <4>1 DEF PlaceFacts
      <4> QED  BY <1>3, <4>2
    <3> QED  BY <3>1, <3>2
  <2> QED  BY <2>1
<1>7. DrainedAllocs = {} /\ DrainedAllocs' = {}
      /\ DrainedEvents = {} /\ DrainedEvents' = {}
  BY DEF DrainedAllocs, DrainedEvents, Drained
<1>8. dropped \subseteq 1..Len(log') /\ Len(log) + 1 \notin dropped
  BY <1>1, <1>2 DEF PlaceFacts
<1>9. \A u \in Threads :
          /\ \A i \in 1..Len(log') : log'[i].by = u =>
                 i \in Held(u)' \/ i \in Storing(u)' \/ i \in dropped'
          /\ total'[u] = Cardinality(Counted(u)')
  BY <1>2, <1>4, <1>5, <1>6 DEF PlaceFacts
<1>10. \A u \in Threads : \A i \in dropped' : i \notin Held(u)' /\ i \notin Storing(u)'
  BY <1>2, <1>3, <1>4, <1>8 DEF PlaceFacts
<1>11. ReportFacts'
  BY <1>2, <1>7, KeptReport DEF PlaceFacts
<1> QED
  BY <1>2, <1>8, <1>9, <1>10, <1>11 DEF PlaceFacts

(* An event that leaves a hook, for its context or by an exception, is      *)
(* counted; it is then stored or dropped.                                  *)
LEMMA CountPlaces ==
    ASSUME EventsInv, PlaceFacts, NEW t \in Threads, pc[t] = "push", CountAlloc(t),
           Storing(t)' = {}, log' = log, \A u : ~Drained(u),
           \A u \in Threads \ {t} : Storing(u)' = Storing(u)
    PROVE  \A u \in Threads : total'[u] = Cardinality(Counted(u)')
<1>1. /\ total \in [Threads -> Nat] /\ Len(log) \in Nat
      /\ req[t].id \in 1..Len(log) /\ log[req[t].id].by = t
      /\ log[req[t].id].type = req[t].type
  <2>1. log \in Seq(Event)
    BY DEF EventsInv, IInv, LogInv, LogTypeOK
  <2> QED  BY <2>1, LenProperties DEF EventsInv, IInv, TypeOK, CtxTypeOK, OrderInv
<1>2. ASSUME NEW u \in Threads, u # t PROVE total'[u] = Cardinality(Counted(u)')
  <2>1. Counted(u)' = Counted(u) /\ total'[u] = total[u]
    BY <1>1, <1>2 DEF Counted, CountAlloc
  <2> QED  BY <2>1 DEF PlaceFacts
<1>3. /\ total[t] = Cardinality(Counted(t)) /\ IsFiniteSet(Counted(t))
  <2>1. IsFiniteSet(1..Len(log)) /\ Counted(t) \in SUBSET (1..Len(log))
    BY <1>1, FS_Interval DEF Counted
  <2> QED  BY <2>1, FS_Subset DEF PlaceFacts
<1>4. Storing(t) = {req[t].id}
  BY DEF Storing
<1>5. CASE req[t].type = "FREE"
  <2>1. Counted(t)' = Counted(t)
    BY <1>1, <1>4, <1>5 DEF Counted
  <2>2. total'[t] = total[t]
    BY <1>1, <1>5 DEF CountAlloc
  <2> QED  BY <1>2, <1>3, <2>1, <2>2
<1>6. CASE req[t].type # "FREE"
  <2>1. Counted(t)' = Counted(t) \cup {req[t].id} /\ req[t].id \notin Counted(t)
    BY <1>1, <1>4, <1>6 DEF Counted
  <2>2. total'[t] = total[t] + 1
    BY <1>1, <1>6 DEF CountAlloc
  <2>3. Cardinality(Counted(t) \cup {req[t].id}) = Cardinality(Counted(t)) + 1
    BY <1>3, <2>1, FS_AddElement
  <2> QED  BY <1>2, <1>3, <2>1, <2>2, <2>3
<1> QED  BY <1>5, <1>6

LEMMA PushPlaces ==
    ASSUME EventsInv, PhaseFacts, PlaceFacts, NEW t \in Threads, Push(t) \/ PushThrows(t),
           \A u : Drained(u)' <=> Drained(u), \A u : ~Drained(u)
    PROVE  PlaceFacts'
<1>1. /\ pc \in [Threads -> PCs] /\ req \in [Threads -> RequestType]
      /\ Len(log) \in Nat /\ events \in [Threads -> Seq(Nat)]
  <2>1. log \in Seq(Event)
    BY DEF EventsInv, IInv, LogInv, LogTypeOK
  <2> QED  BY <2>1, LenProperties DEF EventsInv, IInv, TypeOK, CallTypeOK, CtxTypeOK
<1>2. /\ UNCHANGED <<log, report>> /\ pc[t] = "push" /\ CountAlloc(t) /\ pc'[t] # "push"
      /\ \A u \in Threads \ {t} :
             pc'[u] = pc[u] /\ req'[u] = req[u] /\ events'[u] = events[u]
  <2>1. CASE Push(t)
    BY <1>1, <2>1 DEF Push, At, Goto, exitVars
  <2>2. CASE PushThrows(t)
    BY <1>1, <2>2 DEF PushThrows, ThrowOut, At, Goto, exitVars
  <2> QED  BY <2>1, <2>2
<1>3. /\ Storing(t) = {req[t].id} /\ Storing(t)' = {}
      /\ \A u \in Threads \ {t} : Storing(u)' = Storing(u) /\ Held(u)' = Held(u)
  BY <1>2 DEF Storing, Held
<1>4. \A u \in Threads : total'[u] = Cardinality(Counted(u)')
  BY <1>2, <1>3, CountPlaces
<1>5. /\ req[t].id \in 1..Len(log) /\ log[req[t].id].by = t
      /\ \A u \in Threads : \A i \in Held(u) : log[i].by = u
      /\ \A u \in Threads : \A i \in Storing(u) : log[i].by = u
      /\ req[t].id \notin Held(t)
  <2>1. /\ req[t].id \in 1..Len(log) /\ log[req[t].id].by = t
        /\ \A i \in 1..Len(events[t]) : events[t][i] < req[t].id
    BY <1>2 DEF EventsInv, OrderInv
  <2>2. \A u \in Threads : \A i \in Held(u) : log[i].by = u
    BY DEF EventsInv, OrderInv, Held
  <2>3. \A u \in Threads : \A i \in Storing(u) : log[i].by = u
    BY DEF EventsInv, OrderInv, Storing
  <2>4. req[t].id \notin Held(t)
    <3>1. \A i \in 1..Len(events[t]) : events[t][i] # req[t].id
      BY <1>1, <2>1
    <3> QED  BY <3>1 DEF Held
  <2> QED  BY <2>1, <2>2, <2>3, <2>4
<1>6. DrainedAllocs' = {} /\ DrainedEvents' = {} /\ DrainedAllocs = {} /\ DrainedEvents = {}
  BY DEF DrainedAllocs, DrainedEvents, Drained
<1>7. \/ Held(t)' = Held(t) \cup {req[t].id} /\ dropped' = dropped
      \/ Held(t)' = Held(t) /\ dropped' = dropped \cup {req[t].id}
  <2>1. CASE Push(t)
    <3>1. /\ Len(events'[t]) = Len(events[t]) + 1 /\ Len(events[t]) \in Nat
          /\ events'[t][Len(events[t]) + 1] = req[t].id /\ dropped' = dropped
          /\ \A i \in 1..Len(events[t]) : events'[t][i] = events[t][i]
      BY <2>1, PushAppends DEF EventsInv
    <3>2. 1..Len(events'[t]) = 1..Len(events[t]) \cup {Len(events[t]) + 1}
      BY <3>1
    <3>3. ASSUME NEW x PROVE x \in Held(t)' <=> x \in Held(t) \/ x = req[t].id
      <4>1. x \in Held(t)' <=> \E i \in 1..Len(events'[t]) : x = events'[t][i]
        BY DEF Held
      <4>2. x \in Held(t) <=> \E i \in 1..Len(events[t]) : x = events[t][i]
        BY DEF Held
      <4> QED  BY <3>1, <3>2, <4>1, <4>2
    <3>4. Held(t)' = Held(t) \cup {req[t].id}
      BY <3>3
    <3> QED  BY <3>1, <3>4
  <2>2. CASE PushThrows(t)
    BY <2>2 DEF PushThrows, Held
  <2> QED  BY <2>1, <2>2
<1>8. \A u \in Threads : \A i \in dropped' : i \notin Held(u)' /\ i \notin Storing(u)'
  <2>1. \A u \in Threads : \A i \in dropped : i \notin Held(u) /\ i \notin Storing(u)
    BY DEF PlaceFacts
  <2> QED  BY <1>3, <1>5, <1>7, <2>1
<1>9. \A u \in Threads : \A i \in 1..Len(log) : log[i].by = u =>
          i \in Held(u)' \/ i \in Storing(u)' \/ i \in dropped'
  <2>1. \A u \in Threads : \A i \in 1..Len(log) : log[i].by = u =>
            i \in Held(u) \/ i \in Storing(u) \/ i \in dropped
    BY DEF PlaceFacts
  <2> QED  BY <1>3, <1>7, <2>1
<1>10. dropped' \subseteq 1..Len(log)
  BY <1>5, <1>7 DEF PlaceFacts
<1>11. ReportFacts'
  BY <1>2, <1>6, KeptReport DEF PlaceFacts
<1> QED  BY <1>2, <1>4, <1>8, <1>9, <1>10, <1>11 DEF PlaceFacts

LEMMA ConcatElements ==
    ASSUME NEW s \in Seq(Nat), NEW r \in Seq(Nat),
           \A i, j \in 1..Len(s) : s[i] = s[j] => i = j,
           \A i, j \in 1..Len(r) : r[i] = r[j] => i = j,
           \A i \in 1..Len(s), j \in 1..Len(r) : s[i] # r[j]
    PROVE  /\ \A i, j \in 1..Len(s \o r) : (s \o r)[i] = (s \o r)[j] => i = j
           /\ {(s \o r)[i] : i \in 1..Len(s \o r)} =
                  {s[i] : i \in 1..Len(s)} \cup {r[i] : i \in 1..Len(r)}
<1>1. PICK m, n \in Nat : m = Len(s) /\ n = Len(r)
  BY LenProperties
<1>2. SUFFICES ASSUME NEW q, q = s \o r
               PROVE  /\ \A i, j \in 1..Len(q) : q[i] = q[j] => i = j
                      /\ {q[i] : i \in 1..Len(q)} =
                             {s[i] : i \in 1..Len(s)} \cup {r[i] : i \in 1..Len(r)}
  OBVIOUS
<1>3. /\ Len(q) = m + n
      /\ \A i \in 1..(m + n) : q[i] = IF i =< m THEN s[i] ELSE r[i - m]
  BY <1>1, <1>2, ConcatProperties
<1>4. ASSUME NEW i \in 1..(m + n)
      PROVE  /\ i =< m => i \in 1..m /\ q[i] = s[i]
             /\ i > m => i - m \in 1..n /\ q[i] = r[i - m]
  <2>1. /\ i =< m => i \in 1..m
        /\ i > m => i - m \in 1..n /\ ~(i =< m)
    OBVIOUS
  <2> QED  BY <1>3, <2>1
<1>5. ASSUME NEW i \in 1..Len(q), NEW j \in 1..Len(q), q[i] = q[j] PROVE i = j
  <2>1. i \in 1..(m + n) /\ j \in 1..(m + n)
    BY <1>3
  <2>2. CASE i =< m /\ j =< m
    BY <1>1, <1>3, <1>5, <2>1, <2>2
  <2>3. CASE i > m /\ j > m
    <3>1. i - m \in 1..n /\ q[i] = r[i - m]
      BY <1>4, <2>1, <2>3
    <3>2. j - m \in 1..n /\ q[j] = r[j - m]
      BY <1>4, <2>1, <2>3
    <3>3. i - m = j - m
      BY <1>1, <1>5, <3>1, <3>2
    <3> QED  BY <2>1, <3>3
  <2>4. CASE i =< m /\ j > m
    <3>1. i \in 1..m /\ q[i] = s[i]
      BY <1>4, <2>1, <2>4
    <3>2. j - m \in 1..n /\ q[j] = r[j - m]
      BY <1>4, <2>1, <2>4
    <3> QED  BY <1>1, <1>5, <3>1, <3>2
  <2>5. CASE i > m /\ j =< m
    <3>1. i - m \in 1..n /\ q[i] = r[i - m]
      BY <1>4, <2>1, <2>5
    <3>2. j \in 1..m /\ q[j] = s[j]
      BY <1>4, <2>1, <2>5
    <3> QED  BY <1>1, <1>5, <3>1, <3>2
  <2> QED  BY <2>1, <2>2, <2>3, <2>4, <2>5
<1>6. {q[i] : i \in 1..Len(q)} = {s[i] : i \in 1..Len(s)} \cup {r[i] : i \in 1..Len(r)}
  <2>1. ASSUME NEW i \in 1..m PROVE i \in 1..(m + n) /\ q[i] = s[i]
    BY <1>3
  <2>2. ASSUME NEW i \in 1..n PROVE m + i \in 1..(m + n) /\ q[m + i] = r[i]
    <3>1. m + i \in 1..(m + n) /\ ~(m + i =< m) /\ (m + i) - m = i
      OBVIOUS
    <3> QED  BY <1>3, <3>1
  <2>3. ASSUME NEW x
        PROVE  x \in {q[i] : i \in 1..(m + n)} <=>
                   x \in {s[i] : i \in 1..m} \/ x \in {r[i] : i \in 1..n}
    <3>1. CASE x \in {q[i] : i \in 1..(m + n)}
      <4>1. PICK i \in 1..(m + n) : x = q[i]
        BY <3>1
      <4>2. CASE i =< m
        <5>1. i \in 1..m /\ x = s[i]
          BY <1>4, <4>1, <4>2
        <5>2. x \in {s[k] : k \in 1..m}
          BY <5>1
        <5> QED  BY <3>1, <5>2
      <4>3. CASE i > m
        <5>1. PICK j \in 1..n : j = i - m
          BY <1>4, <4>3
        <5>2. x = r[j]
          BY <1>4, <4>1, <4>3, <5>1
        <5>3. x \in {r[k] : k \in 1..n}
          BY <5>2
        <5> QED  BY <3>1, <5>3
      <4> QED  BY <4>2, <4>3
    <3>2. CASE x \in {s[i] : i \in 1..m}
      BY <2>1, <3>2
    <3>3. CASE x \in {r[i] : i \in 1..n}
      <4>1. PICK i \in 1..n : x = r[i]
        BY <3>3
      <4>2. PICK j \in 1..(m + n) : x = q[j]
        BY <2>2, <4>1
      <4> QED  BY <3>3, <4>2
    <3> QED  BY <3>1, <3>2, <3>3
  <2>4. {q[i] : i \in 1..(m + n)} = {s[i] : i \in 1..m} \cup {r[i] : i \in 1..n}
    BY <2>3
  <2> QED  BY <1>1, <1>3, <2>4
<1> QED  BY <1>5, <1>6

LEMMA DrainClearsPlaces ==
    ASSUME EventsInv, PhaseFacts, PlaceFacts, DrainClears, \A u : Drained(u)' <=> Drained(u)
    PROVE  PlaceFacts'
<1>1. /\ UNCHANGED <<log, total, report, dropped, pc, req>> /\ phase = "clear"
      /\ events' = [events EXCEPT ![counters[next]] = << >>]
  BY DEF DrainClears, history
<1>2. /\ events \in [Threads -> Seq(Nat)] /\ next \in 1..Len(counters)
      /\ counters[next] \in Threads
  <2>1. counters \in Seq(Threads) /\ next \in Nat \ {0} /\ next =< Len(counters)
    BY <1>1 DEF EventsInv, IInv, TypeOK, CtxTypeOK, ExitTypeOK, PhaseFacts
  <2>2. next \in 1..Len(counters)
    BY <2>1, LenProperties
  <2> QED  BY <2>1, <2>2, ElementOfSeq DEF EventsInv, IInv, TypeOK, CtxTypeOK
<1>3. Drained(counters[next])
  BY <1>1, <1>2 DEF Drained
<1>4. PICK c \in Threads : c = counters[next] /\ Drained(c)
  BY <1>2, <1>3
<1>5. /\ \A u \in Threads : Storing(u)' = Storing(u) /\ Counted(u)' = Counted(u)
      /\ \A u \in Threads : u # c => Held(u)' = Held(u)
      /\ Held(c)' = {}
  <2>1. \A u \in Threads : Storing(u)' = Storing(u)
    BY <1>1 DEF Storing
  <2>2. \A u \in Threads : Counted(u)' = Counted(u)
    BY <1>1, <2>1 DEF Counted
  <2>3. \A u \in Threads : u # c => events'[u] = events[u]
    BY <1>1, <1>2, <1>4
  <2>4. events'[c] = << >> /\ 1..Len(<< >>) = {}
    BY <1>1, <1>2, <1>4
  <2>5. Held(c)' = {}
    BY <2>4 DEF Held
  <2> QED  BY <2>1, <2>2, <2>3, <2>5 DEF Held
<1>6. DrainedEvents' = DrainedEvents /\ DrainedAllocs' = DrainedAllocs
  <2>1. DrainedEvents' = DrainedEvents
    BY <1>1 DEF DrainedEvents, Drained
  <2> QED  BY <1>1, <2>1 DEF DrainedAllocs
<1>7. ReportFacts'
  BY <1>1, <1>6, KeptReport DEF PlaceFacts
<1>8. \A u \in Threads : ~Drained(u)' =>
          /\ \A i \in 1..Len(log) : log[i].by = u =>
                 i \in Held(u)' \/ i \in Storing(u)' \/ i \in dropped
          /\ total[u] = Cardinality(Counted(u)')
  <2>1. ASSUME NEW u \in Threads, ~Drained(u)'
        PROVE  ~Drained(u) /\ u # c
    BY <1>4, <2>1
  <2> QED  BY <1>5, <2>1 DEF PlaceFacts
<1>9. \A u \in Threads : \A i \in dropped : i \notin Held(u)' /\ i \notin Storing(u)'
  BY <1>5 DEF PlaceFacts
<1>10. dropped \subseteq 1..Len(log)
  BY DEF PlaceFacts
<1> QED  BY <1>1, <1>7, <1>8, <1>9, <1>10 DEF PlaceFacts

LEMMA DrainMovesPlaces ==
    ASSUME EventsInv, PhaseFacts, PlaceFacts, DrainMoves
    PROVE  PlaceFacts'
<1>1. /\ UNCHANGED <<log, events, dropped, pc, req, counters, next>>
      /\ phase = "drain" /\ phase' = "clear" /\ next =< Len(counters)
      /\ total' = [total EXCEPT ![counters[next]] = 0]
      /\ report'.events = report.events \o events[counters[next]]
      /\ report'.total = report.total + total[counters[next]]
  BY DEF DrainMoves, history
<1>2. /\ events \in [Threads -> Seq(Nat)] /\ total \in [Threads -> Nat]
      /\ report.events \in Seq(Nat) /\ report.total \in Nat
      /\ Len(log) \in Nat /\ Len(counters) \in Nat /\ next \in 1..Len(counters)
      /\ counters[next] \in Threads
  <2>1. /\ counters \in Seq(Threads) /\ next \in Nat \ {0} /\ log \in Seq(Event)
        /\ events \in [Threads -> Seq(Nat)] /\ total \in [Threads -> Nat]
        /\ report.events \in Seq(Nat) /\ report.total \in Nat
    BY DEF EventsInv, IInv, TypeOK, CtxTypeOK, ExitTypeOK, LogInv, LogTypeOK
  <2>2. Len(counters) \in Nat /\ Len(log) \in Nat
    BY <2>1, LenProperties
  <2>3. next \in 1..Len(counters)
    BY <1>1, <2>1, <2>2
  <2> QED  BY <2>1, <2>2, <2>3, ElementOfSeq
<1>3. PICK c \in Threads : c = counters[next]
  BY <1>2
<1>4. ~Drained(c) /\ \A u : Drained(u)' <=> Drained(u) \/ u = c
  <2>1. \A i, j \in 1..Len(counters) : counters[i] = counters[j] => i = j
    BY DEF EventsInv, RegisteredInv
  <2>2. \A k \in 1..Len(counters) : (k < next \/ k = next) /\ k < next => k # next
    BY <1>2
  <2> QED  BY <1>1, <1>2, <1>3, <2>1, <2>2 DEF Drained
<1>5. /\ Storing(c) = {} /\ \A u \in Threads : Storing(u)' = Storing(u)
      /\ \A u \in Threads : Held(u)' = Held(u) /\ Counted(u)' = Counted(u)
  <2>1. Storing(c) = {}
    BY <1>1 DEF PhaseFacts, Storing
  <2>2. \A u \in Threads : Held(u)' = Held(u) /\ Storing(u)' = Storing(u)
    BY <1>1 DEF Held, Storing
  <2>3. \A u \in Threads : Counted(u)' = Counted(u)
    BY <1>1, <2>2 DEF Counted
  <2> QED  BY <2>1, <2>2, <2>3
<1>6. /\ DrainedEvents' = DrainedEvents \cup {i \in 1..Len(log) : log[i].by = c}
      /\ DrainedEvents \cap {i \in 1..Len(log) : log[i].by = c} = {}
  <2>1. DrainedEvents' = {i \in 1..Len(log) : Drained(log[i].by) \/ log[i].by = c}
    <3>1. ASSUME NEW i \in 1..Len(log), NEW u, u = log[i].by
          PROVE  i \in DrainedEvents' <=> Drained(u) \/ u = c
      <4>1. i \in DrainedEvents' <=> Drained(u)'
        BY <1>1, <3>1 DEF DrainedEvents, Drained
      <4> QED  BY <1>4, <4>1
    <3>2. \A i \in DrainedEvents' : i \in 1..Len(log)
      BY <1>1 DEF DrainedEvents
    <3> QED  BY <3>1, <3>2
  <2> QED  BY <1>4, <2>1 DEF DrainedEvents
<1>7. {i \in 1..Len(log) : log[i].by = c} \ dropped = Held(c)
  <2>1. \A i \in Held(c) : i \in 1..Len(log) /\ log[i].by = c
    BY DEF EventsInv, OrderInv, Held
  <2>2. \A i \in 1..Len(log) : log[i].by = c => i \in Held(c) \/ i \in dropped
    BY <1>4, <1>5 DEF PlaceFacts
  <2>3. \A i \in dropped : i \notin Held(c)
    BY DEF PlaceFacts
  <2> QED  BY <2>1, <2>2, <2>3
<1>8. /\ \A i, j \in 1..Len(report'.events) : report'.events[i] = report'.events[j] => i = j
      /\ Moved' = Moved \cup Held(c)
  <2>1. PICK s \in Seq(Nat), r \in Seq(Nat) : s = report.events /\ r = events[c]
    BY <1>2
  <2>2. \A i, j \in 1..Len(s) : s[i] = s[j] => i = j
    BY <2>1 DEF PlaceFacts, ReportFacts
  <2>3. \A i, j \in 1..Len(r) : r[i] = r[j] => i = j
    <3>1. \A i, j \in 1..Len(r) : i < j => r[i] < r[j]
      BY <2>1 DEF EventsInv, OrderInv
    <3>2. Len(r) \in Nat /\ \A i \in 1..Len(r) : r[i] \in Nat
      BY <2>1, LenProperties, ElementOfSeq
    <3> QED  BY <3>1, <3>2
  <2>4. \A i \in 1..Len(s), j \in 1..Len(r) : s[i] # r[j]
    <3>1. \A i \in 1..Len(s) : s[i] \in DrainedEvents
      BY <2>1 DEF PlaceFacts, ReportFacts, Moved
    <3>2. \A j \in 1..Len(r) : r[j] \in {i \in 1..Len(log) : log[i].by = c}
      BY <2>1 DEF EventsInv, OrderInv
    <3> QED  BY <1>6, <3>1, <3>2
  <2>5. report'.events = s \o r
    BY <1>1, <1>3, <2>1
  <2>6. /\ \A i, j \in 1..Len(s \o r) : (s \o r)[i] = (s \o r)[j] => i = j
        /\ {(s \o r)[i] : i \in 1..Len(s \o r)} =
               {s[i] : i \in 1..Len(s)} \cup {r[i] : i \in 1..Len(r)}
    BY <2>2, <2>3, <2>4, ConcatElements
  <2>7. Moved' = {(s \o r)[i] : i \in 1..Len(s \o r)}
    BY <2>5 DEF Moved
  <2>8. Moved = {s[i] : i \in 1..Len(s)} /\ Held(c) = {r[i] : i \in 1..Len(r)}
    BY <2>1 DEF Moved, Held
  <2> QED  BY <2>5, <2>6, <2>7, <2>8
<1>9. report'.total = Cardinality(DrainedAllocs')
  <2>1. DrainedAllocs' = DrainedAllocs \cup Counted(c) /\ DrainedAllocs \cap Counted(c) = {}
    <3>1. Counted(c) = {i \in {k \in 1..Len(log) : log[k].by = c} : log[i].type # "FREE"}
      BY <1>5 DEF Counted
    <3>2. DrainedAllocs' = {i \in DrainedEvents' : log[i].type # "FREE"}
      BY <1>1 DEF DrainedAllocs
    <3> QED  BY <1>6, <3>1, <3>2 DEF DrainedAllocs
  <2>2. IsFiniteSet(DrainedAllocs) /\ IsFiniteSet(Counted(c))
    <3>1. IsFiniteSet(1..Len(log))
      BY <1>2, FS_Interval
    <3>2. DrainedAllocs \in SUBSET (1..Len(log)) /\ Counted(c) \in SUBSET (1..Len(log))
      BY DEF DrainedAllocs, DrainedEvents, Counted
    <3> QED  BY <3>1, <3>2, FS_Subset
  <2>3. Cardinality(DrainedAllocs') = Cardinality(DrainedAllocs) + Cardinality(Counted(c))
    <3>1. Cardinality({}) = 0 /\ Cardinality(DrainedAllocs) \in Nat
          /\ Cardinality(Counted(c)) \in Nat
      BY <2>2, FS_EmptySet, FS_CardinalityType
    <3>2. Cardinality(DrainedAllocs \cup Counted(c)) =
              Cardinality(DrainedAllocs) + Cardinality(Counted(c))
                  - Cardinality(DrainedAllocs \cap Counted(c))
      BY <2>2, FS_Union
    <3>3. Cardinality(DrainedAllocs \cap Counted(c)) = 0
      BY <2>1, <3>1
    <3>4. Cardinality(DrainedAllocs') = Cardinality(DrainedAllocs \cup Counted(c))
      BY <2>1
    <3> QED  BY <3>1, <3>2, <3>3, <3>4
  <2>4. report.total = Cardinality(DrainedAllocs) /\ total[c] = Cardinality(Counted(c))
    BY <1>4 DEF PlaceFacts, ReportFacts
  <2> QED  BY <1>1, <1>3, <2>3, <2>4
<1>10. ReportFacts'
  <2>1. Moved' = DrainedEvents' \ dropped'
    BY <1>1, <1>6, <1>7, <1>8 DEF PlaceFacts, ReportFacts
  <2> QED  BY <1>8, <1>9, <2>1 DEF ReportFacts
<1>11. \A u \in Threads : ~Drained(u)' =>
           /\ \A i \in 1..Len(log) : log[i].by = u =>
                  i \in Held(u)' \/ i \in Storing(u)' \/ i \in dropped
           /\ total'[u] = Cardinality(Counted(u)')
  <2>1. ASSUME NEW u \in Threads, ~Drained(u)'
        PROVE  ~Drained(u) /\ total'[u] = total[u]
    BY <1>1, <1>2, <1>3, <1>4, <2>1
  <2> QED  BY <1>5, <2>1 DEF PlaceFacts
<1>12. /\ dropped \subseteq 1..Len(log)
       /\ \A u \in Threads : \A i \in dropped : i \notin Held(u)' /\ i \notin Storing(u)'
  BY <1>5 DEF PlaceFacts
<1> QED  BY <1>1, <1>10, <1>11, <1>12 DEF PlaceFacts

LEMMA PlaceNext == ASSUME EventsInv, PhaseInv, PlaceInv, [Next]_vars PROVE PlaceInv'
<1>1. SUFFICES ASSUME Joined' PROVE PlaceFacts'
  BY DEF PlaceInv
<1>2. IInv /\ Joined /\ PhaseFacts /\ PlaceFacts
  BY <1>1, TerminatedStays DEF EventsInv, Joined, PhaseInv, PlaceInv
<1>3. CASE DrainMoves
  BY <1>2, <1>3, DrainMovesPlaces
<1>4. CASE ~DrainMoves
  <2>1. \A u : Drained(u)' <=> Drained(u)
    BY <1>1, <1>2, <1>4, DrainedKept
  <2>2. CASE EventsKept
    BY <1>2, <2>1, <2>2, KeptPlaces
  <2>3. ASSUME NEW t \in Threads, Stamp(t) \/ Push(t) \/ PushThrows(t) PROVE PlaceFacts'
    <3>1. pc[t] \in {"stamp", "push"}
      BY <2>3 DEF Stamp, Push, PushThrows, At
    <3>2. phase = "run"
      BY <1>2, <3>1 DEF PhaseFacts
    <3>3. \A u : ~Drained(u)
      BY <1>2, <3>2, RunDrainsNothing
    <3> QED  BY <1>2, <2>1, <2>3, <3>3, StampPlaces, PushPlaces
  <2>4. CASE DrainClears
    BY <1>2, <2>1, <2>4, DrainClearsPlaces
  <2>5. EventsKept \/ DrainClears
        \/ \E t \in Threads : Stamp(t) \/ Push(t) \/ PushThrows(t)
    BY <1>2, <1>4, QuietKeepsEvents, ExitKeepsEvents DEF Next, QuietExit, HookStep, FaultStep,
       ExitStep
  <2> QED  BY <2>2, <2>3, <2>4, <2>5
<1> QED  BY <1>3, <1>4

(* When the loop is through, everything logged is drained.                 *)
LEMMA AllDrained ==
    ASSUME EventsInv, PhaseFacts, Reported PROVE DrainedEvents = 1..Len(log)
<1>1. next > Len(counters) /\ next \in Nat /\ Len(counters) \in Nat
  <2>1. counters \in Seq(Threads)
    BY DEF EventsInv, IInv, TypeOK, CtxTypeOK
  <2> QED  BY <2>1, LenProperties DEF Reported, PhaseFacts, EventsInv, IInv, TypeOK, ExitTypeOK
<1>2. \A k \in 1..Len(counters) : k < next
  BY <1>1
<1>3. \A i \in 1..Len(log) : Registered(log[i].by)
  BY DEF EventsInv, RegisteredInv
<1> QED  BY <1>2, <1>3 DEF DrainedEvents, Drained, Registered

(* No event is lost, and none is reported twice: for any number of threads *)
(* that are joined before exit, whatever the hooks do to one another and   *)
(* whichever of them throw, generate_report gives every stamped event that *)
(* no exception dropped, and its total counts every allocation stamped.    *)
THEOREM RuntimeReportComplete == Spec => []ReportComplete
<1>1. EventsInv /\ PhaseInv /\ PlaceInv => ReportComplete
  <2> SUFFICES ASSUME EventsInv, PhaseInv, PlaceInv, Reported, ~Detached
               PROVE  /\ Len(report.events) = Cardinality(1..Len(log) \ dropped)
                      /\ {report.events[i] : i \in 1..Len(report.events)}
                             = 1..Len(log) \ dropped
                      /\ report.total = Cardinality({i \in 1..Len(log) : log[i].type # "FREE"})
    BY DEF ReportComplete
  <2>1. PhaseFacts /\ ReportFacts
    BY DEF Reported, PhaseInv, PlaceInv, Joined, PlaceFacts
  <2>2. DrainedEvents = 1..Len(log)
    BY <2>1, AllDrained
  <2>3. Moved = 1..Len(log) \ dropped
    BY <2>1, <2>2 DEF ReportFacts
  <2>4. Len(report.events) = Cardinality(Moved)
    <3>1. Len(report.events) \in Nat
      <4>1. report.events \in Seq(Nat)
        BY DEF EventsInv, IInv, TypeOK, ExitTypeOK
      <4> QED  BY <4>1, LenProperties
    <3>2. PICK n \in Nat : n = Len(report.events)
      BY <3>1
    <3>3. [i \in 1..n |-> report.events[i]] \in Bijection(1..n, Moved)
      <4> DEFINE f == [i \in 1..n |-> report.events[i]]
      <4>1. f \in [1..n -> Moved] /\ \A i \in 1..n : f[i] = report.events[i]
        BY <3>2 DEF Moved
      <4>2. \A i, j \in 1..n : f[i] = f[j] => i = j
        BY <2>1, <3>2, <4>1 DEF ReportFacts
      <4>3. \A x \in Moved : \E i \in 1..n : f[i] = x
        BY <3>2, <4>1 DEF Moved
      <4> HIDE DEF f
      <4>4. f \in Bijection(1..n, Moved)
        BY <4>1, <4>2, <4>3, Fun_IsBij
      <4> QED  BY <4>4 DEF f
    <3>4. ExistsBijection(1..n, Moved)
      BY <3>3 DEF ExistsBijection
    <3> QED  BY <3>2, <3>4, FS_CountingElements
  <2>5. DrainedAllocs = {i \in 1..Len(log) : log[i].type # "FREE"}
    BY <2>2 DEF DrainedAllocs
  <2> QED  BY <2>1, <2>3, <2>4, <2>5 DEF ReportFacts, Moved
<1>2. EventsInv /\ PhaseInv /\ PlaceInv /\ [Next]_vars => PhaseInv' /\ PlaceInv'
  BY PhaseNext, PlaceNext DEF EventsInv
<1>3. Spec => [](PhaseInv /\ PlaceInv)
  BY <1>2, PlaceInit, EventsInvariant, PTL DEF Spec
<1> QED  BY <1>1, <1>3, EventsInvariant, PTL
=============================================================================
