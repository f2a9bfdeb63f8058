-------------------------- MODULE AllocatorsProofs --------------------------
(***************************************************************************)
(* For any threads, any width of size_t and any memory: racing first uses  *)
(* of the hook table are harmless, and no wrap-around of a product makes a *)
(* block smaller than what was asked for.                                  *)
(*                                                                         *)
(* BlockFits speaks of the moment before the return; the invariant says    *)
(* that until then nobody else can free that block, because ptr names each *)
(* block at most once.                                                     *)
(***************************************************************************)
EXTENDS Allocators, TLAPS

Places == {"idle", "entry", "load", "call", "return", "failed", "handle",
           "exit"}
Block == [size : Nat, align : Nat]

\* The block that the C library gives for a call.
Served(b, r) ==
    /\ r \in Calls
    /\ b.size = Arguments(r).size /\ b.size < 2 ^ Bits
    /\ b.align \in RoundedUp(Arguments(r).align)

TableInv == \A f \in CFunctions : table[f] = Null \/ table[f] = f

ThreadInv(t) ==
    /\ pc[t] = "idle" <=> req[t] = NoCall
    /\ pc[t] = "idle" => ptr[t] = Null
    /\ pc[t] = "return" => req[t] # FreeCall
    /\ pc[t] = "return" /\ ptr[t] = Null => req[t].form \in Nothrow
    /\ pc[t] = "call" /\ ~ Glibc => table[Function(req[t])] = Function(req[t])
    /\ ptr[t] # Null =>
         /\ blocks[ptr[t]] # Null
         /\ pc[t] = "return" \/ req[t] = FreeCall
         /\ pc[t] = "return" => Served(blocks[ptr[t]], req[t])

IInv ==
    /\ table \in [CFunctions -> CFunctions \cup {Null}]
    /\ blocks \in [Addrs -> Block \cup {Null}]
    /\ pc \in [Threads -> Places]
    /\ req \in [Threads -> Calls \cup {NoCall, FreeCall}]
    /\ ptr \in [Threads -> Addrs \cup {Null}]
    /\ TableInv
    /\ \A t \in Threads : ThreadInv(t)
    /\ \A t, u \in Threads : t # u /\ ptr[t] # Null => ptr[t] # ptr[u]

-----------------------------------------------------------------------------
(* What calls are made of.                                                 *)
LEMMA CallParts ==
    ASSUME NEW r \in Calls
    PROVE  /\ r.count \in Nat \ {0} /\ r.type.size \in Nat \ {0}
           /\ r.type.align \in Nat \ {0}
           /\ r.form \in Throwing \cup Nothrow \cup {"vec"}
           /\ r.form = "vec" => r.count =< MaxSize(r.type)
           /\ r.form \notin {"vec", "calloc"} => r.type.size = 1
           /\ r.form \in {"new", "new_nothrow"} => r.type.align = DefaultAlign
           /\ Bytes(r) \in Nat /\ SizeT(Bytes(r)) \in Nat
<1>0. /\ Counts \subseteq Nat \ {0} /\ DefaultAlign \in Nat \ {0}
      /\ \A al \in Alignments : al \in Nat \ {0}
      /\ \A type \in ElemTypes : type.size \in Nat \ {0} /\ type.align \in Nat \ {0}
  <2>1. Counts \subseteq Nat \ {0} /\ \A p \in Powers : p \in Nat \ {0}
    BY AllocatorsAssumption
  <2>2. \A type \in [size : 1 .. 2 ^ Bits - 1, align : Powers] :
            type.size \in Nat \ {0} /\ type.align \in Nat \ {0}
    <3> SUFFICES ASSUME NEW type \in [size : 1 .. 2 ^ Bits - 1, align : Powers]
                 PROVE  type.size \in Nat \ {0} /\ type.align \in Nat \ {0}
      OBVIOUS
    <3>1. type.size \in 1 .. 2 ^ Bits - 1 /\ type.align \in Powers
      OBVIOUS
    <3>2. PICK M \in Nat : M = 2 ^ Bits
      BY AllocatorsAssumption
    <3>3. \A x \in 1 .. M - 1 : x \in Nat \ {0}
      OBVIOUS
    <3> QED  BY <2>1, <3>1, <3>2, <3>3
  <2>3. ElemTypes \subseteq [size : 1 .. 2 ^ Bits - 1, align : Powers]
        /\ Alignments \subseteq Powers /\ DefaultAlign \in Powers
    BY AllocatorsAssumption
  <2> QED  BY <2>1, <2>2, <2>3, Zenon
<1>a. \A al : Byte(al).size = 1 /\ Byte(al).align = al
  BY DEF Byte
<1>1. /\ r.count \in Nat \ {0} /\ r.type.size \in Nat \ {0} /\ r.type.align \in Nat \ {0}
      /\ r.form \in Throwing \cup Nothrow \cup {"vec"}
      /\ r.form = "vec" => r.count =< MaxSize(r.type)
      /\ r.form \notin {"vec", "calloc"} => r.type.size = 1
      /\ r.form \in {"new", "new_nothrow"} => r.type.align = DefaultAlign
  <2>1. CASE r \in [form : {"new", "new_nothrow"}, count : Counts, type : {Byte(DefaultAlign)}]
    <3>1. r.type = Byte(DefaultAlign) /\ r.count \in Counts /\ r.form \in {"new", "new_nothrow"}
      BY <2>1
    <3>2. r.type.size = 1 /\ r.type.align = DefaultAlign
      BY <1>a, <3>1
    <3>3. r.count \in Nat \ {0} /\ DefaultAlign \in Nat \ {0}
      BY <1>0, <3>1
    <3>4. r.form # "vec" /\ r.form \in Throwing \cup Nothrow
      BY <3>1 DEF Throwing, Nothrow
    <3> QED  BY <3>2, <3>3, <3>4
  <2>2. CASE r \in [form : Aligned, count : Counts, type : {Byte(al) : al \in Alignments}]
    <3>1. PICK al \in Alignments : r.type = Byte(al)
      BY <2>2
    <3>2. r.count \in Counts /\ r.form \in Aligned
      BY <2>2
    <3>3. r.type.size = 1 /\ r.type.align = al
      BY <1>a, <3>1
    <3>4. r.count \in Nat \ {0} /\ al \in Nat \ {0}
      BY <1>0, <3>2
    <3>5. /\ r.form # "vec" /\ r.form \in Throwing \cup Nothrow
          /\ r.form \notin {"new", "new_nothrow"}
      BY <3>2 DEF Throwing, Nothrow, Aligned
    <3> QED  BY <3>3, <3>4, <3>5
  <2>3. CASE r \in [form : {"calloc"}, count : Counts, type : ElemTypes]
    BY <1>0, <2>3 DEF Throwing, Nothrow
  <2>4. CASE r \in {q \in [form : {"vec"}, count : Counts, type : ElemTypes] :
                     q.count =< MaxSize(q.type)}
    BY <1>0, <2>4
  <2> QED  BY <2>1, <2>2, <2>3, <2>4 DEF Calls
<1>2. Bytes(r) \in Nat
  BY <1>1 DEF Bytes
<1>3. SizeT(Bytes(r)) \in Nat
  BY <1>2, AllocatorsAssumption DEF SizeT
<1> QED  BY <1>1, <1>2, <1>3

LEMMA NotCalls ==
    /\ NoCall # FreeCall /\ NoCall \notin Calls /\ FreeCall \notin Calls
    /\ \A r \in Calls : r.form # "free"
    /\ FreeCall.form = "free" /\ NoCall.form = "none"
BY CallParts DEF NoCall, FreeCall, Throwing, Nothrow

LEMMA ArgumentTypes ==
    ASSUME NEW r \in Calls
    PROVE  Arguments(r).size \in Nat /\ Arguments(r).align \in Nat
BY CallParts, AllocatorsAssumption DEF Arguments

LEMMA FunctionType ==
    ASSUME NEW r \in Calls \cup {NoCall, FreeCall} PROVE Function(r) \in CFunctions
BY DEF Function, CFunctions, Overaligned

(* The product of a container's count and element size does not wrap.      *)
LEMMA ProductFits ==
    ASSUME NEW M \in Nat, NEW u \in Nat \ {0}, NEW c \in Nat, c =< M \div u
    PROVE  c * u =< M
OBVIOUS

LEMMA ServedFits ==
    ASSUME NEW r \in Calls, NEW b, Served(b, r)
    PROVE  /\ r.form \notin Aligned => b.size >= Asked(r) /\ b.align >= AskedAlign(r)
           /\ r.form # "vec" => RecordedSize(r) = Asked(r)
<1>1. /\ r.count \in Nat \ {0} /\ r.type.size \in Nat \ {0} /\ r.type.align \in Nat \ {0}
      /\ Bytes(r) \in Nat /\ Bytes(r) = r.count * r.type.size
      /\ 2 ^ Bits \in Nat \ {0} /\ Powers \subseteq Nat /\ DefaultAlign \in Nat
  BY CallParts, AllocatorsAssumption DEF Bytes
<1>2. r.form = "vec" => Bytes(r) =< 2 ^ Bits - 1
  <2> SUFFICES ASSUME r.form = "vec" PROVE Bytes(r) =< 2 ^ Bits - 1
    OBVIOUS
  <2>1. r.count =< (2 ^ Bits - 1) \div r.type.size
    BY CallParts DEF MaxSize
  <2> QED  BY <1>1, <2>1, ProductFits
<1>3. Bytes(r) < 2 ^ Bits => SizeT(Bytes(r)) = Bytes(r)
  BY <1>1 DEF SizeT
<1>4. r.form \notin Aligned => /\ Arguments(r).size = Bytes(r)
                              /\ Arguments(r).align >= AskedAlign(r)
  <2> SUFFICES ASSUME r.form \notin Aligned
               PROVE  /\ Arguments(r).size = Bytes(r)
                      /\ Arguments(r).align >= AskedAlign(r)
    OBVIOUS
  <2>1. CASE r.form = "vec"
    <3>1. SizeT(Bytes(r)) = Bytes(r) /\ AskedAlign(r) = r.type.align
      BY <1>1, <1>2, <1>3, <2>1 DEF AskedAlign
    <3>2. Arguments(r) = [align |-> IF Overaligned(r) THEN r.type.align ELSE DefaultAlign,
                          size |-> SizeT(Bytes(r))]
      BY <2>1 DEF Arguments
    <3>3. ~ Overaligned(r) => r.type.align =< DefaultAlign
      BY <1>1, <2>1 DEF Overaligned
    <3> QED  BY <1>1, <3>1, <3>2, <3>3
  <2>2. CASE r.form # "vec"
    BY <1>1, <2>2 DEF Arguments, AskedAlign, Overaligned
  <2> QED  BY <2>1, <2>2
<1>5. b.size = Arguments(r).size /\ b.size < 2 ^ Bits /\ b.align >= Arguments(r).align
  BY <1>1, ArgumentTypes DEF Served, RoundedUp
<1>6. r.form \notin Aligned => b.size >= Asked(r) /\ b.align >= AskedAlign(r)
  <2>1. AskedAlign(r) \in Nat /\ Arguments(r).align \in Nat /\ b.align \in Nat
    BY <1>1, ArgumentTypes DEF AskedAlign, Served, RoundedUp
  <2> QED  BY <1>1, <1>4, <1>5, <2>1 DEF Asked
<1>7. r.form # "vec" => RecordedSize(r) = Asked(r)
  <2>1. CASE r.form = "calloc"
    <3>1. Arguments(r).size = Bytes(r)
      BY <1>4, <2>1 DEF Aligned
    <3> QED  BY <1>3, <1>5, <2>1, <3>1 DEF RecordedSize, Asked
  <2>2. CASE r.form \notin {"vec", "calloc"}
    <3>1. r.type.size = 1
      BY <2>2, CallParts
    <3> QED  BY <1>1, <2>2, <3>1 DEF RecordedSize, Asked
  <2> QED  BY <2>1, <2>2
<1> QED  BY <1>6, <1>7

-----------------------------------------------------------------------------
LEMMA InitInv == ASSUME Init PROVE IInv
BY DEF Init, IInv, TableInv, ThreadInv, Places

(* A step of t that changes no block and no pointer, and the table at most *)
(* by an entry for its own function, keeps what is known of the others.    *)
LEMMA QuietStep ==
    ASSUME IInv, NEW t \in Threads, NEW place \in Places, Go(t, place),
           pc[t] \notin {"idle", "return"}, place \notin {"idle", "return"},
           UNCHANGED <<blocks, req, ptr>>,
           table' \in [CFunctions -> CFunctions \cup {Null}], TableInv',
           \A f \in CFunctions : table[f] = f => table'[f] = f,
           place = "call" /\ ~ Glibc => table'[Function(req[t])] = Function(req[t])
    PROVE  IInv'
<1>1. \A u \in Threads : ThreadInv(u)'
  <2> SUFFICES ASSUME NEW u \in Threads PROVE ThreadInv(u)'
    OBVIOUS
  <2>1. ThreadInv(u) /\ Function(req[u]) \in CFunctions
    BY FunctionType DEF IInv
  <2>2. pc'[u] = IF u = t THEN place ELSE pc[u]
    BY DEF Go, IInv
  <2> QED  BY <2>1, <2>2 DEF ThreadInv, Served, Arguments
<1> QED  BY <1>1 DEF IInv, Go

(* A step by which t leaves its call, having freed its block or not.       *)
LEMMA LeaveStep ==
    ASSUME IInv, NEW t \in Threads, Leave(t), UNCHANGED <<table>>,
           \/ UNCHANGED blocks
           \/ blocks' = [blocks EXCEPT ![ptr[t]] = Null]
    PROVE  IInv'
<1>1. \A u \in Threads : /\ pc'[u] = IF u = t THEN "idle" ELSE pc[u]
                         /\ req'[u] = IF u = t THEN NoCall ELSE req[u]
                         /\ ptr'[u] = IF u = t THEN Null ELSE ptr[u]
  BY DEF Leave, Go, IInv
<1>2. \A u \in Threads : u # t /\ ptr[u] # Null => blocks'[ptr[u]] = blocks[ptr[u]]
  BY DEF IInv
<1>3. \A u \in Threads : ThreadInv(u)'
  <2> SUFFICES ASSUME NEW u \in Threads PROVE ThreadInv(u)'
    OBVIOUS
  <2>1. ThreadInv(u)
    BY DEF IInv
  <2> QED  BY <1>1, <1>2, <2>1 DEF ThreadInv, Served, Arguments
<1>4. \A u, v \in Threads : u # v /\ ptr'[u] # Null => ptr'[u] # ptr'[v]
  BY <1>1 DEF IInv
<1>5. blocks' \in [Addrs -> Block \cup {Null}]
  BY DEF IInv
<1>6. TableInv'
  BY DEF IInv, TableInv
<1> QED  BY <1>3, <1>4, <1>5, <1>6 DEF IInv, Leave, Go, Places

LEMMA CallStep == ASSUME IInv, NEW t \in Threads, Call(t) PROVE IInv'
<1>1. PICK r \in Calls : req' = [req EXCEPT ![t] = r]
  BY DEF Call
<1>2. /\ pc[t] = "idle" /\ pc' = [pc EXCEPT ![t] = "entry"]
      /\ UNCHANGED <<table, blocks, ptr>>
  BY DEF Call, At, Go
<1>3. r # NoCall /\ r # FreeCall
  BY NotCalls
<1>4. \A u \in Threads : ThreadInv(u)'
  <2> SUFFICES ASSUME NEW u \in Threads PROVE ThreadInv(u)'
    OBVIOUS
  <2>1. ThreadInv(u)
    BY DEF IInv
  <2> QED  BY <1>1, <1>2, <1>3, <2>1 DEF IInv, ThreadInv
<1> QED  BY <1>1, <1>2, <1>4 DEF IInv, TableInv, Places

LEMMA ReleaseStep == ASSUME IInv, NEW t \in Threads, Release(t) PROVE IInv'
<1>1. PICK a \in Addrs : /\ blocks[a] # Null
                         /\ \A u \in Threads : ptr[u] # a
                         /\ ptr' = [ptr EXCEPT ![t] = a]
  BY DEF Release
<1>2. /\ pc[t] = "idle" /\ pc' = [pc EXCEPT ![t] = "entry"]
      /\ req' = [req EXCEPT ![t] = FreeCall]
      /\ UNCHANGED <<table, blocks>>
  BY DEF Release, At, Go
<1>3. \A u \in Threads : ThreadInv(u)'
  <2> SUFFICES ASSUME NEW u \in Threads PROVE ThreadInv(u)'
    OBVIOUS
  <2>1. ThreadInv(u)
    BY DEF IInv
  <2> QED  BY <1>1, <1>2, <2>1, NotCalls DEF IInv, ThreadInv
<1>4. \A u, v \in Threads : u # v /\ ptr'[u] # Null => ptr'[u] # ptr'[v]
  BY <1>1 DEF IInv
<1> QED  BY <1>1, <1>2, <1>3, <1>4 DEF IInv, TableInv, Places

LEMMA SucceedStep == ASSUME IInv, NEW t \in Threads, Succeed(t) PROVE IInv'
<1> DEFINE args == Arguments(req[t])
<1>1. PICK a \in Addrs, p \in RoundedUp(args.align) :
         /\ blocks[a] = Null
         /\ blocks' = [blocks EXCEPT ![a] = [size |-> args.size, align |-> p]]
         /\ ptr' = [ptr EXCEPT ![t] = a]
  BY DEF Succeed
<1>2. /\ pc[t] = "call" /\ pc' = [pc EXCEPT ![t] = "return"]
      /\ UNCHANGED <<table, req>>
      /\ req[t] \in Calls /\ req[t] # FreeCall /\ req[t] # NoCall
      /\ args.size < 2 ^ Bits
  BY NotCalls DEF Succeed, At, Go, CanServe, IInv, ThreadInv
<1>3. [size |-> args.size, align |-> p] \in Block
  BY <1>1, <1>2, ArgumentTypes, AllocatorsAssumption DEF Block, RoundedUp
<1>4. [size |-> args.size, align |-> p] # Null
  BY <1>3, AllocatorsAssumption DEF Block
<1>5. blocks' \in [Addrs -> Block \cup {Null}]
  BY <1>1, <1>3 DEF IInv
<1>6. \A u \in Threads : ptr[u] # a
  BY <1>1, AllocatorsAssumption DEF IInv, ThreadInv
<1>7. \A u \in Threads : ThreadInv(u)'
  <2> SUFFICES ASSUME NEW u \in Threads PROVE ThreadInv(u)'
    OBVIOUS
  <2>1. ThreadInv(u)
    BY DEF IInv
  <2>2. CASE u # t
    BY <1>1, <1>2, <1>6, <2>1, <2>2 DEF IInv, ThreadInv, Served, Arguments
  <2>3. CASE u = t
    <3>1. ptr'[u] = a /\ blocks'[a] = [size |-> args.size, align |-> p]
      BY <1>1, <2>3 DEF IInv
    <3>2. Served([size |-> args.size, align |-> p], req[t])
      BY <1>1, <1>2 DEF Served
    <3>3. Served(blocks'[a], req'[u])
      BY <1>2, <2>3, <3>1, <3>2
    <3>4. ptr'[u] # Null /\ blocks'[ptr'[u]] # Null
      BY <1>4, <3>1, AllocatorsAssumption
    <3>5. pc'[u] = "return" /\ req'[u] = req[t]
      BY <1>2, <2>3 DEF IInv
    <3> QED  BY <1>2, <3>1, <3>3, <3>4, <3>5 DEF ThreadInv
  <2> QED  BY <2>2, <2>3
<1>8. \A u, v \in Threads : u # v /\ ptr'[u] # Null => ptr'[u] # ptr'[v]
  BY <1>1, <1>6 DEF IInv
<1> QED  BY <1>1, <1>2, <1>5, <1>7, <1>8 DEF IInv, TableInv, Places

LEMMA FailStep == ASSUME IInv, NEW t \in Threads, Fail(t) PROVE IInv'
<1>1. /\ pc[t] = "call" /\ UNCHANGED <<table, blocks>>
      /\ req[t] \in Calls /\ req[t] # FreeCall /\ ptr[t] = Null
  BY NotCalls DEF Fail, At, IInv, ThreadInv
<1>2. CASE req[t].form \in Nothrow /\ Go(t, "return") /\ UNCHANGED <<req, ptr>>
  <2>1. \A u \in Threads : ThreadInv(u)'
    <3> SUFFICES ASSUME NEW u \in Threads PROVE ThreadInv(u)'
      OBVIOUS
    <3>1. ThreadInv(u)
      BY DEF IInv
    <3>2. pc'[u] = IF u = t THEN "return" ELSE pc[u]
      BY <1>2 DEF Go, IInv
    <3> QED  BY <1>1, <1>2, <3>1, <3>2 DEF ThreadInv, Served, Arguments
  <2> QED  BY <1>1, <1>2, <2>1 DEF IInv, TableInv, Go, Places
<1>3. CASE req[t].form \in Throwing /\ Go(t, "failed") /\ UNCHANGED <<req, ptr>>
  <2>1. TableInv' /\ table' \in [CFunctions -> CFunctions \cup {Null}]
    BY <1>1 DEF IInv, TableInv
  <2> QED  BY <1>1, <1>3, <2>1, QuietStep DEF Places
<1>4. CASE Leave(t)
  BY <1>1, <1>4, LeaveStep
<1> QED  BY <1>2, <1>3, <1>4 DEF Fail

LEMMA EntryStep == ASSUME IInv, NEW t \in Threads, GetEntry(t) PROVE IInv'
<1> DEFINE place == IF Glibc \/ table[Function(req[t])] # Null THEN "call" ELSE "load"
<1>1. /\ Go(t, place)
      /\ place = "call" => Glibc \/ table[Function(req[t])] # Null
  BY DEF GetEntry
<1>2. pc[t] = "entry" /\ UNCHANGED <<table, blocks, req, ptr>>
  BY DEF GetEntry, At
<1>3. Function(req[t]) \in CFunctions
  BY FunctionType DEF IInv
<1>4. TableInv' /\ table' \in [CFunctions -> CFunctions \cup {Null}]
  BY <1>2 DEF IInv, TableInv
<1> QED  BY <1>1, <1>2, <1>3, <1>4, QuietStep DEF IInv, TableInv, Places

LEMMA LoadStep == ASSUME IInv, NEW t \in Threads, LoadEntry(t) PROVE IInv'
<1> DEFINE f == Function(req[t])
<1>1. /\ pc[t] = "load" /\ Go(t, "call") /\ UNCHANGED <<blocks, req, ptr>>
      /\ DlsymLoad(f).addr # Null
      /\ table' = [table EXCEPT ![f] = DlsymLoad(f).addr]
  BY DEF LoadEntry, At
<1>2. f \in CFunctions
  BY FunctionType DEF IInv
<1>3. DlsymLoad(f).addr = f
  BY <1>1 DEF DlsymLoad
<1> HIDE DEF f
<1>4. table' \in [CFunctions -> CFunctions \cup {Null}] /\ table'[f] = f
  BY <1>1, <1>2, <1>3 DEF IInv
<1>5. TableInv' /\ \A g \in CFunctions : table[g] = g => table'[g] = g
  BY <1>1, <1>2, <1>3 DEF IInv, TableInv
<1> QED  BY <1>1, <1>4, <1>5, QuietStep DEF f, Places

LEMMA HandlerStep ==
    ASSUME IInv, NEW t \in Threads,
           \/ ReadHandler(t) \/ HandlerReleases(t) \/ HandlerUninstalls(t)
           \/ HandlerThrows(t)
    PROVE  IInv'
<1>1. UNCHANGED <<table, blocks>> /\ pc[t] \in {"failed", "handle"}
  BY DEF ReadHandler, HandlerReleases, HandlerUninstalls, HandlerThrows, At
<1>2. \/ Leave(t)
      \/ \E place \in {"handle", "entry"} : Go(t, place) /\ UNCHANGED <<req, ptr>>
  BY DEF ReadHandler, HandlerReleases, HandlerUninstalls, HandlerThrows
<1>3. TableInv' /\ table' \in [CFunctions -> CFunctions \cup {Null}]
  BY <1>1 DEF IInv, TableInv
<1>4. CASE Leave(t)
  BY <1>1, <1>4, LeaveStep
<1>5. CASE \E place \in {"handle", "entry"} : Go(t, place) /\ UNCHANGED <<req, ptr>>
  BY <1>1, <1>3, <1>5, QuietStep DEF Places
<1> QED  BY <1>2, <1>4, <1>5

LEMMA StutterStep ==
    ASSUME IInv, UNCHANGED <<table, blocks, pc, req, ptr>> PROVE IInv'
<1>1. \A t \in Threads : ThreadInv(t)'
  BY DEF IInv, ThreadInv, Served, Arguments
<1> QED  BY <1>1 DEF IInv, TableInv

LEMMA NextInv == ASSUME IInv, [Next]_vars PROVE IInv'
<1>1. ASSUME NEW t \in Threads, Call(t) PROVE IInv'
  BY <1>1, CallStep
<1>2. ASSUME NEW t \in Threads, Release(t) PROVE IInv'
  BY <1>2, ReleaseStep
<1>3. ASSUME NEW t \in Threads, InCall(t) PROVE IInv'
  <2>1. CASE GetEntry(t)
    BY <2>1, EntryStep
  <2>2. CASE LoadEntry(t)
    BY <2>2, LoadStep
  <2>3. CASE ExitOnMissing(t)
    <3>1. /\ pc[t] = "load" /\ Go(t, "exit") /\ UNCHANGED <<table, blocks, req, ptr>>
      BY <2>3 DEF ExitOnMissing, At
    <3>2. TableInv' /\ table' \in [CFunctions -> CFunctions \cup {Null}]
      BY <3>1 DEF IInv, TableInv
    <3> QED  BY <3>1, <3>2, QuietStep DEF Places
  <2>9. CASE DestructorsRun(t)
    BY <2>9, StutterStep DEF DestructorsRun
  <2>4. CASE Succeed(t)
    BY <2>4, SucceedStep
  <2>5. CASE Fail(t)
    BY <2>5, FailStep
  <2>6. CASE Return(t)
    BY <2>6, LeaveStep DEF Return
  <2>7. CASE Free(t)
    BY <2>7, LeaveStep DEF Free
  <2>8. CASE ReadHandler(t) \/ HandlerReleases(t) \/ HandlerUninstalls(t)
             \/ HandlerThrows(t)
    BY <2>8, HandlerStep
  <2> QED  BY <1>3, <2>1, <2>2, <2>3, <2>4, <2>5, <2>6, <2>7, <2>8,
               <2>9 DEF InCall
<1>4. CASE UNCHANGED vars
  BY <1>4, StutterStep DEF vars
<1> QED  BY <1>1, <1>2, <1>3, <1>4 DEF Next, Exited

(* The invariant of the allocators, for any constants.                     *)
THEOREM AllocatorsInv == Spec => []IInv
<1>1. Init => IInv
  BY InitInv
<1>2. IInv /\ [Next]_vars => IInv'
  BY NextInv
<1> QED  BY <1>1, <1>2, PTL DEF Spec

(* However many threads use an entry of the hook table for the first time  *)
(* at once, each calls the function it asked for (alloc_hook_table).       *)
THEOREM AllocatorsTable == Spec => []TableSound
<1>1. IInv => TableSound
  BY DEF IInv, ThreadInv, TableSound
<1> QED  BY <1>1, AllocatorsInv, PTL

(* The throwing forms of operator new never return null, whatever the      *)
(* handler does (ALLOCATE_OR_THROW).                                       *)
THEOREM AllocatorsThrowing == Spec => []ThrowingGetsBlock
<1>1. IInv => ThrowingGetsBlock
  BY DEF IInv, ThreadInv, ThrowingGetsBlock
<1> QED  BY <1>1, AllocatorsInv, PTL

(* At every width of size_t and for elements of any size and alignment,    *)
(* calloc's overflow check and max_size keep a wrapped product from ever   *)
(* becoming a block, and mp::allocator asks for the alignment of what is   *)
(* over-aligned (calloc, mp::allocator).                                   *)
THEOREM AllocatorsFit == Spec => []BlockFits
<1>1. IInv => BlockFits
  <2> SUFFICES ASSUME IInv, NEW t \in Threads, pc[t] = "return", ptr[t] # Null
               PROVE  /\ req[t].form \notin Aligned => Fits(t)
                      /\ req[t].form # "vec" =>
                           RecordedSize(req[t]) = Asked(req[t])
    BY DEF BlockFits, Fits
  <2>1. blocks[ptr[t]] # Null /\ Served(blocks[ptr[t]], req[t])
    BY DEF IInv, ThreadInv
  <2>2. req[t] \in Calls
    BY <2>1 DEF Served
  <2> QED  BY <2>1, <2>2, ServedFits DEF Fits
<1> QED  BY <1>1, AllocatorsInv, PTL

-----------------------------------------------------------------------------
(* What TypeOK says beyond IInv: no block is larger than size_t can say,   *)
(* and the handler never gives back more than it had.                      *)
Ranges ==
    /\ exported \in SUBSET CFunctions
    /\ handler \in BOOLEAN /\ running \in BOOLEAN
    /\ reserve \in 0 .. MaxReserve
    /\ \A a \in Addrs : blocks[a] = Null
         \/ blocks[a] \in [size : 0 .. 2 ^ Bits - 1, align : Powers]

LEMMA RangesInit == ASSUME Init PROVE Ranges
BY AllocatorsAssumption DEF Init, Ranges

LEMMA RangesNext == ASSUME IInv, Ranges, [Next]_vars PROVE Ranges'
<1>1. ASSUME NEW t \in Threads, Succeed(t) PROVE Ranges'
  <2> DEFINE args == Arguments(req[t])
  <2>1. PICK a \in Addrs, p \in RoundedUp(args.align) :
           blocks' = [blocks EXCEPT ![a] = [size |-> args.size, align |-> p]]
    BY <1>1 DEF Succeed
  <2>2. args.size < 2 ^ Bits /\ req[t] \in Calls
    BY <1>1, NotCalls DEF Succeed, CanServe, At, IInv, ThreadInv
  <2>3. args.size \in 0 .. 2 ^ Bits - 1 /\ p \in Powers
    BY <2>2, ArgumentTypes, AllocatorsAssumption DEF RoundedUp
  <2> HIDE DEF args
  <2>4. \A x \in Addrs : blocks'[x] = Null
           \/ blocks'[x] \in [size : 0 .. 2 ^ Bits - 1, align : Powers]
    BY <2>1, <2>3 DEF IInv, Ranges
  <2> QED  BY <1>1, <2>4 DEF Succeed, Ranges
<1>2. ASSUME NEW t \in Threads, Free(t) PROVE Ranges'
  <2>1. \A x \in Addrs : blocks'[x] = Null \/ blocks'[x] = blocks[x]
    BY <1>2 DEF Free, IInv
  <2> QED  BY <1>2, <2>1 DEF Free, Ranges
<1>3. ASSUME NEW t \in Threads, HandlerReleases(t) PROVE Ranges'
  BY <1>3, AllocatorsAssumption DEF HandlerReleases, Ranges
<1>4. ASSUME NEW t \in Threads,
             \/ Call(t) \/ Release(t) \/ GetEntry(t) \/ LoadEntry(t) \/ ExitOnMissing(t)
             \/ DestructorsRun(t)
             \/ Fail(t) \/ Return(t) \/ ReadHandler(t) \/ HandlerUninstalls(t)
             \/ HandlerThrows(t)
      PROVE  Ranges'
  <2>1. /\ UNCHANGED <<exported, reserve, blocks>>
        /\ handler' = handler \/ handler' = FALSE
        /\ running' = running \/ running' = FALSE
    BY <1>4 DEF Call, Release, GetEntry, LoadEntry, ExitOnMissing, DestructorsRun,
       Fail, Return, ReadHandler, HandlerUninstalls, HandlerThrows
  <2> QED  BY <2>1 DEF Ranges
<1>5. CASE UNCHANGED vars
  BY <1>5 DEF vars, Ranges
<1> QED  BY <1>1, <1>2, <1>3, <1>4, <1>5 DEF Next, InCall, Exited

(* Every entry of the table is a function of the C library or null, and a  *)
(* block's size is one that size_t holds and its alignment a power of two. *)
THEOREM AllocatorsTypes == Spec => []TypeOK
<1>1. Init => Ranges
  BY RangesInit
<1>2. IInv /\ Ranges /\ [Next]_vars => Ranges'
  BY RangesNext
<1>3. IInv /\ Ranges => TypeOK
  BY DEF IInv, Ranges, Places, TypeOK
<1> QED  BY AllocatorsInv, <1>1, <1>2, <1>3, PTL DEF Spec
=============================================================================
