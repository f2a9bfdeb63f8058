--------------------------- MODULE EventLogProofs ---------------------------
(***************************************************************************)
(* For any threads, addresses and sizes and a log of any length: the size  *)
(* compute_free_sizes recovers for a freed block is the block's size.      *)
(*                                                                         *)
(* FreeSizes is not inductive: it says nothing of the blocks still live.   *)
(* LogInv adds, for those, that their ALLOC is the last event logged at    *)
(* their address, which is what makes it the last size setter of the FREE  *)
(* to come.                                                                *)
(***************************************************************************)
EXTENDS EventLog, TLAPS

LogInv == LogTypeOK /\ LiveIsLast /\ FreesMatch

LEMMA EventTypes ==
    /\ \A t \in Threads, n \in Nat, p, h \in Ptr : AllocEvent(t, n, p, h) \in Event
    /\ \A t \in Threads, p \in Ptr, b, n \in Nat : FreeEvent(t, p, b, n) \in Event
BY DEF AllocEvent, FreeEvent, Event, NoStamp, Ptr

(* Appending an event leaves the earlier ones where they are.              *)
LEMMA AppendFacts ==
    ASSUME NEW l \in Seq(Event), NEW e \in Event
    PROVE  /\ Append(l, e) \in Seq(Event)
           /\ Len(Append(l, e)) = Len(l) + 1
           /\ \A i \in 1..Len(l) : Append(l, e)[i] = l[i]
           /\ Append(l, e)[Len(l) + 1] = e
           /\ Len(l) \in Nat
OBVIOUS

(* When the ALLOC b of event j's block is the last event before j at its   *)
(* address, it is the size setter compute_free_sizes has seen last.        *)
LEMMA LastSetter ==
    ASSUME NEW l \in Seq(Event), NEW j \in 1..Len(l), NEW b \in 1..(j - 1),
           l[b].type = "ALLOC", l[b].ptr = l[j].ptr,
           \A i \in (b + 1)..(j - 1) : l[i].ptr # l[j].ptr
    PROVE  SavedSize(l, j) = l[b].size
<1> DEFINE S == SizeSetters(l, j, l[j].ptr)
<1>1. b \in S
  BY DEF SizeSetters
<1>2. \A i \in S : i \in 1..(j - 1) /\ i =< b
  BY DEF SizeSetters
<1>3. S \subseteq Int
  BY DEF SizeSetters
<1>4. IsLast(b, S) /\ \A i \in S : IsLast(i, S) => i = b
  BY <1>1, <1>2, <1>3 DEF IsLast
<1>5. (CHOOSE i \in S : IsLast(i, S)) = b
  <2> HIDE DEF S
  <2> QED  BY <1>1, <1>4
<1> QED  BY <1>1, <1>4, <1>5 DEF SavedSize, SavedAt

LEMMA LogInitInv == ASSUME LogInit PROVE LogInv
BY DEF LogInit, LogInv, LogTypeOK, LiveIsLast, FreesMatch, NoStamp,
       Event

LEMMA LogAllocInv ==
    ASSUME LogInv, NEW t \in Threads, NEW n \in Nat, NEW p \in Ptr, NEW h \in Ptr,
           LogAlloc(t, n, p, h)
    PROVE  LogInv'
<1> DEFINE e == AllocEvent(t, n, p, h)
<1>0. e \in Event /\ e.type = "ALLOC" /\ e.ptr = p
  BY EventTypes DEF AllocEvent
<1>1. log \in Seq(Event) /\ live \in [Addr -> Nat]
  BY DEF LogInv, LogTypeOK
<1>2. log' = Append(log, e)
  BY DEF LogAlloc
<1>3. /\ log' \in Seq(Event)
      /\ Len(log') = Len(log) + 1
      /\ \A i \in 1..Len(log) : log'[i] = log[i]
      /\ log'[Len(log) + 1] = e
      /\ Len(log) \in Nat
  BY ONLY <1>0, <1>1, <1>2, AppendFacts, Zenon
<1> HIDE DEF e
<1>4. live' = [a \in Addr |-> IF a = p THEN Len(log) + 1 ELSE live[a]]
  BY DEF LogAlloc
<1>5. LogTypeOK'
  BY <1>1, <1>3, <1>4 DEF LogTypeOK
<1>6. LiveIsLast'
  <2> SUFFICES ASSUME NEW a \in Addr, live'[a] # NoStamp
               PROVE  /\ live'[a] \in 1..Len(log')
                      /\ log'[live'[a]].type = "ALLOC"
                      /\ log'[live'[a]].ptr = a
                      /\ \A i \in (live'[a] + 1)..Len(log') : log'[i].ptr # a
    BY DEF LiveIsLast
  <2>1. CASE a = p
    BY <2>1, <1>0, <1>3, <1>4
  <2>2. CASE a # p
    <3>1. live'[a] = live[a]
      BY <2>2, <1>4
    <3> QED  BY <3>1, <2>2, <1>0, <1>3 DEF LogInv, LiveIsLast
  <2> QED  BY <2>1, <2>2
<1>7. FreesMatch'
  <2> SUFFICES ASSUME NEW j \in 1..Len(log'),
                      log'[j].type = "FREE", log'[j].born # NoStamp
               PROVE  LET b == log'[j].born
                      IN  /\ b \in 1..(j - 1)
                          /\ log'[b].type = "ALLOC"
                          /\ log'[b].ptr = log'[j].ptr
                          /\ log'[b].size = log'[j].held
                          /\ \A i \in (b + 1)..(j - 1) : log'[i].ptr # log'[j].ptr
    BY DEF FreesMatch
  <2>1. j \in 1..Len(log) /\ log'[j] = log[j]
    BY <1>0, <1>3
  <2>2. /\ log[j].born \in 1..(j - 1)
        /\ log[log[j].born].type = "ALLOC"
        /\ log[log[j].born].ptr = log[j].ptr
        /\ log[log[j].born].size = log[j].held
        /\ \A i \in (log[j].born + 1)..(j - 1) : log[i].ptr # log[j].ptr
    BY <2>1 DEF LogInv, FreesMatch
  <2>3. \A i \in 1..(j - 1) : log'[i] = log[i]
    BY <2>1, <1>3
  <2> QED  BY <2>1, <2>2, <2>3
<1> QED  BY <1>5, <1>6, <1>7 DEF LogInv

LEMMA LogFreeInv ==
    ASSUME LogInv, NEW t \in Threads, NEW p \in Addr, NEW n \in Nat,
           LogFree(t, p, n)
    PROVE  LogInv'
<1> DEFINE e == FreeEvent(t, p, live[p], n)
<1>1. log \in Seq(Event) /\ live \in [Addr -> Nat] /\ live[p] \in Nat
  BY DEF LogInv, LogTypeOK
<1>0. /\ e \in Event /\ e.type = "FREE" /\ e.ptr = p
      /\ e.born = live[p] /\ e.held = n
  BY <1>1, EventTypes DEF FreeEvent, Ptr
<1>2. log' = Append(log, e)
  BY DEF LogFree
<1>3. /\ log' \in Seq(Event)
      /\ Len(log') = Len(log) + 1
      /\ \A i \in 1..Len(log) : log'[i] = log[i]
      /\ log'[Len(log) + 1] = e
      /\ Len(log) \in Nat
  BY ONLY <1>0, <1>1, <1>2, AppendFacts, Zenon
<1> HIDE DEF e
<1>4. /\ live' = [live EXCEPT ![p] = NoStamp]
      /\ live[p] # NoStamp => n = log[live[p]].size
  BY DEF LogFree
<1>5. LogTypeOK'
  BY <1>1, <1>3, <1>4 DEF LogTypeOK, NoStamp
<1>6. LiveIsLast'
  <2> SUFFICES ASSUME NEW a \in Addr, live'[a] # NoStamp
               PROVE  /\ live'[a] \in 1..Len(log')
                      /\ log'[live'[a]].type = "ALLOC"
                      /\ log'[live'[a]].ptr = a
                      /\ \A i \in (live'[a] + 1)..Len(log') : log'[i].ptr # a
    BY DEF LiveIsLast
  <2>1. a # p /\ live'[a] = live[a]
    BY <1>1, <1>4
  <2> QED  BY <2>1, <1>0, <1>3 DEF LogInv, LiveIsLast
<1>7. FreesMatch'
  <2>1. live[p] # NoStamp =>
            /\ live[p] \in 1..Len(log)
            /\ log[live[p]].type = "ALLOC"
            /\ log[live[p]].ptr = p
            /\ \A i \in (live[p] + 1)..Len(log) : log[i].ptr # p
    BY DEF LogInv, LiveIsLast
  <2> SUFFICES ASSUME NEW j \in 1..Len(log'),
                      log'[j].type = "FREE", log'[j].born # NoStamp
               PROVE  LET b == log'[j].born
                      IN  /\ b \in 1..(j - 1)
                          /\ log'[b].type = "ALLOC"
                          /\ log'[b].ptr = log'[j].ptr
                          /\ log'[b].size = log'[j].held
                          /\ \A i \in (b + 1)..(j - 1) : log'[i].ptr # log'[j].ptr
    BY DEF FreesMatch
  <2>2. CASE j = Len(log) + 1
    <3>1. log'[j] = e /\ log'[j].born = live[p] /\ live[p] # NoStamp
      BY <2>2, <1>0, <1>3
    <3>2. \A i \in 1..Len(log) : log'[i] = log[i]
      BY <1>3
    <3>3. live[p] \in 1..(j - 1) /\ log'[live[p]] = log[live[p]]
      BY <2>1, <2>2, <3>1, <3>2
    <3> QED  BY <2>1, <2>2, <3>1, <3>2, <3>3, <1>0, <1>3, <1>4
  <2>3. CASE j # Len(log) + 1
    <3>1. j \in 1..Len(log) /\ log'[j] = log[j]
      BY <2>3, <1>3
    <3>2. /\ log[j].born \in 1..(j - 1)
          /\ log[log[j].born].type = "ALLOC"
          /\ log[log[j].born].ptr = log[j].ptr
          /\ log[log[j].born].size = log[j].held
          /\ \A i \in (log[j].born + 1)..(j - 1) : log[i].ptr # log[j].ptr
      BY <3>1 DEF LogInv, FreesMatch
    <3>3. \A i \in 1..(j - 1) : log'[i] = log[i]
      BY <3>1, <1>3
    <3> QED  BY <3>1, <3>2, <3>3
  <2> QED  BY <2>2, <2>3
<1> QED  BY <1>5, <1>6, <1>7 DEF LogInv

LEMMA ForgetInv ==
    ASSUME LogInv, NEW A \in SUBSET Addr, Forget(A)
    PROVE  LogInv'
BY DEF LogInv, LogTypeOK, LiveIsLast, FreesMatch, Forget, Released,
       NoStamp

LEMMA LogStutterInv == ASSUME LogInv, UNCHANGED logVars PROVE LogInv'
BY DEF LogInv, LogTypeOK, LiveIsLast, FreesMatch, logVars

(* The ALLOC of a logged FREE is its last size setter.                     *)
LEMMA LogInvFreeSizes == ASSUME LogInv PROVE FreeSizes
<1> SUFFICES ASSUME NEW j \in 1..Len(log),
                    log[j].type = "FREE", log[j].born # NoStamp
             PROVE  SavedSize(log, j) = log[j].held
  BY DEF FreeSizes, SizesRecoverable
<1> DEFINE b == log[j].born
<1>1. /\ b \in 1..(j - 1)
      /\ log[b].type = "ALLOC"
      /\ log[b].ptr = log[j].ptr
      /\ log[b].size = log[j].held
      /\ \A i \in (b + 1)..(j - 1) : log[i].ptr # log[j].ptr
  BY DEF LogInv, FreesMatch
<1>2. log \in Seq(Event)
  BY DEF LogInv, LogTypeOK
<1> HIDE DEF b
<1> QED  BY <1>1, <1>2, LastSetter

LEMMA LogNextInv == ASSUME LogInv, [LogNext]_logVars PROVE LogInv'
<1>1. ASSUME NEW t \in Threads, NEW n \in Sizes \cup {0}, NEW p \in Ptr,
             NEW h \in Ptr, LogAlloc(t, n, p, h)
      PROVE  LogInv'
  BY <1>1, LogAllocInv, EventsAssumption
<1>2. ASSUME NEW t \in Threads, NEW p \in Addr, NEW n \in Sizes,
             LogFree(t, p, n)
      PROVE  LogInv'
  BY <1>2, LogFreeInv, EventsAssumption
<1>3. ASSUME NEW A \in SUBSET Addr, Forget(A) PROVE LogInv'
  BY <1>3, ForgetInv
<1>4. CASE UNCHANGED logVars
  BY <1>4, LogStutterInv
<1> QED  BY <1>1, <1>2, <1>3, <1>4 DEF LogNext

(* The inductive invariant holds in every state of the abstract log.       *)
THEOREM LogInvariant == LogSpec => []LogInv
BY LogInitInv, LogNextInv, PTL DEF LogSpec

(* Address reuse never makes compute_free_sizes give a FREE the size of    *)
(* another block, in a log of any length over any addresses.               *)
THEOREM LogFreeSizes == LogSpec => []FreeSizes
BY LogInvariant, LogInvFreeSizes, PTL
=============================================================================
