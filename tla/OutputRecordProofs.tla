-------------------------- MODULE OutputRecordProofs --------------------------
(***************************************************************************)
(* What the report says, for any program, any log and any drain order:     *)
(* one inductive invariant for each stage of make_output_record.           *)
(*                                                                         *)
(*   SourceInv   the log, and that each of its events was drained once     *)
(*   TablesInv   the string table, and the key column of each table        *)
(*   BoundsInv   at, in each loop                                          *)
(*   EventsInv   the output events, before and after compute_free_sizes    *)
(*   TypesInv    the rows of the type table, and of its fields and bases   *)
(*   RowsInv     the references of the events into the tables              *)
(*   FramesInv   the rows of the frame table                               *)
(***************************************************************************)
EXTENDS OutputRecord, EventLogProofs, SequenceLemmas

-----------------------------------------------------------------------------
(* The string table.  What inserts rely on besides TableConsistent: the    *)
(* indices in both caches are places of the table.                         *)
Place(st, i) == i \in 0..(Len(st.strtab) - 1)

TableInv(st) ==
    /\ DOMAIN st = {"strtab", "lookup", "cstr_lookup"}
    /\ IsSeq(st.strtab)
    /\ TableConsistent(st)
    /\ \A key \in DOMAIN st.lookup : Place(st, st.lookup[key])
    /\ \A p \in DOMAIN st.cstr_lookup : Place(st, st.cstr_lookup[p])

(* Nothing is taken out of the table, and no index comes to mean another   *)
(* string.                                                                 *)
Grows(st, s) ==
    /\ Len(st.strtab) =< Len(s.strtab)
    /\ \A i \in 1..Len(st.strtab) : s.strtab[i] = st.strtab[i]
    /\ DOMAIN st.lookup \subseteq DOMAIN s.lookup
    /\ DOMAIN st.cstr_lookup \subseteq DOMAIN s.cstr_lookup

(* insert keeps the table consistent, and its key is in the table then.    *)
LEMMA InsertInv ==
    ASSUME NEW st, TableInv(st), NEW key
    PROVE  /\ TableInv(Insert(st, key))
           /\ Grows(st, Insert(st, key))
           /\ key \in DOMAIN Insert(st, key).lookup
           /\ Insert(st, key).cstr_lookup = st.cstr_lookup
<1>1. CASE key \in DOMAIN st.lookup
  <2>1. Insert(st, key) = st
    BY <1>1 DEF Insert
  <2>2. Len(st.strtab) \in Nat
    BY SeqFacts DEF TableInv
  <2> QED  BY <1>1, <2>1, <2>2 DEF Grows
<1>2. CASE key \notin DOMAIN st.lookup
  <2> DEFINE s == Insert(st, key)
             n == Len(st.strtab)
  <2>1. /\ DOMAIN s = {"strtab", "lookup", "cstr_lookup"}
        /\ s.strtab = Append(st.strtab, key)
        /\ s.lookup = Put(st.lookup, key, n)
        /\ s.cstr_lookup = st.cstr_lookup
    BY <1>2 DEF Insert, TableInv
  <2> HIDE DEF s
  <2>2. IsSeq(st.strtab) /\ n \in Nat
    BY SeqFacts DEF TableInv
  <2>3. /\ IsSeq(s.strtab)
        /\ Len(s.strtab) = n + 1
        /\ \A i \in 1..n : s.strtab[i] = st.strtab[i]
        /\ s.strtab[n + 1] = key
    BY <2>1, <2>2, SeqAppend
  <2>4. /\ DOMAIN s.lookup = {key} \cup DOMAIN st.lookup
        /\ s.lookup[key] = n
        /\ \A k \in DOMAIN st.lookup : s.lookup[k] = st.lookup[k]
    BY <1>2, <2>1 DEF Put
  <2>5. /\ DOMAIN st.lookup = {st.strtab[k] : k \in 1..n}
        /\ \A k \in DOMAIN st.lookup : StringAt(st, st.lookup[k]) = k
        /\ \A j, k \in 1..n : st.strtab[j] = st.strtab[k] => j = k
        /\ \A p \in DOMAIN st.cstr_lookup : StringAt(st, st.cstr_lookup[p]) = SafeSv(p)
        /\ \A k \in DOMAIN st.lookup : st.lookup[k] \in 0..(n - 1)
        /\ \A p \in DOMAIN st.cstr_lookup : st.cstr_lookup[p] \in 0..(n - 1)
    BY DEF TableInv, TableConsistent, Place
  <2>6. \A i \in 0..(n - 1) : StringAt(s, i) = StringAt(st, i) /\ Place(s, i)
    BY <2>2, <2>3 DEF StringAt, Place
  <2>7. StringAt(s, n) = key /\ Place(s, n)
    BY <2>2, <2>3 DEF StringAt, Place
  <2>8. DOMAIN s.lookup = {s.strtab[k] : k \in 1..Len(s.strtab)}
    <3>1. 1..Len(s.strtab) = 1..n \cup {n + 1}
      BY <2>2, <2>3
    <3>2. {s.strtab[k] : k \in 1..Len(s.strtab)}
              = {st.strtab[k] : k \in 1..n} \cup {key}
      BY <2>3, <3>1
    <3> QED  BY <2>4, <2>5, <3>2
  <2>9. \A j, k \in 1..Len(s.strtab) : s.strtab[j] = s.strtab[k] => j = k
    <3>1. \A j \in 1..n : st.strtab[j] # key
      BY <1>2, <2>5
    <3>2. \A j \in 1..Len(s.strtab) : j \in 1..n \/ j = n + 1
      BY <2>2, <2>3
    <3>3. \A j, k \in 1..n : s.strtab[j] = s.strtab[k] => j = k
      BY <2>3, <2>5
    <3>4. \A j \in 1..n : s.strtab[j] # s.strtab[n + 1]
      BY <2>3, <3>1
    <3> QED  BY <3>2, <3>3, <3>4
  <2>10. TableConsistent(s)
    BY <2>1, <2>4, <2>5, <2>6, <2>7, <2>8, <2>9 DEF TableConsistent
  <2>11. TableInv(s)
    BY <2>1, <2>3, <2>4, <2>5, <2>6, <2>7, <2>10 DEF TableInv
  <2>12. Grows(st, s)
    BY <2>1, <2>2, <2>3, <2>4 DEF Grows
  <2> QED  BY <2>1, <2>4, <2>11, <2>12 DEF s
<1> QED  BY <1>1, <1>2

(* insert_cstr does too: the cache of addresses leads to the same string.  *)
LEMMA InsertCstrInv ==
    ASSUME NEW st, TableInv(st), NEW p
    PROVE  /\ TableInv(InsertCstr(st, p))
           /\ Grows(st, InsertCstr(st, p))
           /\ p \in DOMAIN InsertCstr(st, p).cstr_lookup
<1>1. CASE p \in DOMAIN st.cstr_lookup
  <2>1. InsertCstr(st, p) = st
    BY <1>1 DEF InsertCstr
  <2>2. Len(st.strtab) \in Nat
    BY SeqFacts DEF TableInv
  <2> QED  BY <1>1, <2>1, <2>2 DEF Grows
<1>2. CASE p \notin DOMAIN st.cstr_lookup
  <2> DEFINE key == SafeSv(p)
             s == Insert(st, key)
             t == InsertCstr(st, p)
  <2>1. /\ TableInv(s) /\ Grows(st, s)
        /\ key \in DOMAIN s.lookup
        /\ s.cstr_lookup = st.cstr_lookup
    BY InsertInv
  <2>2. t = [s EXCEPT !.cstr_lookup = Put(s.cstr_lookup, p, s.lookup[key])]
    BY <1>2 DEF InsertCstr
  <2> HIDE DEF s, t, key
  <2>3. /\ DOMAIN t = {"strtab", "lookup", "cstr_lookup"}
        /\ t.strtab = s.strtab /\ t.lookup = s.lookup
        /\ t.cstr_lookup = Put(s.cstr_lookup, p, s.lookup[key])
    BY <2>1, <2>2 DEF TableInv
  <2>4. /\ DOMAIN t.cstr_lookup = {p} \cup DOMAIN s.cstr_lookup
        /\ t.cstr_lookup[p] = s.lookup[key]
        /\ \A q \in DOMAIN s.cstr_lookup : q # p => t.cstr_lookup[q] = s.cstr_lookup[q]
    BY <2>3 DEF Put
  <2>5. StringAt(s, s.lookup[key]) = SafeSv(p) /\ Place(s, s.lookup[key])
    BY <2>1 DEF TableInv, TableConsistent, key
  <2>6. \A i : StringAt(t, i) = StringAt(s, i) /\ (Place(t, i) <=> Place(s, i))
    BY <2>3 DEF StringAt, Place
  <2>7. TableConsistent(t)
    BY <2>1, <2>3, <2>4, <2>5, <2>6 DEF TableConsistent, TableInv
  <2>8. TableInv(t)
    BY <2>1, <2>3, <2>4, <2>5, <2>6, <2>7 DEF TableInv
  <2>9. Grows(st, t)
    BY <2>1, <2>3, <2>4 DEF Grows
  <2> QED  BY <2>4, <2>8, <2>9 DEF t
<1> QED  BY <1>1, <1>2

(* The index that a call returned decodes to the string it was given, then *)
(* and in any later table.                                                 *)
LEMMA IndexFacts ==
    ASSUME NEW st, TableInv(st)
    PROVE  /\ \A key \in DOMAIN st.lookup :
                  Place(st, Index(st, key)) /\ StringAt(st, Index(st, key)) = key
           /\ \A p \in DOMAIN st.cstr_lookup :
                  Place(st, IndexCstr(st, p)) /\ StringAt(st, IndexCstr(st, p)) = SafeSv(p)
BY DEF TableInv, TableConsistent, Index, IndexCstr

(* A table that has grown keeps every place and the string at it, so an    *)
(* index stored earlier still reads the same.                              *)
LEMMA GrowsFacts ==
    ASSUME NEW st, TableInv(st), NEW s, TableInv(s), Grows(st, s)
    PROVE  \A i : Place(st, i) => Place(s, i) /\ StringAt(s, i) = StringAt(st, i)
<1>1. Len(st.strtab) \in Nat /\ Len(s.strtab) \in Nat
  BY SeqFacts DEF TableInv
<1> QED  BY <1>1 DEF Grows, Place, StringAt

(* Growth composes, as the inserts of one row do.                          *)
LEMMA GrowsTransitive ==
    ASSUME NEW r, TableInv(r), NEW s, TableInv(s), NEW t, TableInv(t),
           Grows(r, s), Grows(s, t)
    PROVE  Grows(r, t)
<1>1. Len(r.strtab) \in Nat /\ Len(s.strtab) \in Nat /\ Len(t.strtab) \in Nat
  BY SeqFacts DEF TableInv
<1> QED  BY <1>1 DEF Grows

(* The recursive function behind InsertAll: after k strings.                 *)
LEMMA InsertAllFunction ==
    ASSUME NEW st, NEW keys, Len(keys) \in Nat
    PROVE  \E f : /\ f[0] = st
                  /\ \A k \in 1..Len(keys) : f[k] = Insert(f[k - 1], keys[k])
                  /\ InsertAll(st, keys) = f[Len(keys)]
<1> DEFINE n == Len(keys)
           Upto(g, m) == g = [k \in 0..m |-> IF k = 0 THEN st ELSE Insert(g[k - 1], keys[k])]
           Exist == {m \in Nat : \E g : Upto(g, m)}
<1>1. 0 \in Exist
  <2> DEFINE g == [k \in 0..0 |-> st]
  <2>1. Upto(g, 0)
    OBVIOUS
  <2> QED  BY <2>1
<1>2. ASSUME NEW m \in Nat, m \in Exist PROVE m + 1 \in Exist
  <2>1. PICK g : Upto(g, m)
    BY <1>2
  <2> DEFINE h == [k \in 0..(m + 1) |->
                      IF k = m + 1 THEN Insert(g[k - 1], keys[k]) ELSE g[k]]
  <2>2. ASSUME NEW k \in 0..(m + 1)
        PROVE  h[k] = IF k = 0 THEN st ELSE Insert(h[k - 1], keys[k])
    <3>1. k # 0 => k - 1 \in 0..m /\ h[k - 1] = g[k - 1]
      OBVIOUS
    <3>2. CASE k = m + 1
      BY <3>1, <3>2
    <3>3. CASE k # m + 1
      <4>1. k \in 0..m /\ h[k] = g[k]
        BY <3>3
      <4>2. g[k] = IF k = 0 THEN st ELSE Insert(g[k - 1], keys[k])
        BY <2>1, <4>1
      <4> QED  BY <3>1, <4>1, <4>2
    <3> QED  BY <3>2, <3>3
  <2>3. h = [k \in 0..(m + 1) |-> h[k]]
    OBVIOUS
  <2>4. Upto(h, m + 1)
    <3> HIDE DEF h
    <3> QED  BY <2>2, <2>3
  <2> HIDE DEF h, Upto
  <2>5. m + 1 \in Nat /\ \E g2 : Upto(g2, m + 1)
    BY <2>4
  <2> QED  BY <2>5
<1>3. \E g : Upto(g, n)
  <2>1. Nat \subseteq Exist
    <3> HIDE DEF Exist
    <3> QED  BY <1>1, <1>2, NatSetInduction
  <2> QED  BY <2>1
<1> DEFINE f == CHOOSE g : Upto(g, n)
<1>4. Upto(f, n)
  BY <1>3
<1>5. InsertAll(st, keys) = f[n]
  BY DEF InsertAll
<1> HIDE DEF f
<1>6. \A k \in 0..n : f[k] = IF k = 0 THEN st ELSE Insert(f[k - 1], keys[k])
  BY <1>4
<1>7. f[0] = st /\ \A k \in 1..n : f[k] = Insert(f[k - 1], keys[k])
  BY <1>6
<1> QED  BY <1>5, <1>7

(* Consecutive calls keep the table consistent, and all their strings are  *)
(* in it then.                                                             *)
LEMMA InsertAllInv ==
    ASSUME NEW st, TableInv(st), NEW keys, Len(keys) \in Nat
    PROVE  /\ TableInv(InsertAll(st, keys))
           /\ Grows(st, InsertAll(st, keys))
           /\ \A k \in 1..Len(keys) : keys[k] \in DOMAIN InsertAll(st, keys).lookup
<1> DEFINE n == Len(keys)
<1>1. PICK f : /\ f[0] = st
               /\ \A k \in 1..n : f[k] = Insert(f[k - 1], keys[k])
               /\ InsertAll(st, keys) = f[n]
  BY InsertAllFunction
<1> DEFINE Fine(m) == /\ TableInv(f[m])
                      /\ Grows(st, f[m])
                      /\ \A k \in 1..m : keys[k] \in DOMAIN f[m].lookup
           Good == {m \in Nat : m =< n => Fine(m)}
<1>2. 0 \in Good
  <2>1. Len(st.strtab) \in Nat
    BY SeqFacts DEF TableInv
  <2>2. Fine(0)
    BY <1>1, <2>1 DEF Grows
  <2> QED  BY <2>2
<1>3. ASSUME NEW m \in Nat, m \in Good PROVE m + 1 \in Good
  <2> SUFFICES ASSUME m + 1 =< n PROVE Fine(m + 1)
    OBVIOUS
  <2>1. m + 1 \in 1..n /\ (m + 1) - 1 = m /\ m =< n
    OBVIOUS
  <2>2. TableInv(f[m]) /\ Grows(st, f[m]) /\ \A k \in 1..m : keys[k] \in DOMAIN f[m].lookup
    BY <1>3, <2>1
  <2>3. f[m + 1] = Insert(f[m], keys[m + 1])
    BY <1>1, <2>1
  <2>4. /\ TableInv(f[m + 1]) /\ Grows(f[m], f[m + 1])
        /\ keys[m + 1] \in DOMAIN f[m + 1].lookup
    BY <2>2, <2>3, InsertInv
  <2>5. Grows(st, f[m + 1])
    BY <2>2, <2>4, GrowsTransitive
  <2>6. \A k \in 1..(m + 1) : keys[k] \in DOMAIN f[m + 1].lookup
    <3>1. DOMAIN f[m].lookup \subseteq DOMAIN f[m + 1].lookup
      BY <2>4 DEF Grows
    <3>2. \A k \in 1..(m + 1) : k \in 1..m \/ k = m + 1
      OBVIOUS
    <3> QED  BY <2>2, <2>4, <3>1, <3>2
  <2> QED  BY <2>4, <2>5, <2>6
<1>4. n \in Good
  <2> HIDE DEF Good
  <2> QED  BY <1>2, <1>3, NatSetInduction
<1> QED  BY <1>1, <1>4

(* The recursive function behind InsertAllCstr: after k strings.           *)
LEMMA InsertAllCstrFunction ==
    ASSUME NEW st, NEW keys, Len(keys) \in Nat
    PROVE  \E f : /\ f[0] = st
                  /\ \A k \in 1..Len(keys) : f[k] = InsertCstr(f[k - 1], keys[k])
                  /\ InsertAllCstr(st, keys) = f[Len(keys)]
<1> DEFINE n == Len(keys)
           Upto(g, m) == g = [k \in 0..m |-> IF k = 0 THEN st ELSE InsertCstr(g[k - 1], keys[k])]
           Exist == {m \in Nat : \E g : Upto(g, m)}
<1>1. 0 \in Exist
  <2> DEFINE g == [k \in 0..0 |-> st]
  <2>1. Upto(g, 0)
    OBVIOUS
  <2> QED  BY <2>1
<1>2. ASSUME NEW m \in Nat, m \in Exist PROVE m + 1 \in Exist
  <2>1. PICK g : Upto(g, m)
    BY <1>2
  <2> DEFINE h == [k \in 0..(m + 1) |->
                      IF k = m + 1 THEN InsertCstr(g[k - 1], keys[k]) ELSE g[k]]
  <2>2. ASSUME NEW k \in 0..(m + 1)
        PROVE  h[k] = IF k = 0 THEN st ELSE InsertCstr(h[k - 1], keys[k])
    <3>1. k # 0 => k - 1 \in 0..m /\ h[k - 1] = g[k - 1]
      OBVIOUS
    <3>2. CASE k = m + 1
      BY <3>1, <3>2
    <3>3. CASE k # m + 1
      <4>1. k \in 0..m /\ h[k] = g[k]
        BY <3>3
      <4>2. g[k] = IF k = 0 THEN st ELSE InsertCstr(g[k - 1], keys[k])
        BY <2>1, <4>1
      <4> QED  BY <3>1, <4>1, <4>2
    <3> QED  BY <3>2, <3>3
  <2>3. h = [k \in 0..(m + 1) |-> h[k]]
    OBVIOUS
  <2>4. Upto(h, m + 1)
    <3> HIDE DEF h
    <3> QED  BY <2>2, <2>3
  <2> HIDE DEF h, Upto
  <2>5. m + 1 \in Nat /\ \E g2 : Upto(g2, m + 1)
    BY <2>4
  <2> QED  BY <2>5
<1>3. \E g : Upto(g, n)
  <2>1. Nat \subseteq Exist
    <3> HIDE DEF Exist
    <3> QED  BY <1>1, <1>2, NatSetInduction
  <2> QED  BY <2>1
<1> DEFINE f == CHOOSE g : Upto(g, n)
<1>4. Upto(f, n)
  BY <1>3
<1>5. InsertAllCstr(st, keys) = f[n]
  BY DEF InsertAllCstr
<1> HIDE DEF f
<1>6. \A k \in 0..n : f[k] = IF k = 0 THEN st ELSE InsertCstr(f[k - 1], keys[k])
  BY <1>4
<1>7. f[0] = st /\ \A k \in 1..n : f[k] = InsertCstr(f[k - 1], keys[k])
  BY <1>6
<1> QED  BY <1>5, <1>7

(* Consecutive calls keep the table consistent, and all their strings are  *)
(* in it then.                                                             *)
LEMMA InsertAllCstrInv ==
    ASSUME NEW st, TableInv(st), NEW keys, Len(keys) \in Nat
    PROVE  /\ TableInv(InsertAllCstr(st, keys))
           /\ Grows(st, InsertAllCstr(st, keys))
           /\ \A k \in 1..Len(keys) : keys[k] \in DOMAIN InsertAllCstr(st, keys).cstr_lookup
<1> DEFINE n == Len(keys)
<1>1. PICK f : /\ f[0] = st
               /\ \A k \in 1..n : f[k] = InsertCstr(f[k - 1], keys[k])
               /\ InsertAllCstr(st, keys) = f[n]
  BY InsertAllCstrFunction
<1> DEFINE Fine(m) == /\ TableInv(f[m])
                      /\ Grows(st, f[m])
                      /\ \A k \in 1..m : keys[k] \in DOMAIN f[m].cstr_lookup
           Good == {m \in Nat : m =< n => Fine(m)}
<1>2. 0 \in Good
  <2>1. Len(st.strtab) \in Nat
    BY SeqFacts DEF TableInv
  <2>2. Fine(0)
    BY <1>1, <2>1 DEF Grows
  <2> QED  BY <2>2
<1>3. ASSUME NEW m \in Nat, m \in Good PROVE m + 1 \in Good
  <2> SUFFICES ASSUME m + 1 =< n PROVE Fine(m + 1)
    OBVIOUS
  <2>1. m + 1 \in 1..n /\ (m + 1) - 1 = m /\ m =< n
    OBVIOUS
  <2>2. TableInv(f[m]) /\ Grows(st, f[m]) /\ \A k \in 1..m : keys[k] \in DOMAIN f[m].cstr_lookup
    BY <1>3, <2>1
  <2>3. f[m + 1] = InsertCstr(f[m], keys[m + 1])
    BY <1>1, <2>1
  <2>4. /\ TableInv(f[m + 1]) /\ Grows(f[m], f[m + 1])
        /\ keys[m + 1] \in DOMAIN f[m + 1].cstr_lookup
    BY <2>2, <2>3, InsertCstrInv
  <2>5. Grows(st, f[m + 1])
    BY <2>2, <2>4, GrowsTransitive
  <2>6. \A k \in 1..(m + 1) : keys[k] \in DOMAIN f[m + 1].cstr_lookup
    <3>1. DOMAIN f[m].cstr_lookup \subseteq DOMAIN f[m + 1].cstr_lookup
      BY <2>4 DEF Grows
    <3>2. \A k \in 1..(m + 1) : k \in 1..m \/ k = m + 1
      OBVIOUS
    <3> QED  BY <2>2, <2>4, <3>1, <3>2
  <2> QED  BY <2>4, <2>5, <2>6
<1>4. n \in Good
  <2> HIDE DEF Good
  <2> QED  BY <1>2, <1>3, NatSetInduction
<1> QED  BY <1>1, <1>4

-----------------------------------------------------------------------------
(* The log and the order in which its events were drained.                 *)
InfoType ==
    /\ IsSeq(info)
    /\ Len(info) = Len(log)
    /\ \A k \in 1..Len(log) :
           info[k].trace \in Traces /\ info[k].objects \in ObjectTraces \cup {<< >>}

(* Every position of the log, once.                                        *)
IsOrderOf(src, n) ==
    /\ IsSeq(src)
    /\ Len(src) = n
    /\ \A i \in 1..n : src[i] \in 1..n
    /\ \A i, j \in 1..n : src[i] = src[j] => i = j
    /\ \A k \in 1..n : \E i \in 1..n : src[i] = k

Phases == {"run", "objects", "frames", "types", "members", "events", "sizes",
           "done", "failed"}

SourceInv ==
    /\ LogInv
    /\ InfoType
    /\ resolved \in Resolutions
    /\ phase \in Phases
    /\ at \in Nat \ {0}
    /\ phase # "run" => IsOrderOf(source, Len(log))

(* A hash order lists each thread exactly once.                            *)
LEMMA OrderFacts ==
    ASSUME NEW c \in Orders
    PROVE  LET N == Cardinality(Threads)
           IN  /\ N \in Nat
               /\ c \in [1..N -> Threads]
               /\ \A i, j \in 1..N : c[i] = c[j] => i = j
               /\ \A t \in Threads : \E i \in 1..N : c[i] = t
<1> DEFINE N == Cardinality(Threads)
<1>1. IsFiniteSet(Threads) /\ N \in Nat
  BY OutputRecordAssumption, FS_CardinalityType
<1>2. c \in [1..N -> Threads] /\ \A i, j \in 1..N : c[i] = c[j] => i = j
  BY DEF Orders, IsInjective
<1>3. IsFiniteSet(1..N) /\ Cardinality(1..N) = N
  BY <1>1, FS_Interval
<1> HIDE DEF N
<1>4. c \in Injection(1..N, Threads)
  BY <1>2 DEF Injection, IsInjective
<1>5. c \in Surjection(1..N, Threads)
  BY <1>1, <1>3, <1>4, FS_Injection DEF N
<1>6. \A t \in Threads : \E i \in 1..N : c[i] = t
  BY <1>5 DEF Surjection
<1> QED  BY <1>1, <1>2, <1>6 DEF N

(* drain, called for one context after the other, leaves each event of the *)
(* log once, whatever the order of the contexts.                           *)
LEMMA DrainedFacts ==
    ASSUME LogTypeOK, NEW c \in Orders
    PROVE  IsOrderOf(Drained(c), Len(log))
<1> DEFINE N == Cardinality(Threads)
           n == Len(log)
           By(t) == {k \in 1..n : log[k].by = t}
           ss == [i \in 1..N |-> Ascending(By(c[i]))]
<1>1. /\ N \in Nat
      /\ c \in [1..N -> Threads]
      /\ \A i, j \in 1..N : c[i] = c[j] => i = j
      /\ \A t \in Threads : \E i \in 1..N : c[i] = t
  BY OrderFacts
<1>2. n \in Nat /\ \A k \in 1..n : log[k].by \in Threads
  <2>1. n \in Nat /\ \A k \in 1..n : log[k] \in Event
    BY DEF LogTypeOK
  <2> QED  BY <2>1 DEF Event
<1>3. Drained(c) = FlattenSeq(ss)
  BY <1>1 DEF Drained
<1>4. IsSeq(ss) /\ Len(ss) = N
  <2>1. ss = [i \in 1..N |-> ss[i]]
    OBVIOUS
  <2> HIDE DEF ss
  <2> QED  BY <1>1, <2>1, SeqOfFunction
<1>5. ASSUME NEW i \in 1..N
      PROVE  /\ IsSeq(ss[i])
             /\ \A j, k \in 1..Len(ss[i]) : ss[i][j] = ss[i][k] => j = k
             /\ \A j \in 1..Len(ss[i]) : ss[i][j] \in 1..n /\ log[ss[i][j]].by = c[i]
             /\ \A k \in 1..n : log[k].by = c[i] => \E j \in 1..Len(ss[i]) : ss[i][j] = k
  <2>1. PICK S : S = By(c[i])
    OBVIOUS
  <2>2. S \in SUBSET (1..n) /\ S \subseteq Int
    BY <2>1
  <2>3. IsFiniteSet(S)
    <3>1. IsFiniteSet(1..n)
      BY <1>2, UptoFinite
    <3> HIDE DEF n
    <3> QED  BY <2>2, <3>1, FS_Subset
  <2>4. ListsInOrder(Ascending(S), S, [x \in S |-> x])
    BY <2>2, <2>3, AscendingFacts
  <2>5. PICK s : s = Ascending(S)
    OBVIOUS
  <2>6. /\ Cardinality(S) \in Nat
        /\ s \in [1..Cardinality(S) -> S]
        /\ \A j, k \in 1..Cardinality(S) : s[j] = s[k] => j = k
        /\ \A x \in S : \E j \in 1..Cardinality(S) : s[j] = x
    BY <2>4, <2>5 DEF ListsInOrder
  <2>7. IsSeq(s) /\ Len(s) = Cardinality(S)
    BY <2>6, SeqOfFunction
  <2>8. ss[i] = s
    BY <2>1, <2>5
  <2>9. \A j \in 1..Len(s) : s[j] \in 1..n /\ log[s[j]].by = c[i]
    BY <2>1, <2>6, <2>7
  <2>10. \A k \in 1..n : log[k].by = c[i] => \E j \in 1..Len(s) : s[j] = k
    BY <2>1, <2>6, <2>7
  <2> HIDE DEF ss
  <2> QED  BY <2>6, <2>7, <2>8, <2>9, <2>10
<1> HIDE DEF ss, n, N
<1> DEFINE s == FlattenSeq(ss)
<1>6. /\ IsSeq(s)
      /\ \A p, q \in 1..Len(s) : s[p] = s[q] => p = q
      /\ \A p \in 1..Len(s) :
             \E i \in 1..Len(ss) : \E j \in 1..Len(ss[i]) : s[p] = ss[i][j]
      /\ \A i \in 1..Len(ss) : \A j \in 1..Len(ss[i]) :
             \E p \in 1..Len(s) : s[p] = ss[i][j]
  <2>1. \A h, i \in 1..Len(ss) : h # i =>
            \A j \in 1..Len(ss[h]), k \in 1..Len(ss[i]) : ss[h][j] # ss[i][k]
    BY <1>1, <1>4, <1>5
  <2>2. \A i \in 1..Len(ss) : IsSeq(ss[i])
    BY <1>4, <1>5
  <2>3. \A i \in 1..Len(ss) : \A j, k \in 1..Len(ss[i]) : ss[i][j] = ss[i][k] => j = k
    BY <1>4, <1>5
  <2> QED  BY <1>4, <2>1, <2>2, <2>3, FlattenDistinct
<1> HIDE DEF s
<1>7. ASSUME NEW p \in 1..Len(s) PROVE s[p] \in 1..n
  <2>1. PICK i \in 1..N : \E j \in 1..Len(ss[i]) : s[p] = ss[i][j]
    BY <1>4, <1>6
  <2> QED  BY <1>5, <2>1
<1>8. \A k \in 1..n : \E p \in 1..Len(s) : s[p] = k
  <2> SUFFICES ASSUME NEW k \in 1..n PROVE \E p \in 1..Len(s) : s[p] = k
    OBVIOUS
  <2>1. PICK i \in 1..N : c[i] = log[k].by
    BY <1>1, <1>2
  <2>2. PICK j \in 1..Len(ss[i]) : ss[i][j] = k
    BY <1>5, <2>1
  <2> QED  BY <1>4, <1>6, <2>1, <2>2
<1>9. Len(s) = n
  <2>1. Len(s) \in Nat /\ DOMAIN s = 1..Len(s)
    BY <1>6, SeqFacts
  <2>2. s \in [1..Len(s) -> 1..n]
    <3>1. s = [i \in 1..Len(s) |-> s[i]]
      BY <1>6 DEF IsSeq
    <3> QED  BY <1>7, <3>1
  <2>3. s \in Bijection(1..Len(s), 1..n)
    BY <1>6, <1>8, <2>2 DEF Bijection, Injection, Surjection, IsInjective
  <2>4. IsFiniteSet(1..Len(s)) /\ Cardinality(1..Len(s)) = Len(s) /\ Cardinality(1..n) = n
    BY <1>2, <2>1, UptoFinite
  <2>5. ExistsBijection(1..Len(s), 1..n)
    BY <2>3 DEF ExistsBijection
  <2> QED  BY <2>4, <2>5, FS_Bijection
<1> QED  BY <1>3, <1>6, <1>7, <1>8, <1>9 DEF IsOrderOf, s, n

(* A block that realloc resizes in place: its new ALLOC is the last event  *)
(* at its address.                                                         *)
LEMMA ResizeInv ==
    ASSUME LogInv, NEW t \in Threads, NEW n \in Sizes, NEW p \in Addr,
           log' = Append(log, AllocEvent(t, n, p, p)),
           live' = [live EXCEPT ![p] = Len(log) + 1]
    PROVE  LogInv'
<1> DEFINE e == AllocEvent(t, n, p, p)
<1>1. log \in Seq(Event) /\ live \in [Addr -> Nat]
  BY DEF LogInv, LogTypeOK
<1>2. e \in Event /\ e.type = "ALLOC" /\ e.ptr = p
  BY EventTypes, EventsAssumption DEF AllocEvent, Ptr
<1>3. /\ log' \in Seq(Event)
      /\ Len(log') = Len(log) + 1
      /\ \A i \in 1..Len(log) : log'[i] = log[i]
      /\ log'[Len(log) + 1] = e
      /\ Len(log) \in Nat
  BY <1>1, <1>2
<1> HIDE DEF e
<1>4. LogTypeOK'
  BY <1>1, <1>3 DEF LogTypeOK
<1>5. LiveIsLast'
  <2> SUFFICES ASSUME NEW a \in Addr, live'[a] # NoStamp
               PROVE  /\ live'[a] \in 1..Len(log')
                      /\ log'[live'[a]].type = "ALLOC"
                      /\ log'[live'[a]].ptr = a
                      /\ \A i \in (live'[a] + 1)..Len(log') : log'[i].ptr # a
    BY DEF LiveIsLast
  <2>1. CASE a = p
    BY <1>1, <1>2, <1>3, <2>1
  <2>2. CASE a # p
    <3>1. live'[a] = live[a]
      BY <1>1, <2>2
    <3> QED  BY <1>2, <1>3, <2>2, <3>1 DEF LogInv, LiveIsLast
  <2> QED  BY <2>1, <2>2
<1>6. FreesMatch'
  <2> SUFFICES ASSUME NEW j \in 1..Len(log'),
                      log'[j].type = "FREE", log'[j].born # NoStamp
               PROVE  LET b == log'[j].born
                      IN  /\ b \in 1..(j - 1)
                          /\ log'[b].type = "ALLOC"
                          /\ log'[b].ptr = log'[j].ptr
                          /\ log'[b].size = log'[j].held
                          /\ \A i \in (b + 1)..(j - 1) : log'[i].ptr # log'[j].ptr
    BY DEF FreesMatch
  <2>1. j \in 1..Len(log) /\ log'[j] = log[j]
    BY <1>2, <1>3
  <2>2. /\ log[j].born \in 1..(j - 1)
        /\ log[log[j].born].type = "ALLOC"
        /\ log[log[j].born].ptr = log[j].ptr
        /\ log[log[j].born].size = log[j].held
        /\ \A i \in (log[j].born + 1)..(j - 1) : log[i].ptr # log[j].ptr
    BY <2>1 DEF LogInv, FreesMatch
  <2>3. \A i \in 1..(j - 1) : log'[i] = log[i]
    BY <1>3, <2>1
  <2> QED  BY <2>1, <2>2, <2>3
<1> QED  BY <1>4, <1>5, <1>6 DEF LogInv

(* An allocation or a free that the context records appends one event to   *)
(* the log and leaves the report alone.                                    *)
LEMMA RecordLogInv ==
    ASSUME SourceInv, Record
    PROVE  /\ LogInv'
           /\ Len(log') = Len(log) + 1
           /\ InfoType'
           /\ UNCHANGED <<resolved, phase, source, tables, sizeVars>>
           /\ phase = "run"
<1>1. LogInv /\ InfoType /\ log \in Seq(Event) /\ phase = "run"
  BY DEF SourceInv, LogInv, LogTypeOK, Record
<1>2. PICK t \in Threads, tr \in Traces :
          \/ \E n \in Sizes, p \in Ptr :
                 LogAlloc(t, n, p, Null)
                   /\ info' = Append(info, [trace |-> tr, objects |-> << >>])
          \/ \E n \in Sizes, p \in {a \in Addr : live[a] # NoStamp} :
                 /\ log' = Append(log, AllocEvent(t, n, p, p))
                 /\ live' = [live EXCEPT ![p] = Len(log) + 1]
                 /\ info' = Append(info, [trace |-> tr, objects |-> << >>])
          \/ \E p \in {a \in Addr : live[a] # NoStamp}, ot \in ObjectTraces :
                 LogFree(t, p, log[live[p]].size)
                   /\ info' = Append(info, [trace |-> tr, objects |-> ot])
  BY DEF Record
<1>3. PICK ot \in ObjectTraces \cup {<< >>} :
          info' = Append(info, [trace |-> tr, objects |-> ot])
  BY <1>2
<1>4. LogInv' /\ \E e : log' = Append(log, e)
  <2>1. ASSUME NEW n \in Sizes, NEW p \in Ptr, LogAlloc(t, n, p, Null)
        PROVE  LogInv' /\ \E e : log' = Append(log, e)
    <3>1. n \in Nat /\ Null \in Ptr
      BY EventsAssumption DEF Ptr
    <3>2. LogInv'
      BY <1>1, <2>1, <3>1, LogAllocInv
    <3> QED  BY <2>1, <3>2 DEF LogAlloc
  <2>2. ASSUME NEW n \in Sizes, NEW p \in {a \in Addr : live[a] # NoStamp},
               log' = Append(log, AllocEvent(t, n, p, p)),
               live' = [live EXCEPT ![p] = Len(log) + 1]
        PROVE  LogInv' /\ \E e : log' = Append(log, e)
    <3>1. p \in Addr
      OBVIOUS
    <3> QED  BY <1>1, <2>2, <3>1, ResizeInv
  <2>3. ASSUME NEW p \in {a \in Addr : live[a] # NoStamp},
               LogFree(t, p, log[live[p]].size)
        PROVE  LogInv' /\ \E e : log' = Append(log, e)
    <3>1. p \in Addr /\ live[p] \in 1..Len(log)
      BY <1>1 DEF LogInv, LiveIsLast
    <3>2. log[live[p]].size \in Nat
      <4>1. log[live[p]] \in Event
        BY <1>1, <3>1
      <4> QED  BY <4>1 DEF Event
    <3>3. LogInv'
      BY <1>1, <2>3, <3>1, <3>2, LogFreeInv
    <3> QED  BY <2>3, <3>3 DEF LogFree
  <2> QED  BY <1>2, <2>1, <2>2, <2>3
<1>5. Len(log') = Len(log) + 1 /\ Len(log) \in Nat
  BY <1>1, <1>4
<1>6. InfoType'
  <2>1. PICK i : i = [trace |-> tr, objects |-> ot]
    OBVIOUS
  <2>2. i.trace \in Traces /\ i.objects \in ObjectTraces \cup {<< >>}
    BY <2>1
  <2>3. info' = Append(info, i)
    BY <1>3, <2>1
  <2>4. /\ IsSeq(info) /\ Len(info) = Len(log)
        /\ \A k \in 1..Len(log) :
               info[k].trace \in Traces /\ info[k].objects \in ObjectTraces \cup {<< >>}
    BY <1>1 DEF InfoType
  <2>5. /\ IsSeq(info') /\ Len(info') = Len(info) + 1
        /\ \A k \in 1..Len(info) : info'[k] = info[k]
        /\ info'[Len(info) + 1] = i
    BY <2>3, <2>4, SeqAppend
  <2>6. \A k \in 1..Len(log') : k \in 1..Len(log) \/ k = Len(log) + 1
    BY <1>5
  <2> QED  BY <1>5, <2>2, <2>4, <2>5, <2>6 DEF InfoType
<1> QED  BY <1>1, <1>4, <1>5, <1>6 DEF Record

(* Every step but Record and MakeOutputRecord leaves the log alone.        *)
Later ==
    /\ phase # "run"
    /\ UNCHANGED <<recordVars, resolved, source>>
    /\ phase' \in Phases \ {"run"}
    /\ at' \in Nat \ {0}

(* What an output event leaves alone.                                      *)
EventFrame ==
    /\ phase = "events"
    /\ at =< Len(source)
    /\ at' = at + 1
    /\ out' = Append(out, log[source[event_ordering[at]]])
    /\ UNCHANGED <<recordVars, resolved, phase, source, frames, types, alloc_sizes>>

(* What a step of the event loop changes besides the rows it adds.         *)
LEMMA EventRowFrame == ASSUME EventRow PROVE EventFrame
BY Zenon DEF EventRow, EventFrame

(* The loops of the report builder come after the program's steps.         *)
LEMMA LaterSteps ==
    ASSUME SourceInv,
           \/ ObjectRow \/ FrameRow \/ TypeRow \/ MemberRow \/ EventRow
           \/ SizesStep \/ Loops \/ Ended
    PROVE  Later
<1>0. phase \in Phases /\ at \in Nat \ {0}
  BY DEF SourceInv
<1>1. ASSUME ObjectRow PROVE Later
  BY <1>0, <1>1 DEF ObjectRow, InLoop, Later, Phases
<1>2. ASSUME FrameRow PROVE Later
  BY <1>0, <1>2 DEF FrameRow, InLoop, Later, Phases
<1>3. ASSUME TypeRow PROVE Later
  BY <1>0, <1>3 DEF TypeRow, InLoop, Later, Phases
<1>4. ASSUME MemberRow PROVE Later
  BY <1>0, <1>4 DEF MemberRow, InLoop, Later, Phases
<1>5. ASSUME EventRow PROVE Later
  <2>1. EventFrame
    BY <1>5, EventRowFrame
  <2>2. at + 1 \in Nat \ {0}
    BY <1>0
  <2> QED  BY <1>0, <2>1, <2>2 DEF EventFrame, Later, Phases
<1>6. ASSUME SizesStep PROVE Later
  BY <1>0, <1>6 DEF SizesStep, SizeRow, Later, Phases
<1>7. ASSUME Loops PROVE Later
  BY <1>0, <1>7 DEF Loops, EndLoop, Later, Phases, sizeVars
<1>8. ASSUME Ended PROVE Later
  BY <1>0, <1>8 DEF Ended, vars, Later, Phases, sizeVars
<1> QED  BY <1>1, <1>2, <1>3, <1>4, <1>5, <1>6, <1>7, <1>8

(* No step breaks what is known of the log and of the drained order.       *)
LEMMA SourceInvStep == ASSUME SourceInv, [Next]_vars PROVE SourceInv'
<1>1. CASE Record
  <2>1. phase' = "run" /\ resolved' = resolved /\ at' = at
    BY <1>1, RecordLogInv DEF sizeVars
  <2> QED  BY <1>1, <2>1, RecordLogInv DEF SourceInv
<1>2. CASE MakeOutputRecord
  <2>1. PICK c \in Orders : source' = Drained(c)
    BY <1>2 DEF MakeOutputRecord
  <2>2. LogTypeOK
    BY DEF SourceInv, LogInv
  <2>3. log' = log /\ live' = live /\ info' = info /\ resolved' = resolved /\ at' = at
    BY <1>2 DEF MakeOutputRecord, recordVars, sizeVars
  <2>4. phase' \in Phases
    BY <1>2 DEF MakeOutputRecord, Phases
  <2>5. IsOrderOf(source', Len(log'))
    BY <2>1, <2>2, <2>3, DrainedFacts
  <2>6. LogInv'
    BY <2>3, LogStutterInv DEF SourceInv, logVars
  <2>7. InfoType'
    BY <2>3 DEF SourceInv, InfoType
  <2> QED  BY <2>3, <2>4, <2>5, <2>6, <2>7 DEF SourceInv
<1>3. CASE Later
  <2>1. log' = log /\ live' = live /\ info' = info /\ resolved' = resolved /\ source' = source
    BY <1>3 DEF Later, recordVars
  <2>2. LogInv'
    BY <2>1, LogStutterInv DEF SourceInv, logVars
  <2> QED  BY <1>3, <2>1, <2>2 DEF Later, SourceInv, InfoType
<1>4. CASE UNCHANGED vars
  <2>1. /\ log' = log /\ live' = live /\ info' = info /\ resolved' = resolved
        /\ source' = source /\ phase' = phase /\ at' = at
    BY <1>4 DEF vars, recordVars, sizeVars
  <2>2. LogInv'
    BY <2>1, LogStutterInv DEF SourceInv, logVars
  <2> QED  BY <2>1, <2>2 DEF SourceInv, InfoType
<1> QED  BY <1>1, <1>2, <1>3, <1>4, LaterSteps DEF Next

(* The program starts with an empty log.                                   *)
LEMMA SourceInvInit == ASSUME Init PROVE SourceInv
<1>1. LogInv
  BY LogInitInv DEF Init
<1>2. log = << >> /\ info = << >>
  BY DEF Init, LogInit
<1>3. IsSeq(info)
  <2>1. info \in Seq({})
    BY <1>2
  <2> QED  BY <2>1 DEF IsSeq
<1>4. InfoType
  BY <1>2, <1>3 DEF InfoType
<1> QED  BY <1>1, <1>4 DEF Init, SourceInv, Phases

(* At every state the log numbers its events from 1 and each has a trace   *)
(* and objects the program can have; from the exit on, source, the drained *)
(* event lists end to end, holds every event of the log once, whatever the *)
(* order of the contexts (context.cpp, output_record.cpp:203-228).         *)
THEOREM SourceInvariant == Spec => []SourceInv
BY SourceInvInit, SourceInvStep, PTL DEF Spec

-----------------------------------------------------------------------------
(* The first column of a table: each element of S once.                    *)
IsColumn(col, S) ==
    /\ IsSeq(col)
    /\ \A i \in 1..Len(col) : col[i] \in S
    /\ \A i, j \in 1..Len(col) : col[i] = col[j] => i = j
    /\ \A v \in S : \E i \in 1..Len(col) : col[i] = v

TracePcs == UNION {Range(info[k].trace) : k \in 1..Len(log)}

ObjectAddrs == UNION {Range(info[k].objects) : k \in 1..Len(log)}

ColumnsInv ==
    phase # "run" => /\ IsColumn(frames.pc, TracePcs)
                     /\ IsColumn(types.type_data, ObjectAddrs)

(* std::sort on a set of numbers gives a column that holds each of them    *)
(* once.                                                                   *)
LEMMA AscendingColumn ==
    ASSUME NEW S, IsFiniteSet(S), S \subseteq Int
    PROVE  IsColumn(Ascending(S), S)
<1> DEFINE n == Cardinality(S)
<1>1. ListsInOrder(Ascending(S), S, [x \in S |-> x])
  BY AscendingFacts
<1>2. PICK s : s = Ascending(S)
  OBVIOUS
<1>3. /\ n \in Nat
      /\ s \in [1..n -> S]
      /\ \A i, j \in 1..n : s[i] = s[j] => i = j
      /\ \A x \in S : \E i \in 1..n : s[i] = x
  BY <1>1, <1>2 DEF ListsInOrder
<1> HIDE DEF n
<1>4. s = [i \in 1..n |-> s[i]]
  BY <1>3
<1>5. IsSeq(s) /\ Len(s) = n
  BY <1>3, <1>4, SeqOfFunction
<1> QED  BY <1>2, <1>3, <1>5 DEF IsColumn

(* What the hooks recorded with the events.                                *)
LEMMA InfoFacts ==
    ASSUME SourceInv
    PROVE  /\ Len(log) \in Nat
           /\ \A k \in 1..Len(log) :
                  /\ info[k].trace \in Seq(Nat) /\ info[k].trace \in Traces
                  /\ info[k].objects \in Seq(DOMAIN TypeData)
           /\ TracePcs \subseteq Int /\ IsFiniteSet(TracePcs)
           /\ ObjectAddrs \subseteq DOMAIN TypeData /\ IsFiniteSet(ObjectAddrs)
           /\ \A k \in 1..Len(log) : Range(info[k].trace) \subseteq TracePcs
           /\ \A k \in 1..Len(log) : Range(info[k].objects) \subseteq ObjectAddrs
<1> DEFINE n == Len(log)
<1>1. n \in Nat
  BY DEF SourceInv, LogInv, LogTypeOK
<1>2. ASSUME NEW k \in 1..n
      PROVE  /\ info[k].trace \in Seq(Nat) /\ info[k].trace \in Traces
             /\ info[k].objects \in Seq(DOMAIN TypeData)
  <2>1. info[k].trace \in Traces /\ info[k].objects \in ObjectTraces \cup {<< >>}
    BY DEF SourceInv, InfoType
  <2>2. info[k].trace \in Seq(Nat)
    BY <2>1, OutputRecordAssumption
  <2>3. info[k].objects \in Seq(DOMAIN TypeData)
    <3>1. CASE info[k].objects \in ObjectTraces
      BY <3>1, OutputRecordAssumption
    <3>2. CASE info[k].objects = << >>
      BY <3>2
    <3> QED  BY <2>1, <3>1, <3>2
  <2> QED  BY <2>1, <2>2, <2>3
<1> HIDE DEF n
<1>3. PICK f : f = [k \in 1..n |-> info[k].trace]
  OBVIOUS
<1>4. PICK g : g = [k \in 1..n |-> info[k].objects]
  OBVIOUS
<1>5. \A k \in 1..n : f[k] = info[k].trace /\ g[k] = info[k].objects
  BY <1>3, <1>4
<1>6. \A k \in 1..n : IsSeq(f[k]) /\ IsSeq(g[k])
  BY <1>2, <1>5 DEF IsSeq
<1>7. TracePcs = UNION {Range(f[k]) : k \in 1..n}
  BY <1>5 DEF TracePcs, n
<1>8. ObjectAddrs = UNION {Range(g[k]) : k \in 1..n}
  BY <1>5 DEF ObjectAddrs, n
<1>9. IsFiniteSet(TracePcs) /\ IsFiniteSet(ObjectAddrs)
  BY <1>1, <1>6, <1>7, <1>8, RangesFinite
<1>10. \A k \in 1..n : Range(f[k]) \subseteq Nat /\ Range(g[k]) \subseteq DOMAIN TypeData
  <2> SUFFICES ASSUME NEW k \in 1..n
               PROVE  Range(f[k]) \subseteq Nat /\ Range(g[k]) \subseteq DOMAIN TypeData
    OBVIOUS
  <2>1. PICK a \in Seq(Nat) : a = f[k]
    BY <1>2, <1>5
  <2>2. PICK b \in Seq(DOMAIN TypeData) : b = g[k]
    BY <1>2, <1>5
  <2>3. Range(a) \subseteq Nat
    BY DEF Range
  <2>4. Range(b) \subseteq DOMAIN TypeData
    BY DEF Range
  <2> QED  BY <2>1, <2>2, <2>3, <2>4
<1>11. \A x \in TracePcs : \E k \in 1..n : x \in Range(f[k])
  BY <1>7
<1>12. \A x \in ObjectAddrs : \E k \in 1..n : x \in Range(g[k])
  BY <1>8
<1>13. TracePcs \subseteq Int /\ ObjectAddrs \subseteq DOMAIN TypeData
  BY <1>10, <1>11, <1>12
<1>14. \A k \in 1..n : Range(f[k]) \subseteq TracePcs /\ Range(g[k]) \subseteq ObjectAddrs
  BY <1>7, <1>8
<1> QED  BY <1>1, <1>2, <1>5, <1>9, <1>13, <1>14 DEF n

(* collect_pcs and collect_type_data list every program counter and every  *)
(* type of the log once, whatever the order of the threads' event lists.   *)
LEMMA CollectFacts ==
    ASSUME SourceInv, NEW src, IsOrderOf(src, Len(log))
    PROVE  /\ IsColumn(collect_pcs(src), TracePcs)
           /\ IsColumn(collect_type_data(src), ObjectAddrs)
<1>1. Range(src) = 1..Len(log)
  <2>1. DOMAIN src = 1..Len(log)
    BY SeqFacts DEF IsOrderOf
  <2> QED  BY <2>1 DEF IsOrderOf, Range
<1>2. collect_pcs(src) = Ascending(TracePcs)
  BY <1>1 DEF collect_pcs, TracePcs
<1>3. collect_type_data(src) = Ascending(ObjectAddrs)
  BY <1>1 DEF collect_type_data, ObjectAddrs
<1>4. ObjectAddrs \subseteq Int
  BY InfoFacts, OutputRecordAssumption
<1> QED  BY <1>2, <1>3, <1>4, InfoFacts, AscendingColumn

-----------------------------------------------------------------------------
(* What the rows of each loop do, column by column.                        *)
TablesShape ==
    /\ DOMAIN frames = {"pc", "object_path", "object_symbol", "offsets", "func", "is_inline"}
    /\ DOMAIN types = {"type_data", "type", "field_off", "base_off", "field_names", "base_types"}

SameFrames ==
    /\ DOMAIN frames' = DOMAIN frames
    /\ frames'.pc = frames.pc
    /\ frames'.func = frames.func
    /\ frames'.offsets = frames.offsets

SameEvents == UNCHANGED <<pc_ids, objects, out, alloc_sizes>>

(* What one step of the object file loop changes.                          *)
LEMMA ObjectRowFacts ==
    ASSUME TablesShape, ObjectRow
    PROVE  /\ phase = "objects" /\ phase' = phase /\ at =< Len(frames.pc) /\ at' = at + 1
           /\ SameFrames /\ types' = types /\ SameEvents
           /\ \/ \E p, q : strs' = InsertAllCstr(strs, <<p, q>>)
              \/ \E key : strs' = InsertCstr(Insert(strs, key), EmptyLiteral)
<1>1. /\ InLoop("objects", Len(frames.pc))
      /\ UNCHANGED <<types, pc_ids, objects>>
      /\ \E p, q : frames' = [frames EXCEPT !.object_path = p, !.object_symbol = q]
      /\ \/ \E p, q : strs' = InsertAllCstr(strs, <<p, q>>)
         \/ \E key : strs' = InsertCstr(Insert(strs, key), EmptyLiteral)
  BY Zenon DEF ObjectRow
<1>2. SameFrames
  <2>1. PICK p, q : frames' = [frames EXCEPT !.object_path = p, !.object_symbol = q]
    BY <1>1
  <2> QED  BY <2>1 DEF SameFrames, TablesShape
<1>3. /\ phase = "objects" /\ phase' = phase /\ at =< Len(frames.pc) /\ at' = at + 1
      /\ UNCHANGED <<out, alloc_sizes>>
  BY <1>1 DEF InLoop
<1>4. SameEvents
  BY <1>1, <1>3 DEF SameEvents
<1> QED  BY <1>1, <1>2, <1>3, <1>4

(* What one step of the frame loop changes.                                *)
LEMMA FrameRowFacts ==
    ASSUME TablesShape, FrameRow
    PROVE  LET f    == StackFrames(frames.pc)[at]
               name == FuncName(resolved[frames.pc[Len(frames.offsets)]], f)
           IN  /\ phase = "frames" /\ phase' = phase
               /\ at =< Len(StackFrames(frames.pc)) /\ at' = at + 1
               /\ types' = types /\ SameEvents
               /\ strs' = InsertAll(strs, <<f.symbol, name>>)
               /\ DOMAIN frames' = DOMAIN frames
               /\ frames'.pc = frames.pc
               /\ frames'.func = Append(frames.func, Index(strs', name))
               /\ frames'.offsets = IF f.is_inline THEN frames.offsets
                                    ELSE Append(frames.offsets, at)
<1> DEFINE f == StackFrames(frames.pc)[at]
           name == FuncName(resolved[frames.pc[Len(frames.offsets)]], f)
<1>1. /\ InLoop("frames", Len(StackFrames(frames.pc)))
      /\ UNCHANGED <<types, pc_ids, objects>>
      /\ strs' = InsertAll(strs, <<f.symbol, name>>)
      /\ frames' = [frames EXCEPT
                  !.func = Append(frames.func, Index(strs', name)),
                  !.is_inline = Append(frames.is_inline, f.is_inline),
                  !.offsets = IF f.is_inline THEN frames.offsets ELSE Append(frames.offsets, at)]
  BY DEF FrameRow
<1> HIDE DEF f, name
<1>2. /\ DOMAIN frames' = DOMAIN frames
      /\ frames'.pc = frames.pc
      /\ frames'.func = Append(frames.func, Index(strs', name))
      /\ frames'.offsets = IF f.is_inline THEN frames.offsets ELSE Append(frames.offsets, at)
  BY <1>1 DEF TablesShape
<1>3. /\ phase = "frames" /\ phase' = phase
      /\ at =< Len(StackFrames(frames.pc)) /\ at' = at + 1
      /\ UNCHANGED <<out, alloc_sizes>>
  BY <1>1 DEF InLoop
<1>4. SameEvents /\ types' = types
  BY <1>1, <1>3 DEF SameEvents
<1> QED  BY <1>1, <1>2, <1>3, <1>4 DEF f, name

(* What one step of the type loop changes.                                 *)
LEMMA TypeRowFacts ==
    ASSUME TablesShape, TypeRow
    PROVE  LET ent == TypeData[types.type_data[at]]
           IN  /\ phase = "types" /\ phase' = phase
               /\ at =< Len(types.type_data) /\ at' = at + 1
               /\ frames' = frames /\ SameEvents
               /\ strs' = InsertCstr(strs, ent.type)
               /\ DOMAIN types' = DOMAIN types
               /\ types'.type_data = types.type_data
               /\ types'.type = Append(types.type, IndexCstr(strs', ent.type))
               /\ types'.field_off =
                      Append(types.field_off, types.field_off[at] + Len(ent.field_names))
               /\ types'.base_off =
                      Append(types.base_off, types.base_off[at] + Len(ent.base_types))
               /\ types'.field_names = types.field_names
               /\ types'.base_types = types.base_types
<1> DEFINE ent == TypeData[types.type_data[at]]
<1>1. /\ InLoop("types", Len(types.type_data))
      /\ UNCHANGED <<frames, pc_ids, objects>>
      /\ strs' = InsertCstr(strs, ent.type)
      /\ types' = [types EXCEPT
                  !.type = Append(types.type, IndexCstr(strs', ent.type)),
                  !.field_off = Append(types.field_off, types.field_off[at] + Len(ent.field_names)),
                  !.base_off = Append(types.base_off, types.base_off[at] + Len(ent.base_types))]
  BY DEF TypeRow
<1> HIDE DEF ent
<1>2. /\ DOMAIN types' = DOMAIN types
      /\ types'.type_data = types.type_data
      /\ types'.type = Append(types.type, IndexCstr(strs', ent.type))
      /\ types'.field_off =
             Append(types.field_off, types.field_off[at] + Len(ent.field_names))
      /\ types'.base_off =
             Append(types.base_off, types.base_off[at] + Len(ent.base_types))
      /\ types'.field_names = types.field_names
      /\ types'.base_types = types.base_types
  BY <1>1 DEF TablesShape
<1>3. /\ phase = "types" /\ phase' = phase
      /\ at =< Len(types.type_data) /\ at' = at + 1
      /\ UNCHANGED <<out, alloc_sizes>>
  BY <1>1 DEF InLoop
<1>4. SameEvents /\ frames' = frames
  BY <1>1, <1>3 DEF SameEvents
<1> QED  BY <1>1, <1>2, <1>3, <1>4 DEF ent

(* The indices that a list of strings gets in the string table.            *)
IndexList(st, ps) == [j \in DOMAIN ps |-> IndexCstr(st, ps[j])]

(* What one step of the fields and bases loop changes.                     *)
LEMMA MemberRowFacts ==
    ASSUME TablesShape, MemberRow
    PROVE  LET ent == TypeData[types.type_data[at]]
           IN  /\ phase = "members" /\ phase' = phase
               /\ at =< Len(types.type_data) /\ at' = at + 1
               /\ frames' = frames /\ SameEvents
               /\ strs' = InsertAllCstr(strs, ent.field_names \o ent.base_types)
               /\ DOMAIN types' = DOMAIN types
               /\ types'.type_data = types.type_data
               /\ types'.type = types.type
               /\ types'.field_off = types.field_off
               /\ types'.base_off = types.base_off
               /\ types'.field_names = types.field_names \o IndexList(strs', ent.field_names)
               /\ types'.base_types = types.base_types \o IndexList(strs', ent.base_types)
<1> DEFINE ent == TypeData[types.type_data[at]]
<1>1. /\ InLoop("members", Len(types.type_data))
      /\ UNCHANGED <<frames, pc_ids, objects>>
      /\ strs' = InsertAllCstr(strs, ent.field_names \o ent.base_types)
      /\ types' = [types EXCEPT
                  !.field_names = types.field_names \o IndexList(strs', ent.field_names),
                  !.base_types = types.base_types \o IndexList(strs', ent.base_types)]
  BY DEF MemberRow, IndexList
<1> HIDE DEF ent
<1>2. /\ DOMAIN types' = DOMAIN types
      /\ types'.type_data = types.type_data
      /\ types'.type = types.type
      /\ types'.field_off = types.field_off
      /\ types'.base_off = types.base_off
      /\ types'.field_names = types.field_names \o IndexList(strs', ent.field_names)
      /\ types'.base_types = types.base_types \o IndexList(strs', ent.base_types)
  BY <1>1 DEF TablesShape
<1>3. /\ phase = "members" /\ phase' = phase
      /\ at =< Len(types.type_data) /\ at' = at + 1
      /\ UNCHANGED <<out, alloc_sizes>>
  BY <1>1 DEF InLoop
<1>4. SameEvents /\ frames' = frames
  BY <1>1, <1>3 DEF SameEvents
<1> QED  BY <1>1, <1>2, <1>3, <1>4 DEF ent

(* The next event in the order of the ids is the next in the log.          *)
LEMMA OrderedPosition ==
    ASSUME SourceInv, phase # "run", at =< Len(source)
    PROVE  /\ at \in 1..Len(log)
           /\ source[event_ordering[at]] = at
<1> DEFINE n == Len(log)
<1>1. /\ n \in Nat /\ at \in 1..n
      /\ IsSeq(source) /\ Len(source) = n /\ DOMAIN source = 1..n
      /\ \A i \in 1..n : source[i] \in 1..n
      /\ \A i, j \in 1..n : source[i] = source[j] => i = j
  <2>1. IsOrderOf(source, n) /\ at \in Nat \ {0} /\ n \in Nat
    BY DEF SourceInv, LogInv, LogTypeOK
  <2> QED  BY <2>1, SeqFacts DEF IsOrderOf
<1> HIDE DEF n
<1>2. IsFiniteSet(1..n) /\ Cardinality(1..n) = n
  BY <1>1, UptoFinite
<1>3. DistinctKeys(1..n, source)
  BY <1>1 DEF DistinctKeys
<1>4. ListsInOrder(SortedBy(1..n, source), 1..n, source)
  BY <1>2, <1>3, SortedByFacts
<1>5. PICK o : o = event_ordering
  OBVIOUS
<1>6. /\ o \in [1..n -> 1..n]
      /\ \A i, j \in 1..n : i < j => source[o[i]] < source[o[j]]
  BY <1>1, <1>2, <1>4, <1>5 DEF ListsInOrder, event_ordering
<1>7. PICK s : s = [i \in 1..n |-> source[o[i]]]
  OBVIOUS
<1>8. /\ s \in [1..n -> 1..n]
      /\ \A i, j \in 1..n : i < j => s[i] < s[j]
  BY <1>1, <1>6, <1>7
<1>9. \A i \in 1..n : s[i] = i
  BY <1>1, <1>8, InOrderIdentity
<1> QED  BY <1>1, <1>5, <1>7, <1>9 DEF n

(* What one step of the event loop changes.                                *)
LEMMA EventRowFacts ==
    ASSUME SourceInv, EventRow
    PROVE  LET tr == info[at].trace
               ot == info[at].objects
           IN  /\ phase = "events" /\ phase' = phase
               /\ at \in 1..Len(log) /\ at' = at + 1
               /\ frames' = frames /\ types' = types /\ alloc_sizes' = alloc_sizes
               /\ out' = Append(out, log[at])
               /\ pc_ids' = Append(pc_ids, [i \in DOMAIN tr |-> Lookup(frames.pc)[tr[i]]])
               /\ strs' = InsertAllCstr(strs, [i \in DOMAIN ot |-> TypeData[ot[i]].type])
               /\ objects' = Append(objects, [i \in DOMAIN ot |->
                      [type |-> IndexCstr(strs', TypeData[ot[i]].type),
                       type_data |-> Lookup(types.type_data)[ot[i]]]])
<1> DEFINE k  == source[event_ordering[at]]
           tr == info[k].trace
           ot == info[k].objects
<1>1. EventFrame
  BY EventRowFrame
<1>2. /\ pc_ids' = Append(pc_ids, [i \in DOMAIN tr |-> Lookup(frames.pc)[tr[i]]])
      /\ strs' = InsertAllCstr(strs, [i \in DOMAIN ot |-> TypeData[ot[i]].type])
      /\ objects' = Append(objects, [i \in DOMAIN ot |->
                      [type |-> IndexCstr(strs', TypeData[ot[i]].type),
                       type_data |-> Lookup(types.type_data)[ot[i]]]])
  BY Zenon DEF EventRow
<1>3. phase = "events" /\ at =< Len(source)
  BY <1>1 DEF EventFrame
<1>4. k = at /\ at \in 1..Len(log)
  BY <1>3, OrderedPosition
<1>5. /\ out' = Append(out, log[k]) /\ at' = at + 1 /\ phase' = phase
      /\ frames' = frames /\ types' = types /\ alloc_sizes' = alloc_sizes
  BY <1>1 DEF EventFrame
<1> HIDE DEF k
<1> QED  BY Zenon, <1>2, <1>3, <1>4, <1>5

(* Steps between the rows: they leave the tables alone.                    *)
Quiet ==
    /\ UNCHANGED <<log, info, resolved, source>>
    /\ UNCHANGED <<strs, frames, types, pc_ids, objects>>
    /\ phase' # "run" => phase # "run"

(* The steps that fill alloc_sizes, move between the loops, or end the     *)
(* program add no row.                                                     *)
LEMMA QuietSteps ==
    ASSUME SizesStep \/ Loops \/ Ended \/ UNCHANGED vars
    PROVE  Quiet
<1>1. ASSUME SizesStep PROVE Quiet
  BY <1>1 DEF SizesStep, Quiet, recordVars, tables
<1>2. ASSUME Loops PROVE Quiet
  BY <1>2 DEF Loops, EndLoop, Quiet, recordVars, tables
<1>3. ASSUME UNCHANGED vars PROVE Quiet
  BY <1>3 DEF vars, Quiet, recordVars, tables
<1>4. ASSUME Ended PROVE Quiet
  BY <1>3, <1>4 DEF Ended
<1> QED  BY <1>1, <1>2, <1>3, <1>4

(* What every loop starts from: the keys of the tables, and the strings.   *)
TablesInv ==
    /\ TablesShape
    /\ ColumnsInv
    /\ TableInv(strs)

(* The tables are empty at the start.                                      *)
LEMMA TablesInvInit == ASSUME Init PROVE TablesInv
<1>1. strs = EmptyTable /\ frames = NoFrames /\ types = NoTypes /\ phase = "run"
  BY DEF Init
<1>2. TablesShape
  BY <1>1 DEF TablesShape, NoFrames, NoTypes
<1>3. TableInv(strs)
  <2>1. << >> \in Seq({})
    OBVIOUS
  <2>2. IsSeq(<< >>)
    BY <2>1 DEF IsSeq
  <2>3. TableConsistent(EmptyTable)
    BY DEF TableConsistent, EmptyTable
  <2> QED  BY <1>1, <2>2, <2>3 DEF TableInv, EmptyTable
<1> QED  BY <1>1, <1>2, <1>3 DEF TablesInv, ColumnsInv

(* No step breaks the string table or takes anything from it.              *)
LEMMA StringsStep ==
    ASSUME SourceInv, TablesInv, [Next]_vars
    PROVE  TableInv(strs') /\ Grows(strs, strs')
<1>0. TableInv(strs) /\ TablesShape /\ ColumnsInv
  BY DEF TablesInv
<1>1. ASSUME strs' = strs PROVE TableInv(strs') /\ Grows(strs, strs')
  <2>1. Len(strs.strtab) \in Nat
    BY <1>0, SeqFacts DEF TableInv
  <2> QED  BY <1>0, <1>1, <2>1 DEF Grows
<1>2. CASE Record \/ MakeOutputRecord
  <2>1. strs' = strs
    BY <1>2 DEF Record, MakeOutputRecord, tables
  <2> QED  BY <1>1, <2>1
<1>3. CASE SizesStep \/ Loops \/ Ended \/ UNCHANGED vars
  BY <1>1, <1>3, QuietSteps DEF Quiet
<1>4. CASE ObjectRow
  <2>1. CASE \E p, q : strs' = InsertAllCstr(strs, <<p, q>>)
    <3>1. PICK keys : strs' = InsertAllCstr(strs, keys) /\ Len(keys) \in Nat
      <4>1. PICK p, q : strs' = InsertAllCstr(strs, <<p, q>>)
        BY <2>1
      <4>2. Len(<<p, q>>) \in Nat
        OBVIOUS
      <4> QED  BY <4>1, <4>2
    <3> QED  BY <1>0, <3>1, InsertAllCstrInv
  <2>2. CASE \E key : strs' = InsertCstr(Insert(strs, key), EmptyLiteral)
    <3>1. PICK key : strs' = InsertCstr(Insert(strs, key), EmptyLiteral)
      BY <2>2
    <3>2. PICK st : st = Insert(strs, key)
      OBVIOUS
    <3>3. TableInv(st) /\ Grows(strs, st)
      BY <1>0, <3>2, InsertInv
    <3>4. TableInv(strs') /\ Grows(st, strs')
      BY <3>1, <3>2, <3>3, InsertCstrInv
    <3> QED  BY <1>0, <3>3, <3>4, GrowsTransitive
  <2> QED  BY <1>0, <1>4, <2>1, <2>2, ObjectRowFacts
<1>5. CASE FrameRow
  <2>1. PICK p, q : strs' = InsertAll(strs, <<p, q>>)
    BY <1>0, <1>5, FrameRowFacts
  <2>2. PICK keys : strs' = InsertAll(strs, keys) /\ Len(keys) \in Nat
    <3>1. Len(<<p, q>>) \in Nat
      OBVIOUS
    <3> QED  BY <2>1, <3>1
  <2> QED  BY <1>0, <2>2, InsertAllInv
<1>6. CASE TypeRow
  <2>1. PICK p : strs' = InsertCstr(strs, p)
    BY <1>0, <1>6, TypeRowFacts
  <2> QED  BY <1>0, <2>1, InsertCstrInv
<1>7. CASE MemberRow
  <2> DEFINE ent == TypeData[types.type_data[at]]
             ps == ent.field_names \o ent.base_types
  <2>1. strs' = InsertAllCstr(strs, ps) /\ phase = "members" /\ at =< Len(types.type_data)
    BY <1>0, <1>7, MemberRowFacts
  <2>2. at \in 1..Len(types.type_data) /\ types.type_data[at] \in DOMAIN TypeData
    <3>1. IsColumn(types.type_data, ObjectAddrs) /\ at \in Nat \ {0}
      BY <1>0, <2>1 DEF ColumnsInv, SourceInv
    <3>2. ObjectAddrs \subseteq DOMAIN TypeData
      BY InfoFacts
    <3>3. Len(types.type_data) \in Nat
      BY <3>1, SeqFacts DEF IsColumn
    <3> QED  BY <2>1, <3>1, <3>2, <3>3 DEF IsColumn
  <2>3. Len(ps) \in Nat
    <3>1. PICK a, b \in Seq(DOMAIN Text \cup {NullStr}) :
              a = ent.field_names /\ b = ent.base_types
      BY <2>2, OutputRecordAssumption
    <3>2. Len(a \o b) \in Nat
      OBVIOUS
    <3> QED  BY <3>1, <3>2
  <2> HIDE DEF ps
  <2> QED  BY <1>0, <2>1, <2>3, InsertAllCstrInv
<1>8. CASE EventRow
  <2> DEFINE ot == info[at].objects
             ps == [i \in DOMAIN ot |-> TypeData[ot[i]].type]
  <2>1. strs' = InsertAllCstr(strs, ps) /\ at \in 1..Len(log)
    BY <1>8, EventRowFacts
  <2>2. ot \in Seq(DOMAIN TypeData)
    BY <2>1, InfoFacts
  <2>3. Len(ps) \in Nat
    <3>1. Len(ot) \in Nat /\ DOMAIN ot = 1..Len(ot)
      BY <2>2
    <3>2. ps = [i \in 1..Len(ot) |-> ps[i]]
      BY <3>1
    <3> HIDE DEF ps, ot
    <3> QED  BY <3>1, <3>2, SeqOfFunction
  <2> HIDE DEF ps
  <2> QED  BY <1>0, <2>1, <2>3, InsertAllCstrInv
<1> QED  BY <1>2, <1>3, <1>4, <1>5, <1>6, <1>7, <1>8 DEF Next

(* Every step keeps the string table sound, the columns complete and the   *)
(* shapes of the tables.                                                   *)
LEMMA TablesInvStep == ASSUME SourceInv, TablesInv, [Next]_vars PROVE TablesInv'
<1>0. TableInv(strs)' /\ TablesShape /\ ColumnsInv
  BY StringsStep DEF TablesInv
<1>1. ASSUME log' = log, info' = info, phase' # "run" => phase # "run",
             DOMAIN frames' = DOMAIN frames, frames'.pc = frames.pc,
             DOMAIN types' = DOMAIN types, types'.type_data = types.type_data
      PROVE  TablesInv'
  BY <1>0, <1>1 DEF TablesInv, TablesShape, ColumnsInv, TracePcs, ObjectAddrs
<1>2. CASE Record
  <2>1. frames' = frames /\ types' = types /\ phase' = "run"
    BY <1>2 DEF Record, tables
  <2> QED  BY <1>0, <2>1 DEF TablesInv, TablesShape, ColumnsInv
<1>3. CASE MakeOutputRecord
  <2>1. PICK c \in Orders : source' = Drained(c)
    BY <1>3 DEF MakeOutputRecord
  <2>2. /\ frames' = [frames EXCEPT !.pc = collect_pcs(source')]
        /\ types' = [types EXCEPT !.type_data = collect_type_data(source')]
        /\ log' = log /\ info' = info
    BY <1>3 DEF MakeOutputRecord, recordVars
  <2>3. IsOrderOf(source', Len(log))
    BY <2>1, DrainedFacts DEF SourceInv, LogInv
  <2>4. /\ IsColumn(collect_pcs(source'), TracePcs)
        /\ IsColumn(collect_type_data(source'), ObjectAddrs)
    BY <2>3, CollectFacts
  <2>5. TracePcs' = TracePcs /\ ObjectAddrs' = ObjectAddrs
    BY <2>2 DEF TracePcs, ObjectAddrs
  <2>6. /\ TablesShape'
        /\ frames'.pc = collect_pcs(source')
        /\ types'.type_data = collect_type_data(source')
    BY <1>0, <2>2 DEF TablesShape
  <2>7. IsColumn(frames.pc, TracePcs)' /\ IsColumn(types.type_data, ObjectAddrs)'
    BY <2>4, <2>5, <2>6
  <2> QED  BY <1>0, <2>6, <2>7 DEF TablesInv, ColumnsInv
<1>4. CASE SizesStep \/ Loops \/ Ended \/ UNCHANGED vars
  BY <1>1, <1>4, QuietSteps DEF Quiet
<1>5. CASE ObjectRow \/ FrameRow \/ TypeRow \/ MemberRow \/ EventRow
  <2>1. log' = log /\ info' = info /\ phase # "run"
    BY <1>5, LaterSteps DEF Later, recordVars
  <2>2. /\ DOMAIN frames' = DOMAIN frames /\ frames'.pc = frames.pc
        /\ DOMAIN types' = DOMAIN types /\ types'.type_data = types.type_data
    <3>1. CASE ObjectRow
      BY <1>0, <3>1, ObjectRowFacts DEF SameFrames
    <3>2. CASE FrameRow
      BY <1>0, <3>2, FrameRowFacts
    <3>3. CASE TypeRow
      BY <1>0, <3>3, TypeRowFacts
    <3>4. CASE MemberRow
      BY <1>0, <3>4, MemberRowFacts
    <3>5. CASE EventRow
      BY <3>5, EventRowFacts
    <3> QED  BY <1>5, <3>1, <3>2, <3>3, <3>4, <3>5
  <2> QED  BY <1>1, <2>1, <2>2
<1> QED  BY <1>2, <1>3, <1>4, <1>5 DEF Next

(* The string table never lists a string twice, and neither of its caches  *)
(* ever leads to another string, whatever is inserted and in which order.  *)
THEOREM RecordStrings == Spec => []StringsConsistent
<1>1. Init => SourceInv /\ TablesInv
  BY SourceInvInit, TablesInvInit
<1>2. SourceInv /\ TablesInv /\ [Next]_vars => (SourceInv /\ TablesInv)'
  BY SourceInvStep, TablesInvStep
<1>3. TablesInv => StringsConsistent
  BY DEF TablesInv, TableInv, StringsConsistent
<1> QED  BY <1>1, <1>2, <1>3, PTL DEF Spec

-----------------------------------------------------------------------------
(* compute_free_sizes gives every FREE the size of the last allocation     *)
(* listed before it at its address, for reports of any length.             *)
SizesTypeOK ==
    /\ out \in Seq(Event)
    /\ at \in Nat \ {0}
    /\ at =< Len(out) + 1
    /\ alloc_sizes \in [Ptr -> Nat]

SizesInv == SizesTypeOK /\ FreesSized

-----------------------------------------------------------------------------
(* The size saved for an address depends on the allocations only.          *)
LEMMA SavedAtAgrees ==
    ASSUME NEW l, NEW m, NEW j \in Nat, NEW a,
           \A i \in 1..(j - 1) :
               /\ m[i].ptr = l[i].ptr
               /\ m[i].type = l[i].type
               /\ l[i].type # "FREE" => m[i].size = l[i].size
    PROVE  SavedAt(m, j, a) = SavedAt(l, j, a)
<1> DEFINE S == SizeSetters(l, j, a)
           last == CHOOSE i \in S : IsLast(i, S)
<1>1. SizeSetters(m, j, a) = S
  BY DEF SizeSetters
<1>2. CASE \E i \in S : IsLast(i, S)
  <2>1. last \in S
    BY <1>2
  <2>2. m[last].size = l[last].size
    <3> HIDE DEF last
    <3> QED  BY <2>1 DEF SizeSetters
  <2> QED  BY <1>1, <1>2, <2>2 DEF SavedAt
<1>3. CASE ~\E i \in S : IsLast(i, S)
  BY <1>1, <1>3 DEF SavedAt
<1> QED  BY <1>2, <1>3

(* Visiting one more event: only an allocation, and only at its own        *)
(* address, changes what is saved.                                         *)
LEMMA SavedAtNext ==
    ASSUME NEW l, NEW j \in Nat \ {0}, NEW a
    PROVE  SavedAt(l, j + 1, a) =
               IF l[j].type # "FREE" /\ l[j].ptr = a
               THEN l[j].size ELSE SavedAt(l, j, a)
<1> DEFINE S == SizeSetters(l, j, a)
           T == SizeSetters(l, j + 1, a)
<1>0. 1..((j + 1) - 1) = 1..(j - 1) \cup {j}
  OBVIOUS
<1>1. CASE l[j].type # "FREE" /\ l[j].ptr = a
  <2>1. j \in T /\ \A k \in T : k \in 1..j
    BY <1>0, <1>1 DEF SizeSetters
  <2>2. IsLast(j, T) /\ \A i \in T : IsLast(i, T) => i = j
    BY <2>1 DEF IsLast
  <2>3. (CHOOSE i \in T : IsLast(i, T)) = j
    <3> HIDE DEF T
    <3> QED  BY <2>1, <2>2
  <2> QED  BY <1>1, <2>1, <2>2, <2>3 DEF SavedAt
<1>2. CASE ~(l[j].type # "FREE" /\ l[j].ptr = a)
  <2>1. T = S
    BY <1>0, <1>2 DEF SizeSetters
  <2> QED  BY <1>2, <2>1 DEF SavedAt
<1> QED  BY <1>1, <1>2

(* fill_sizes starts with no size computed and no pointer live.            *)
LEMMA SizesInitInv == ASSUME SizesInit PROVE SizesInv
<1>1. \A a : SizeSetters(out, 1, a) = {}
  BY DEF SizeSetters
<1>2. \A a : SavedAt(out, 1, a) = 0
  BY <1>1 DEF SavedAt, IsLast
<1>3. at = 1 /\ alloc_sizes = [a \in Ptr |-> 0] /\ out \in Seq(Event)
  BY DEF SizesInit, NoSizes
<1>4. SizesTypeOK
  BY <1>3 DEF SizesTypeOK
<1>5. FreesSized
  BY <1>2, <1>3 DEF FreesSized
<1> QED  BY <1>4, <1>5 DEF SizesInv

(* One event of compute_free_sizes.h keeps the sizes of the frees right.   *)
LEMMA SizeRowInv == ASSUME SizesInv, SizeRow PROVE SizesInv'
<1> DEFINE e == out[at]
<1>0. /\ out \in Seq(Event) /\ at \in Nat \ {0} /\ at \in 1..Len(out)
      /\ at' = at + 1 /\ Len(out) \in Nat
      /\ e \in Event /\ e.ptr \in Ptr /\ e.size \in Nat
      /\ alloc_sizes \in [Ptr -> Nat]
  <2>1. /\ out \in Seq(Event) /\ at \in Nat \ {0} /\ at \in 1..Len(out)
        /\ at' = at + 1 /\ Len(out) \in Nat
        /\ alloc_sizes \in [Ptr -> Nat]
    BY DEF SizesInv, SizesTypeOK, SizeRow
  <2>2. e \in Event
    BY <2>1
  <2> QED  BY <2>1, <2>2 DEF Event
<1>1. \A a \in Ptr : alloc_sizes[a] = SavedAt(out, at, a)
  BY DEF SizesInv, FreesSized
<1>2. \A j \in 1..(at - 1) : out[j].type = "FREE" => out[j].size = SavedSize(out, j)
  BY DEF SizesInv, FreesSized
<1>3. CASE e.type # "FREE"
  <2>1. /\ alloc_sizes' = [alloc_sizes EXCEPT ![e.ptr] = e.size]
        /\ out' = out
    BY <1>3 DEF SizeRow
  <2>2. \A a \in Ptr : alloc_sizes'[a] = SavedAt(out', at', a)
    BY <1>0, <1>1, <1>3, <2>1, SavedAtNext
  <2>3. \A j \in 1..(at' - 1) :
            out'[j].type = "FREE" => out'[j].size = SavedSize(out', j)
    BY <1>0, <1>2, <1>3, <2>1
  <2>4. SizesTypeOK'
    BY <1>0, <2>1 DEF SizesTypeOK
  <2> QED  BY <2>2, <2>3, <2>4 DEF SizesInv, FreesSized
<1>4. CASE e.type = "FREE"
  <2>1. /\ out' = [out EXCEPT ![at].size = alloc_sizes[e.ptr]]
        /\ alloc_sizes' = alloc_sizes
    BY <1>4 DEF SizeRow
  <2>2. /\ out' \in Seq(Event) /\ Len(out') = Len(out)
        /\ \A i \in 1..Len(out) : i # at => out'[i] = out[i]
        /\ out'[at] = [e EXCEPT !.size = alloc_sizes[e.ptr]]
    <3>1. [e EXCEPT !.size = alloc_sizes[e.ptr]] \in Event
      BY <1>0 DEF Event
    <3> QED  BY <1>0, <2>1, <3>1
  <2>3. out'[at].ptr = e.ptr /\ out'[at].type = "FREE" /\ out'[at].size = alloc_sizes[e.ptr]
    BY <1>0, <1>4, <2>2 DEF Event
  <2>4. \A i \in 1..Len(out) :
            /\ out'[i].ptr = out[i].ptr
            /\ out'[i].type = out[i].type
            /\ out[i].type # "FREE" => out'[i].size = out[i].size
    BY <1>0, <1>4, <2>2, <2>3
  <2>5. \A j \in 1..at : \A a : SavedAt(out', j, a) = SavedAt(out, j, a)
    <3> SUFFICES ASSUME NEW j \in 1..at, NEW a
                 PROVE  SavedAt(out', j, a) = SavedAt(out, j, a)
      OBVIOUS
    <3>1. \A i \in 1..(j - 1) :
              /\ out'[i].ptr = out[i].ptr
              /\ out'[i].type = out[i].type
              /\ out[i].type # "FREE" => out'[i].size = out[i].size
      BY <1>0, <2>4
    <3>2. j \in Nat
      BY <1>0
    <3> QED  BY <3>1, <3>2, SavedAtAgrees
  <2>6. \A a \in Ptr : alloc_sizes'[a] = SavedAt(out', at', a)
    <3>1. \A a : SavedAt(out', at + 1, a) = SavedAt(out', at, a)
      BY <1>0, <2>3, SavedAtNext
    <3>2. \A a : SavedAt(out', at, a) = SavedAt(out, at, a)
      BY <1>0, <2>5
    <3> QED  BY <1>0, <1>1, <2>1, <3>1, <3>2
  <2>7. \A j \in 1..(at' - 1) :
            out'[j].type = "FREE" => out'[j].size = SavedSize(out', j)
    <3> SUFFICES ASSUME NEW j \in 1..at, out'[j].type = "FREE"
                 PROVE  out'[j].size = SavedAt(out', j, out'[j].ptr)
      BY <1>0 DEF SavedSize
    <3>1. SavedAt(out', j, out'[j].ptr) = SavedAt(out, j, out[j].ptr)
      BY <1>0, <2>4, <2>5
    <3>2. CASE j = at
      BY <3>1, <3>2, <1>0, <1>1, <2>3
    <3>3. CASE j # at
      BY <3>1, <3>3, <1>0, <1>2, <2>2, <2>4 DEF SavedSize
    <3> QED  BY <3>2, <3>3
  <2>8. SizesTypeOK'
    BY <1>0, <2>1, <2>2 DEF SizesTypeOK
  <2> QED  BY <2>6, <2>7, <2>8 DEF SizesInv, FreesSized
<1> QED  BY <1>3, <1>4

(* The other steps leave the sizes alone.                                  *)
LEMMA SizesStutter == ASSUME SizesInv, UNCHANGED sizeVars PROVE SizesInv'
BY DEF SizesInv, SizesTypeOK, FreesSized, sizeVars

-----------------------------------------------------------------------------
(* After any number of rows, and so at the end of the loop, every FREE     *)
(* visited has the size of the last allocation listed before it at its     *)
(* address.                                                                *)
THEOREM FreesSizedAlways == SizesSpec => []FreesSized
<1>1. SizesInit => SizesInv
  BY SizesInitInv
<1>2. SizesInv /\ [SizeRow]_sizeVars => SizesInv'
  BY SizeRowInv, SizesStutter
<1>3. SizesInv => FreesSized
  BY DEF SizesInv
<1> QED  BY <1>1, <1>2, <1>3, PTL DEF SizesSpec

-----------------------------------------------------------------------------
(* The output events: those of the log so far, then with the sizes of the  *)
(* frees filled in.                                                        *)
AsLogged(k) ==
    /\ [out[k] EXCEPT !.size = log[k].size] = log[k]
    /\ log[k].type # "FREE" => out[k] = log[k]

EventsInv ==
    /\ phase \notin {"events", "sizes", "done"} => out = << >> /\ alloc_sizes = NoSizes
    /\ phase = "events" =>
           /\ at =< Len(log) + 1
           /\ out \in Seq(Event) /\ alloc_sizes = NoSizes
           /\ Len(out) = at - 1
           /\ \A k \in 1..Len(out) : out[k] = log[k]
    /\ phase \in {"sizes", "done"} =>
           /\ SizesInv
           /\ Len(out) = Len(log)
           /\ \A k \in 1..Len(log) : AsLogged(k)
    /\ phase = "done" => at > Len(out)

(* No event is written at the start.                                       *)
LEMMA EventsInvInit == ASSUME Init PROVE EventsInv
BY DEF Init, EventsInv

(* compute_free_sizes starts in a state of its own specification.          *)
LEMMA SizesStart == SizesInit' => SizesInv'
<1>1. SizesInit => SizesInv
  BY SizesInitInv
<1> QED  BY <1>1, PTL

(* Every step keeps the written events those of the log, in order.         *)
LEMMA EventsInvStep == ASSUME SourceInv, EventsInv, [Next]_vars PROVE EventsInv'
<1>0. /\ log \in Seq(Event) /\ Len(log) \in Nat /\ at \in Nat \ {0}
      /\ phase # "run" => Len(source) = Len(log)
  BY DEF SourceInv, LogInv, LogTypeOK, IsOrderOf
<1>1. ASSUME log' = log, UNCHANGED <<phase, out, at, alloc_sizes>> PROVE EventsInv'
  <2>1. SizesInv => SizesInv'
    BY <1>1, SizesStutter DEF sizeVars
  <2> QED  BY <1>1, <2>1 DEF EventsInv, AsLogged
<1>2. ASSUME phase \notin {"events", "sizes", "done"},
             phase' \notin {"events", "sizes", "done"},
             out' = out, alloc_sizes' = alloc_sizes
      PROVE  EventsInv'
  BY <1>2 DEF EventsInv
<1>3. CASE Record
  <2>1. phase = "run" /\ phase' = "run" /\ out' = out /\ alloc_sizes' = alloc_sizes
    BY <1>3 DEF Record, sizeVars
  <2> QED  BY <1>2, <2>1
<1>4. CASE MakeOutputRecord
  <2>1. /\ phase = "run" /\ phase' \in {"objects", "failed"}
        /\ out' = out /\ alloc_sizes' = alloc_sizes
    BY <1>4 DEF MakeOutputRecord, sizeVars
  <2> QED  BY <1>2, <2>1
<1>5. CASE ObjectRow \/ FrameRow \/ TypeRow \/ MemberRow
  <2>1. /\ phase \in {"objects", "frames", "types", "members"} /\ phase' = phase
        /\ out' = out /\ alloc_sizes' = alloc_sizes
    BY <1>5 DEF ObjectRow, FrameRow, TypeRow, MemberRow, InLoop
  <2> QED  BY <1>2, <2>1
<1>6. CASE EventRow
  <2>1. /\ phase = "events" /\ phase' = phase /\ at \in 1..Len(log) /\ at' = at + 1
        /\ out' = Append(out, log[at]) /\ alloc_sizes' = alloc_sizes
    BY <1>6, EventRowFacts
  <2>2. log' = log
    BY <1>6, LaterSteps DEF Later, recordVars
  <2>3. /\ out \in Seq(Event) /\ Len(out) = at - 1 /\ alloc_sizes = NoSizes
        /\ \A k \in 1..Len(out) : out[k] = log[k]
    BY <2>1 DEF EventsInv
  <2>4. log[at] \in Event
    BY <1>0, <2>1
  <2>5. /\ out' \in Seq(Event) /\ Len(out') = at
        /\ \A k \in 1..at : out'[k] = log[k]
    BY <1>0, <2>1, <2>3, <2>4
  <2> QED  BY <1>0, <2>1, <2>2, <2>3, <2>5 DEF EventsInv
<1>7. CASE SizesStep
  <2>1. phase = "sizes" /\ phase' = phase /\ log' = log /\ SizeRow
    BY <1>7 DEF SizesStep, recordVars
  <2>2. SizesInv /\ Len(out) = Len(log) /\ \A k \in 1..Len(log) : AsLogged(k)
    BY <2>1 DEF EventsInv
  <2>3. SizesInv'
    BY <2>1, <2>2, SizeRowInv
  <2>4. out \in Seq(Event) /\ at \in 1..Len(out)
    BY <2>1, <2>2 DEF SizesInv, SizesTypeOK, SizeRow
  <2>5. Len(out') = Len(out) /\ \A k \in 1..Len(log) : AsLogged(k)'
    <3>1. CASE out[at].type # "FREE"
      <4>1. out' = out
        BY <2>1, <3>1 DEF SizeRow
      <4> QED  BY <2>1, <2>2, <4>1 DEF AsLogged
    <3>2. CASE out[at].type = "FREE"
      <4>1. PICK n : out' = [out EXCEPT ![at].size = n]
        BY <2>1, <3>2 DEF SizeRow
      <4>2. /\ Len(out') = Len(out)
            /\ \A k \in 1..Len(out) : k # at => out'[k] = out[k]
            /\ out'[at] = [out[at] EXCEPT !.size = n]
        BY <2>4, <4>1
      <4>3. out[at] \in Event /\ log[at] \in Event
        BY <1>0, <2>2, <2>4
      <4>4. [[out[at] EXCEPT !.size = n] EXCEPT !.size = log[at].size]
                = [out[at] EXCEPT !.size = log[at].size]
        BY <4>3 DEF Event
      <4>5. [out[at] EXCEPT !.size = log[at].size].type = out[at].type
        BY <4>3 DEF Event
      <4>6. log[at].type = "FREE" /\ [out[at] EXCEPT !.size = log[at].size] = log[at]
        BY <2>2, <2>4, <3>2, <4>5 DEF AsLogged
      <4>7. ASSUME NEW k \in 1..Len(log), k = at PROVE AsLogged(k)'
        <5>1. out'[k] = [out[k] EXCEPT !.size = n] /\ log'[k] = log[k]
          BY <2>1, <4>2, <4>7
        <5>2. [out'[k] EXCEPT !.size = log'[k].size] = log'[k]
          BY <4>4, <4>6, <4>7, <5>1
        <5> QED  BY <4>6, <4>7, <5>1, <5>2 DEF AsLogged
      <4>8. ASSUME NEW k \in 1..Len(log), k # at PROVE AsLogged(k)'
        BY <2>1, <2>2, <4>2, <4>8 DEF AsLogged
      <4> QED  BY <4>2, <4>7, <4>8
    <3> QED  BY <3>1, <3>2
  <2> QED  BY <2>1, <2>2, <2>3, <2>5 DEF EventsInv
<1>8. CASE Loops
  <2>0. log' = log /\ out' = out /\ alloc_sizes' = alloc_sizes
    BY <1>8 DEF Loops, EndLoop, recordVars, sizeVars
  <2>1. CASE EndLoop("objects", Len(frames.pc), "frames")
             \/ EndLoop("frames", Len(StackFrames(frames.pc)), "types")
             \/ EndLoop("types", Len(types.type_data), "members")
    BY <1>2, <2>0, <2>1 DEF EndLoop
  <2>2. CASE EndLoop("members", Len(types.type_data), "events")
    <3>1. phase = "members" /\ phase' = "events" /\ at' = 1
      BY <2>2 DEF EndLoop
    <3>2. out' = << >> /\ alloc_sizes' = NoSizes
      BY <2>0, <3>1 DEF EventsInv
    <3>3. out' \in Seq(Event) /\ Len(out') = 0
      BY <3>2
    <3> QED  BY <1>0, <2>0, <3>1, <3>2, <3>3 DEF EventsInv
  <2>3. CASE EndLoop("events", Len(source), "sizes")
    <3>1. phase = "events" /\ phase' = "sizes" /\ at' = 1 /\ at > Len(source)
      BY <2>3 DEF EndLoop
    <3>2. /\ at = Len(log) + 1 /\ Len(out) = Len(log)
          /\ out \in Seq(Event) /\ alloc_sizes = NoSizes
          /\ \A k \in 1..Len(log) : out[k] = log[k]
      BY <1>0, <3>1 DEF EventsInv
    <3>3. SizesInv'
      <4>1. SizesInit'
        BY <2>0, <3>1, <3>2 DEF SizesInit, NoSizes
      <4> QED  BY <4>1, SizesStart
    <3>4. ASSUME NEW k \in 1..Len(log) PROVE AsLogged(k)'
      <4>1. log[k] \in Event
        BY <1>0
      <4>2. [log[k] EXCEPT !.size = log[k].size] = log[k]
        BY <4>1 DEF Event
      <4> QED  BY <2>0, <3>2, <4>2 DEF AsLogged
    <3> QED  BY <2>0, <3>1, <3>2, <3>3, <3>4 DEF EventsInv
  <2>4. CASE phase = "sizes" /\ at > Len(out) /\ phase' = "done" /\ at' = at
    <3>1. SizesInv /\ Len(out) = Len(log) /\ \A k \in 1..Len(log) : AsLogged(k)
      BY <2>4 DEF EventsInv
    <3>2. SizesInv'
      BY <2>0, <2>4, <3>1, SizesStutter DEF sizeVars
    <3> QED  BY <2>0, <2>4, <3>1, <3>2 DEF EventsInv, AsLogged
  <2> QED  BY <1>8, <2>1, <2>2, <2>3, <2>4 DEF Loops, sizeVars
<1>9. CASE Ended \/ UNCHANGED vars
  <2>1. log' = log /\ UNCHANGED <<phase, out, at, alloc_sizes>>
    BY <1>9 DEF Ended, vars, recordVars, sizeVars
  <2> QED  BY <1>1, <2>1
<1> QED  BY <1>3, <1>4, <1>5, <1>6, <1>7, <1>8, <1>9 DEF Next

(* The report lists what was logged, in the order of the ids.              *)
LEMMA EventsInOrder == ASSUME EventsInv PROVE Chronological
BY DEF EventsInv, Chronological, Done, AsLogged

(* An address saves the same size in the report as in the log, so a FREE   *)
(* gets that of the block it released.                                     *)
LEMMA FreesInReport == ASSUME SourceInv, EventsInv PROVE ReportSizes
<1> SUFFICES ASSUME phase = "done",
                    NEW k \in 1..Len(out), out[k].type = "FREE", out[k].born # NoStamp
             PROVE  out[k].size = out[k].held
  BY DEF ReportSizes, Done
<1>1. /\ SizesInv /\ Len(out) = Len(log) /\ at > Len(out)
      /\ \A j \in 1..Len(log) : AsLogged(j)
  BY DEF EventsInv
<1>2. /\ out \in Seq(Event) /\ log \in Seq(Event) /\ Len(log) \in Nat /\ at \in Nat
  BY <1>1 DEF SizesInv, SizesTypeOK, SourceInv, LogInv, LogTypeOK
<1>3. k \in Nat /\ k \in 1..Len(log) /\ k \in 1..(at - 1)
  BY <1>1, <1>2
<1>4. ASSUME NEW j \in 1..Len(log)
      PROVE  /\ out[j].ptr = log[j].ptr /\ out[j].type = log[j].type
             /\ out[j].born = log[j].born /\ out[j].held = log[j].held
             /\ log[j].type # "FREE" => out[j].size = log[j].size
  <2>1. out[j] \in Event /\ log[j] \in Event
    BY <1>1, <1>2
  <2>2. /\ [out[j] EXCEPT !.size = log[j].size] = log[j]
        /\ log[j].type # "FREE" => out[j] = log[j]
    BY <1>1 DEF AsLogged
  <2>3. LET e == [out[j] EXCEPT !.size = log[j].size]
        IN  /\ e.ptr = out[j].ptr /\ e.type = out[j].type
            /\ e.born = out[j].born /\ e.held = out[j].held
    BY <2>1 DEF Event
  <2> QED  BY <2>2, <2>3
<1>5. out[k].size = SavedSize(out, k)
  BY <1>1, <1>3 DEF SizesInv, FreesSized
<1>6. SavedAt(out, k, log[k].ptr) = SavedAt(log, k, log[k].ptr)
  <2>1. \A i \in 1..(k - 1) : i \in 1..Len(log)
    BY <1>3
  <2>2. \A i \in 1..(k - 1) :
            /\ out[i].ptr = log[i].ptr
            /\ out[i].type = log[i].type
            /\ log[i].type # "FREE" => out[i].size = log[i].size
    BY <1>4, <2>1
  <2> QED  BY <1>3, <2>2, SavedAtAgrees
<1>7. SavedSize(out, k) = SavedSize(log, k)
  BY <1>3, <1>4, <1>6 DEF SavedSize
<1>8. FreeSizes
  BY LogInvFreeSizes DEF SourceInv
<1>9. SavedSize(log, k) = log[k].held
  BY <1>3, <1>4, <1>8 DEF FreeSizes, SizesRecoverable
<1> QED  BY <1>3, <1>4, <1>5, <1>7, <1>9

(* However the contexts were drained, the report lists every event of the  *)
(* program once, in the order in which the hooks stamped them.             *)
THEOREM RecordChronological == Spec => []Chronological
<1>1. Init => SourceInv /\ EventsInv
  BY SourceInvInit, EventsInvInit
<1>2. SourceInv /\ EventsInv /\ [Next]_vars => (SourceInv /\ EventsInv)'
  BY SourceInvStep, EventsInvStep
<1>3. EventsInv => Chronological
  BY EventsInOrder
<1> QED  BY <1>1, <1>2, <1>3, PTL DEF Spec

(* In the report every FREE has the size of the block it released.         *)
THEOREM RecordSizes == Spec => []ReportSizes
<1>1. Init => SourceInv /\ EventsInv
  BY SourceInvInit, EventsInvInit
<1>2. SourceInv /\ EventsInv /\ [Next]_vars => (SourceInv /\ EventsInv)'
  BY SourceInvStep, EventsInvStep
<1>3. SourceInv /\ EventsInv => ReportSizes
  BY FreesInReport
<1> QED  BY <1>1, <1>2, <1>3, PTL DEF Spec

-----------------------------------------------------------------------------
(* The frames of each program counter, and where they end when they are    *)
(* all joined.                                                             *)
FrameLists == [i \in 1..Len(frames.pc) |-> resolved[frames.pc[i]].frames]

(* The lists of frames of the program counters are finite sequences, and   *)
(* the frame loop runs over their concatenation.                           *)
LEMMA FrameListsFacts ==
    ASSUME SourceInv, TablesInv, phase # "run"
    PROVE  /\ IsSeq(FrameLists) /\ Len(FrameLists) = Len(frames.pc)
           /\ Len(frames.pc) \in Nat
           /\ \A i \in 1..Len(frames.pc) :
                  /\ FrameLists[i] = resolved[frames.pc[i]].frames
                  /\ \E tr \in Traces : frames.pc[i] \in Range(tr)
                  /\ IsSeq(FrameLists[i])
           /\ StackFrames(frames.pc) = FlattenSeq(FrameLists)
           /\ IsSeq(StackFrames(frames.pc))
           /\ \E E : IsJoined(StackFrames(frames.pc), FrameLists, E)
<1> DEFINE n == Len(frames.pc)
<1>1. IsColumn(frames.pc, TracePcs)
  BY DEF TablesInv, ColumnsInv
<1>2. n \in Nat /\ DOMAIN frames.pc = 1..n
  BY <1>1, SeqFacts DEF IsColumn
<1>3. PICK ls : ls = FrameLists
  OBVIOUS
<1>4. ls = [i \in 1..n |-> ls[i]] /\ \A i \in 1..n : ls[i] = resolved[frames.pc[i]].frames
  BY <1>3 DEF FrameLists
<1>5. StackFrames(frames.pc) = FlattenSeq(ls)
  BY <1>2, <1>3 DEF StackFrames, FrameLists
<1> HIDE DEF n
<1>6. IsSeq(ls) /\ Len(ls) = n
  BY <1>2, <1>4, SeqOfFunction
<1>7. ASSUME NEW i \in 1..n
      PROVE  IsSeq(ls[i]) /\ \E tr \in Traces : frames.pc[i] \in Range(tr)
  <2>1. PICK k \in 1..Len(log) : frames.pc[i] \in Range(info[k].trace)
    <3>1. frames.pc[i] \in TracePcs
      BY <1>1 DEF IsColumn, n
    <3> QED  BY <3>1 DEF TracePcs
  <2>2. info[k].trace \in Traces /\ resolved \in Resolutions
    BY InfoFacts DEF SourceInv
  <2>3. resolved[frames.pc[i]].frames \in Seq(Range(resolved[frames.pc[i]].frames))
    BY <2>1, <2>2, OutputRecordAssumption
  <2> QED  BY <1>4, <2>1, <2>2, <2>3 DEF IsSeq
<1>8. PICK E : IsJoined(FlattenSeq(ls), ls, E)
  BY <1>6, <1>7, FlattenFacts
<1>9. IsSeq(StackFrames(frames.pc))
  BY <1>5, <1>8 DEF IsJoined, IsJoinedUpto
<1> QED  BY <1>2, <1>3, <1>4, <1>5, <1>6, <1>7, <1>8, <1>9 DEF n

-----------------------------------------------------------------------------
(* The loops follow one another: before its turn none of a loop's rows are *)
(* written, in its turn those up to at, and after it all.                  *)
BeforeFrames == {"run", "failed", "objects"}
BeforeTypes == BeforeFrames \cup {"frames"}
BeforeMembers == BeforeTypes \cup {"types"}
BeforeEvents == BeforeMembers \cup {"members"}
AfterEvents == {"sizes", "done"}
AfterMembers == AfterEvents \cup {"events"}
AfterTypes == AfterMembers \cup {"members"}
AfterFrames == AfterTypes \cup {"types"}

Written(loop, before, after, n, m) ==
    \/ phase \in before /\ m = 0
    \/ phase = loop /\ at = m + 1
    \/ phase \in after /\ m = n

FramesWritten(m) == Written("frames", BeforeFrames, AfterFrames, Len(StackFrames(frames.pc)), m)
TypesWritten(m) == Written("types", BeforeTypes, AfterTypes, Len(types.type_data), m)
MembersWritten(m) == Written("members", BeforeMembers, AfterMembers, Len(types.type_data), m)
EventsWritten(m) == Written("events", BeforeEvents, AfterEvents, Len(log), m)

BoundsInv ==
    /\ phase = "frames" => at =< Len(StackFrames(frames.pc)) + 1
    /\ phase = "types" => at =< Len(types.type_data) + 1
    /\ phase = "members" => at =< Len(types.type_data) + 1
    /\ phase = "events" => at =< Len(log) + 1

(* The steps that write no row, and those of the loop over the objects and *)
(* of compute_free_sizes.                                                  *)
RowsKept ==
    /\ UNCHANGED <<pc_ids, objects>>
    /\ frames'.func = frames.func
    /\ frames'.offsets = frames.offsets
    /\ types'.type = types.type
    /\ types'.field_off = types.field_off
    /\ types'.base_off = types.base_off
    /\ types'.field_names = types.field_names
    /\ types'.base_types = types.base_types
    /\ phase # "run" => /\ UNCHANGED <<log, info, resolved>>
                        /\ frames'.pc = frames.pc
                        /\ types'.type_data = types.type_data

Moves ==
    \/ phase' = phase /\ at' = at
    \/ phase' = phase /\ phase \in {"objects", "sizes"}
    \/ phase = "run" /\ phase' \in {"objects", "failed"}
    \/ phase = "objects" /\ phase' = "frames" /\ at' = 1
    \/ phase = "frames" /\ at > Len(StackFrames(frames.pc)) /\ phase' = "types" /\ at' = 1
    \/ phase = "types" /\ at > Len(types.type_data) /\ phase' = "members" /\ at' = 1
    \/ phase = "members" /\ at > Len(types.type_data) /\ phase' = "events" /\ at' = 1
    \/ phase = "events" /\ at > Len(log) /\ phase' = "sizes" /\ at' = 1
    \/ phase = "sizes" /\ phase' = "done"

(* A step writes one row of one table, or it writes none and moves between *)
(* the loops.                                                              *)
LEMMA StepShapes ==
    ASSUME SourceInv, TablesInv, [Next]_vars
    PROVE  \/ RowsKept /\ Moves
           \/ FrameRow \/ TypeRow \/ MemberRow \/ EventRow
<1>0. TablesShape
  BY DEF TablesInv
<1>1. CASE Record
  BY <1>1 DEF Record, RowsKept, Moves, tables, sizeVars
<1>2. CASE MakeOutputRecord
  <2>1. /\ phase = "run" /\ phase' \in {"objects", "failed"}
        /\ UNCHANGED <<pc_ids, objects>>
        /\ \E a : frames' = [frames EXCEPT !.pc = a]
        /\ \E b : types' = [types EXCEPT !.type_data = b]
    BY <1>2 DEF MakeOutputRecord
  <2>2. PICK a, b : /\ frames' = [frames EXCEPT !.pc = a]
                    /\ types' = [types EXCEPT !.type_data = b]
    BY <2>1
  <2>3. RowsKept
    BY <1>0, <2>1, <2>2 DEF RowsKept, TablesShape
  <2> QED  BY <2>1, <2>3 DEF Moves
<1>3. CASE ObjectRow
  <2>1. /\ phase = "objects" /\ phase' = phase
        /\ SameFrames /\ types' = types /\ SameEvents
    BY <1>0, <1>3, ObjectRowFacts
  <2>2. UNCHANGED <<log, info, resolved>>
    BY <1>3, LaterSteps DEF Later, recordVars
  <2> QED  BY <2>1, <2>2 DEF SameFrames, SameEvents, RowsKept, Moves
<1>4. CASE SizesStep
  <2>1. phase = "sizes" /\ phase' = phase
    BY <1>4 DEF SizesStep
  <2>2. Quiet
    BY <1>4, QuietSteps
  <2> QED  BY <2>1, <2>2 DEF Quiet, RowsKept, Moves
<1>5. CASE Loops
  <2>1. RowsKept
    BY <1>5, QuietSteps DEF Quiet, RowsKept
  <2>2. Moves
    <3>1. phase # "run" => Len(source) = Len(log)
      BY DEF SourceInv, IsOrderOf
    <3>2. CASE EndLoop("events", Len(source), "sizes")
      BY <3>1, <3>2 DEF EndLoop, Moves
    <3>3. CASE phase = "sizes" /\ at > Len(out) /\ phase' = "done"
      BY <3>3 DEF Moves
    <3>4. CASE EndLoop("objects", Len(frames.pc), "frames")
      BY <3>4 DEF EndLoop, Moves
    <3>5. CASE EndLoop("frames", Len(StackFrames(frames.pc)), "types")
      BY <3>5 DEF EndLoop, Moves
    <3>6. CASE EndLoop("types", Len(types.type_data), "members")
      BY <3>6 DEF EndLoop, Moves
    <3>7. CASE EndLoop("members", Len(types.type_data), "events")
      BY <3>7 DEF EndLoop, Moves
    <3> QED  BY <1>5, <3>2, <3>3, <3>4, <3>5, <3>6, <3>7 DEF Loops
  <2> QED  BY <2>1, <2>2
<1>6. CASE Ended \/ UNCHANGED vars
  <2>1. phase' = phase /\ at' = at
    BY <1>6 DEF Ended, vars, sizeVars
  <2>2. Quiet
    BY <1>6, QuietSteps
  <2> QED  BY <2>1, <2>2 DEF Quiet, RowsKept, Moves
<1> QED  BY <1>1, <1>2, <1>3, <1>4, <1>5, <1>6 DEF Next

(* No loop has begun at the start.                                         *)
LEMMA BoundsInvInit == ASSUME Init PROVE BoundsInv
BY DEF Init, BoundsInv

(* Every step keeps the loop counter inside its loop.                      *)
LEMMA BoundsInvStep ==
    ASSUME SourceInv, TablesInv, BoundsInv, [Next]_vars
    PROVE  BoundsInv'
<1>0. TablesShape /\ at \in Nat \ {0} /\ Len(log) \in Nat
  BY DEF TablesInv, SourceInv, LogInv, LogTypeOK
<1>1. phase # "run" => Len(StackFrames(frames.pc)) \in Nat /\ Len(types.type_data) \in Nat
  BY FrameListsFacts, SeqFacts DEF TablesInv, ColumnsInv, IsColumn
<1>2. ASSUME resolved' = resolved, frames'.pc = frames.pc
      PROVE  StackFrames(frames.pc)' = StackFrames(frames.pc)
  BY <1>2 DEF StackFrames
<1>3. CASE RowsKept /\ Moves
  <2>1. CASE phase = "run"
    BY <1>3, <2>1 DEF BoundsInv, Moves
  <2>2. CASE phase # "run"
    BY <1>0, <1>1, <1>2, <1>3, <2>2 DEF BoundsInv, Moves, RowsKept
  <2> QED  BY <2>1, <2>2
<1>4. CASE FrameRow \/ TypeRow \/ MemberRow \/ EventRow
  <2>1. resolved' = resolved /\ log' = log /\ phase # "run"
    BY <1>4, LaterSteps DEF Later, recordVars
  <2>2. /\ phase' = phase /\ at' = at + 1
        /\ frames'.pc = frames.pc /\ types'.type_data = types.type_data
        /\ phase = "frames" => at =< Len(StackFrames(frames.pc))
        /\ phase = "types" => at =< Len(types.type_data)
        /\ phase = "members" => at =< Len(types.type_data)
        /\ phase = "events" => at =< Len(log)
    <3>1. CASE FrameRow
      BY <1>0, <3>1, FrameRowFacts
    <3>2. CASE TypeRow
      BY <1>0, <3>2, TypeRowFacts
    <3>3. CASE MemberRow
      BY <1>0, <3>3, MemberRowFacts
    <3>4. CASE EventRow
      BY <1>0, <3>4, EventRowFacts
    <3> QED  BY <1>4, <3>1, <3>2, <3>3, <3>4
  <2>3. StackFrames(frames.pc)' = StackFrames(frames.pc)
    BY <1>2, <2>1, <2>2
  <2> QED  BY <1>0, <1>1, <2>1, <2>2, <2>3 DEF BoundsInv
<1> QED  BY <1>3, <1>4, StepShapes

-----------------------------------------------------------------------------
(* The index i means s, in every later table too.                          *)
Means(st, i, s) == Place(st, i) /\ StringAt(st, i) = s

(* No step changes the string that an index stands for.                    *)
LEMMA MeansStays ==
    ASSUME SourceInv, TablesInv, [Next]_vars
    PROVE  \A i, s : Means(strs, i, s) => Means(strs', i, s)
<1>1. TableInv(strs) /\ TableInv(strs') /\ Grows(strs, strs')
  BY StringsStep DEF TablesInv
<1> QED  BY <1>1, GrowsFacts DEF Means

(* The index of a key stands for that key, and the index of a pointer for  *)
(* the string it points to.                                                *)
LEMMA IndexMeans ==
    ASSUME NEW st, TableInv(st)
    PROVE  /\ \A key \in DOMAIN st.lookup : Means(st, Index(st, key), key)
           /\ \A p \in DOMAIN st.cstr_lookup : Means(st, IndexCstr(st, p), SafeSv(p))
BY IndexFacts DEF Means

-----------------------------------------------------------------------------
(* off tells where the first m of the lists ls begin and end in an array.  *)
IsOffsets(off, m, ls) ==
    /\ IsSeq(off)
    /\ Len(off) = m + 1
    /\ off[1] = 0
    /\ \A i \in 1..(m + 1) : off[i] \in Nat
    /\ \A i \in 1..m : off[i + 1] = off[i] + Len(ls[i])

(* names holds the indices of the first m of the lists of C strings ls.    *)
IsMembers(st, names, off, m, ls) ==
    /\ IsSeq(names)
    /\ Len(names) = off[m + 1]
    /\ \A i \in 1..m : \A j \in 1..Len(ls[i]) :
           /\ off[i] + j \in 1..Len(names)
           /\ Means(st, names[off[i] + j], SafeSv(ls[i][j]))

(* Appending the end of the next list extends the offsets by that list.    *)
LEMMA OffsetsNext ==
    ASSUME NEW m \in Nat, NEW ls, NEW off, IsOffsets(off, m, ls), IsSeq(ls[m + 1])
    PROVE  IsOffsets(Append(off, off[m + 1] + Len(ls[m + 1])), m + 1, ls)
<1> DEFINE n == off[m + 1] + Len(ls[m + 1])
           o == Append(off, n)
<1>1. /\ IsSeq(off) /\ Len(off) = m + 1 /\ off[1] = 0
      /\ \A i \in 1..(m + 1) : off[i] \in Nat
      /\ \A i \in 1..m : off[i + 1] = off[i] + Len(ls[i])
  BY DEF IsOffsets
<1>2. n \in Nat
  BY <1>1, SeqFacts
<1>3. /\ IsSeq(o) /\ Len(o) = m + 2 /\ o[m + 2] = n
      /\ \A i \in 1..(m + 1) : o[i] = off[i]
  <2>1. /\ IsSeq(o) /\ Len(o) = Len(off) + 1 /\ o[Len(off) + 1] = n
        /\ \A i \in 1..Len(off) : o[i] = off[i]
    BY <1>1, SeqAppend
  <2> QED  BY <1>1, <2>1
<1> HIDE DEF o
<1>4. \A i \in 1..(m + 2) : o[i] \in Nat
  <2>1. \A i \in 1..(m + 2) : i \in 1..(m + 1) \/ i = m + 2
    OBVIOUS
  <2> QED  BY <1>1, <1>2, <1>3, <2>1
<1>5. \A i \in 1..(m + 1) : o[i + 1] = o[i] + Len(ls[i])
  <2> SUFFICES ASSUME NEW i \in 1..(m + 1) PROVE o[i + 1] = o[i] + Len(ls[i])
    OBVIOUS
  <2>1. CASE i = m + 1
    BY <1>3, <2>1
  <2>2. CASE i # m + 1
    <3>1. i \in 1..m /\ i + 1 \in 1..(m + 1) /\ i \in 1..(m + 1)
      BY <2>2
    <3> QED  BY <1>1, <1>3, <3>1
  <2> QED  BY <2>1, <2>2
<1>6. o[1] = 0
  BY <1>1, <1>3
<1> QED  BY <1>3, <1>4, <1>5, <1>6 DEF IsOffsets, o

(* Appending the indices of the next list's strings extends the array by   *)
(* that list.                                                              *)
LEMMA MembersNext ==
    ASSUME NEW n \in Nat, NEW m \in 0..(n - 1), NEW ls, NEW off, IsOffsets(off, n, ls),
           NEW st, NEW names, IsMembers(st, names, off, m, ls),
           IsSeq(ls[m + 1]),
           NEW s, TableInv(s), \A i, x : Means(st, i, x) => Means(s, i, x),
           \A j \in 1..Len(ls[m + 1]) : ls[m + 1][j] \in DOMAIN s.cstr_lookup
    PROVE  IsMembers(s, names \o IndexList(s, ls[m + 1]), off, m + 1, ls)
<1> DEFINE l == ls[m + 1]
           t == IndexList(s, l)
           u == names \o t
<1>1. /\ IsSeq(names) /\ Len(names) = off[m + 1]
      /\ \A i \in 1..m : \A j \in 1..Len(ls[i]) :
             /\ off[i] + j \in 1..Len(names)
             /\ Means(st, names[off[i] + j], SafeSv(ls[i][j]))
  BY DEF IsMembers
<1>2. Len(l) \in Nat /\ DOMAIN l = 1..Len(l)
  BY SeqFacts
<1>3. IsSeq(t) /\ Len(t) = Len(l) /\ \A j \in 1..Len(l) : t[j] = IndexCstr(s, l[j])
  <2>1. \A j \in 1..Len(l) : t[j] = IndexCstr(s, l[j])
    BY <1>2 DEF IndexList
  <2>2. t = [j \in 1..Len(l) |-> t[j]]
    BY <1>2 DEF IndexList
  <2> HIDE DEF t, l
  <2> QED  BY <1>2, <2>1, <2>2, SeqOfFunction
<1>4. off[m + 1] \in Nat /\ off[m + 2] = off[m + 1] + Len(l)
  BY DEF IsOffsets
<1> HIDE DEF l, t
<1>5. /\ IsSeq(u) /\ Len(u) = Len(names) + Len(l)
      /\ \A i \in 1..Len(names) : u[i] = names[i]
      /\ \A j \in 1..Len(l) : u[Len(names) + j] = t[j]
  <2>1. /\ IsSeq(u) /\ Len(u) = Len(names) + Len(t)
        /\ \A i \in 1..Len(names) : u[i] = names[i]
        /\ \A j \in 1..Len(t) : u[Len(names) + j] = t[j]
    <3>1. IsSeq(names) /\ IsSeq(t)
      BY <1>1, <1>3
    <3> QED  BY ONLY <3>1, SeqConcat DEF u
  <2> QED  BY <1>3, <2>1
<1> HIDE DEF u
<1>6. ASSUME NEW i \in 1..(m + 1), NEW j \in 1..Len(ls[i])
      PROVE  off[i] + j \in 1..Len(u) /\ Means(s, u[off[i] + j], SafeSv(ls[i][j]))
  <2>1. CASE i = m + 1
    <3>1. j \in 1..Len(l) /\ ls[i][j] = l[j] /\ off[i] = Len(names)
      BY <1>1, <2>1 DEF l
    <3>2. u[off[i] + j] = IndexCstr(s, l[j])
      BY <1>3, <1>5, <3>1
    <3>3. l[j] \in DOMAIN s.cstr_lookup
      BY <3>1 DEF l
    <3>4. Means(s, IndexCstr(s, l[j]), SafeSv(l[j]))
      BY <3>3, IndexMeans
    <3>5. off[i] + j \in 1..Len(u)
      BY <1>1, <1>2, <1>4, <1>5, <3>1
    <3> QED  BY <3>1, <3>2, <3>4, <3>5
  <2>2. CASE i # m + 1
    <3>1. i \in 1..m
      BY <2>2
    <3>2. off[i] + j \in 1..Len(names) /\ Means(st, names[off[i] + j], SafeSv(ls[i][j]))
      BY <1>1, <3>1
    <3>3. u[off[i] + j] = names[off[i] + j]
      BY <1>5, <3>2
    <3>4. off[i] + j \in 1..Len(u)
      BY <1>1, <1>2, <1>4, <1>5, <3>2
    <3> QED  BY <3>2, <3>3, <3>4
  <2> QED  BY <2>1, <2>2
<1>7. Len(u) = off[m + 2]
  BY <1>1, <1>4, <1>5
<1>8. (m + 1) + 1 = m + 2
  OBVIOUS
<1> QED  BY <1>5, <1>6, <1>7, <1>8 DEF IsMembers, u, t, l

(* The k indices after the first a lead to the strings x.                  *)
Reads(names, a, k, x) ==
    \A j \in 1..k : a + j \in 1..Len(names) /\ StringAt(strs, names[a + j]) = x[j]

(* What a reader finds in a part of an array of indices.                   *)
LEMMA PartDecodes ==
    ASSUME NEW names, IsSeq(names), NEW a \in Nat, NEW k \in Nat, NEW x,
           Reads(names, a, k, x)
    PROVE  Decode(SubSeq(names, a + 1, a + k)) = [j \in 1..k |-> x[j]]
<1>1. PICK S : names \in Seq(S)
  BY DEF IsSeq
<1>2. PICK t : t = SubSeq(names, a + 1, a + k)
  OBVIOUS
<1>3. t = [j \in 1..((a + k) - (a + 1) + 1) |-> names[(a + 1) + j - 1]]
  BY <1>1, <1>2
<1>4. (a + k) - (a + 1) + 1 = k
  OBVIOUS
<1>5. t = [j \in 1..k |-> names[(a + 1) + j - 1]]
  BY <1>3, <1>4
<1>6. \A j \in 1..k : (a + 1) + j - 1 = a + j
  OBVIOUS
<1>7. DOMAIN t = 1..k /\ \A j \in 1..k : t[j] = names[a + j]
  BY <1>5, <1>6
<1>8. Decode(t) = [j \in 1..k |-> StringAt(strs, t[j])]
  BY <1>7 DEF Decode
<1>9. Decode(t) = [j \in 1..k |-> x[j]]
  BY <1>7, <1>8 DEF Reads
<1> QED  BY <1>2, <1>9

(* A reader who decodes the i-th slice gets the i-th list.                 *)
LEMMA SliceDecodes ==
    ASSUME NEW n \in Nat, NEW ls, NEW off, IsOffsets(off, n, ls),
           NEW names, IsMembers(strs, names, off, n, ls),
           NEW i \in 1..n, IsSeq(ls[i])
    PROVE  Decode(Slice(names, off, i - 1)) = [j \in DOMAIN ls[i] |-> SafeSv(ls[i][j])]
<1> DEFINE l == ls[i]
           x == [j \in 1..Len(l) |-> SafeSv(l[j])]
<1>1. /\ off[i] \in Nat /\ off[i + 1] = off[i] + Len(l)
      /\ Len(l) \in Nat /\ DOMAIN l = 1..Len(l)
  BY SeqFacts DEF IsOffsets
<1>2. Slice(names, off, i - 1) = SubSeq(names, off[i] + 1, off[i] + Len(l))
  <2>1. (i - 1) + 1 = i /\ (i - 1) + 2 = i + 1
    OBVIOUS
  <2> QED  BY <1>1, <2>1 DEF Slice
<1>3. IsSeq(names) /\ \A j \in 1..Len(l) :
          off[i] + j \in 1..Len(names) /\ StringAt(strs, names[off[i] + j]) = x[j]
  BY DEF IsMembers, Means
<1>4. Decode(SubSeq(names, off[i] + 1, off[i] + Len(l))) = [j \in 1..Len(l) |-> x[j]]
  <2>1. PICK a \in Nat, k \in Nat : a = off[i] /\ k = Len(l)
    BY <1>1
  <2>2. PICK y : y = x
    OBVIOUS
  <2>3. a \in Nat /\ k \in Nat /\ IsSeq(names) /\ Reads(names, a, k, y)
    BY <1>3, <2>1, <2>2 DEF Reads
  <2> HIDE DEF x, l
  <2>4. Decode(SubSeq(names, a + 1, a + k)) = [j \in 1..k |-> y[j]]
    BY ONLY <2>3, PartDecodes
  <2> QED  BY <2>1, <2>2, <2>4
<1>5. [j \in 1..Len(l) |-> x[j]] = [j \in DOMAIN l |-> SafeSv(l[j])]
  BY <1>1
<1> QED  BY <1>2, <1>4, <1>5

-----------------------------------------------------------------------------
(* The table of types.                                                     *)
FieldLists == [i \in 1..Len(types.type_data) |-> TypeData[types.type_data[i]].field_names]

BaseLists == [i \in 1..Len(types.type_data) |-> TypeData[types.type_data[i]].base_types]

(* The rows of the first m types are written.                              *)
TypeRows(m) ==
    /\ IsSeq(types.type)
    /\ Len(types.type) = m
    /\ \A i \in 1..m :
           Means(strs, types.type[i], SafeSv(TypeData[types.type_data[i]].type))
    /\ IsOffsets(types.field_off, m, FieldLists)
    /\ IsOffsets(types.base_off, m, BaseLists)

(* The fields and bases of the first m types are written.                  *)
MemberRows(m) ==
    /\ IsMembers(strs, types.field_names, types.field_off, m, FieldLists)
    /\ IsMembers(strs, types.base_types, types.base_off, m, BaseLists)

TypesInv ==
    /\ \A m \in Nat : TypesWritten(m) => TypeRows(m)
    /\ \A m \in Nat : MembersWritten(m) => MemberRows(m)

(* The table of types is empty at the start.                               *)
LEMMA TypesInvInit == ASSUME Init PROVE TypesInv
<1>1. strs = EmptyTable /\ types = NoTypes /\ phase = "run" /\ at = 1
  BY DEF Init
<1>2. IsSeq(<< >>)
  <2>1. << >> \in Seq({})
    OBVIOUS
  <2> QED  BY <2>1 DEF IsSeq
<1>3. IsSeq(<<0>>)
  <2>1. <<0>> \in Seq({0})
    OBVIOUS
  <2> QED  BY <2>1 DEF IsSeq
<1>4. \A ls : IsOffsets(<<0>>, 0, ls)
  BY <1>3 DEF IsOffsets
<1>5. \A ls : IsMembers(strs, << >>, <<0>>, 0, ls)
  BY <1>2 DEF IsMembers
<1>6. TypeRows(0)
  BY <1>1, <1>2, <1>4 DEF TypeRows, NoTypes
<1>7. MemberRows(0)
  BY <1>1, <1>5 DEF MemberRows, NoTypes
<1>8. \A m \in Nat : (TypesWritten(m) => m = 0) /\ (MembersWritten(m) => m = 0)
  BY <1>1 DEF TypesWritten, MembersWritten, Written, BeforeFrames, AfterTypes,
              AfterMembers, AfterEvents
<1> QED  BY <1>6, <1>7, <1>8 DEF TypesInv

(* The member lists of the types are the sequences of the type data.       *)
LEMMA TypeListsFacts ==
    ASSUME SourceInv, TablesInv, phase # "run"
    PROVE  /\ Len(types.type_data) \in Nat
           /\ \A i \in 1..Len(types.type_data) :
                  LET ent == TypeData[types.type_data[i]]
                  IN  /\ types.type_data[i] \in DOMAIN TypeData
                      /\ FieldLists[i] = ent.field_names
                      /\ BaseLists[i] = ent.base_types
                      /\ IsSeq(ent.field_names)
                      /\ IsSeq(ent.base_types)
<1>1. IsColumn(types.type_data, ObjectAddrs)
  BY DEF TablesInv, ColumnsInv
<1>2. ObjectAddrs \subseteq DOMAIN TypeData
  BY InfoFacts
<1>3. Len(types.type_data) \in Nat
  BY <1>1, SeqFacts DEF IsColumn
<1>4. ASSUME NEW i \in 1..Len(types.type_data)
      PROVE  LET ent == TypeData[types.type_data[i]]
             IN  /\ types.type_data[i] \in DOMAIN TypeData
                 /\ FieldLists[i] = ent.field_names
                 /\ BaseLists[i] = ent.base_types
                 /\ IsSeq(ent.field_names)
                 /\ IsSeq(ent.base_types)
  <2> DEFINE ent == TypeData[types.type_data[i]]
  <2>1. types.type_data[i] \in DOMAIN TypeData
    BY <1>1, <1>2 DEF IsColumn
  <2>2. FieldLists[i] = ent.field_names /\ BaseLists[i] = ent.base_types
    BY DEF FieldLists, BaseLists
  <2>3. IsSeq(ent.field_names) /\ IsSeq(ent.base_types)
    BY <2>1, OutputRecordAssumption DEF IsSeq
  <2> QED  BY <2>1, <2>2, <2>3
<1> QED  BY <1>3, <1>4

(* What is written of the types does not change its meaning later.         *)
LEMMA TypeRowsStay ==
    ASSUME SourceInv, TablesInv, [Next]_vars,
           types'.type = types.type,
           types'.field_off = types.field_off,
           types'.base_off = types.base_off,
           NEW m \in Nat, m = 0 \/ types'.type_data = types.type_data,
           TypeRows(m)
    PROVE  TypeRows(m)'
<1>1. \A i, s : Means(strs, i, s) => Means(strs', i, s)
  BY MeansStays
<1>2. CASE types'.type_data = types.type_data
  <2>1. FieldLists' = FieldLists /\ BaseLists' = BaseLists
    BY <1>2 DEF FieldLists, BaseLists
  <2>2. IsOffsets(types'.field_off, m, FieldLists') /\ IsOffsets(types'.base_off, m, BaseLists')
    BY <2>1 DEF TypeRows
  <2> QED  BY <1>1, <1>2, <2>2 DEF TypeRows
<1>3. CASE m = 0
  <2>1. IsOffsets(types'.field_off, m, FieldLists') /\ IsOffsets(types'.base_off, m, BaseLists')
    BY <1>3 DEF TypeRows, IsOffsets
  <2> QED  BY <1>3, <2>1 DEF TypeRows
<1> QED  BY <1>2, <1>3

(* The member rows stay when a step leaves their arrays alone.             *)
LEMMA MemberRowsStay ==
    ASSUME SourceInv, TablesInv, [Next]_vars,
           types'.field_names = types.field_names,
           types'.base_types = types.base_types,
           NEW m \in Nat,
           \/ m = 0 /\ types'.field_off[1] = types.field_off[1]
                    /\ types'.base_off[1] = types.base_off[1]
           \/ /\ types'.type_data = types.type_data
              /\ types'.field_off = types.field_off
              /\ types'.base_off = types.base_off,
           MemberRows(m)
    PROVE  MemberRows(m)'
<1>1. \A i, s : Means(strs, i, s) => Means(strs', i, s)
  BY MeansStays
<1>2. CASE /\ types'.type_data = types.type_data
           /\ types'.field_off = types.field_off
           /\ types'.base_off = types.base_off
  <2>1. FieldLists' = FieldLists /\ BaseLists' = BaseLists
    BY <1>2 DEF FieldLists, BaseLists
  <2>2. IsMembers(strs', types'.field_names, types'.field_off, m, FieldLists')
    BY <1>1, <1>2, <2>1 DEF MemberRows, IsMembers
  <2>3. IsMembers(strs', types'.base_types, types'.base_off, m, BaseLists')
    BY <1>1, <1>2, <2>1 DEF MemberRows, IsMembers
  <2> QED  BY <2>2, <2>3 DEF MemberRows
<1>3. CASE m = 0 /\ types'.field_off[1] = types.field_off[1]
                 /\ types'.base_off[1] = types.base_off[1]
  <2>1. IsMembers(strs', types'.field_names, types'.field_off, m, FieldLists')
    BY <1>3 DEF MemberRows, IsMembers
  <2>2. IsMembers(strs', types'.base_types, types'.base_off, m, BaseLists')
    BY <1>3 DEF MemberRows, IsMembers
  <2> QED  BY <2>1, <2>2 DEF MemberRows
<1> QED  BY <1>2, <1>3

(* Between the rows, what is written of each loop is what was written.     *)
LEMMA WrittenMoves ==
    ASSUME SourceInv, TablesInv, BoundsInv, RowsKept, Moves, NEW m \in Nat
    PROVE  /\ FramesWritten(m)' => FramesWritten(m)
           /\ TypesWritten(m)' => TypesWritten(m)
           /\ MembersWritten(m)' => MembersWritten(m)
           /\ EventsWritten(m)' => EventsWritten(m)
           /\ phase = "run" /\ (\/ FramesWritten(m)' \/ TypesWritten(m)'
                                \/ MembersWritten(m)' \/ EventsWritten(m)') => m = 0
<1> DEFINE nF == Len(StackFrames(frames.pc))
           nT == Len(types.type_data)
<1> USE DEF FramesWritten, TypesWritten, MembersWritten, EventsWritten, Written,
            BeforeFrames, BeforeTypes, BeforeMembers, BeforeEvents,
            AfterFrames, AfterTypes, AfterMembers, AfterEvents
<1>1. /\ phase \in Phases /\ at \in Nat \ {0} /\ Len(log) \in Nat
  BY DEF SourceInv, LogInv, LogTypeOK
<1>2. CASE phase = "run"
  <2>1. phase' \in {"run", "objects", "failed"}
    BY <1>2 DEF Moves
  <2> QED  BY <1>2, <2>1
<1>3. CASE phase # "run"
  <2>1. nF \in Nat /\ nT \in Nat
    BY <1>3, FrameListsFacts, SeqFacts, TypeListsFacts
  <2>2. nF' = nF /\ nT' = nT /\ Len(log)' = Len(log)
    BY <1>3 DEF RowsKept, StackFrames
  <2>3. /\ phase = "frames" => at =< nF + 1
        /\ phase = "types" => at =< nT + 1
        /\ phase = "members" => at =< nT + 1
        /\ phase = "events" => at =< Len(log) + 1
    BY DEF BoundsInv
  <2>4. \/ phase' = phase /\ at' = at
        \/ phase' = phase /\ phase \in {"objects", "sizes"}
        \/ phase = "objects" /\ phase' = "frames" /\ at' = 1
        \/ phase = "frames" /\ at > nF /\ phase' = "types" /\ at' = 1
        \/ phase = "types" /\ at > nT /\ phase' = "members" /\ at' = 1
        \/ phase = "members" /\ at > nT /\ phase' = "events" /\ at' = 1
        \/ phase = "events" /\ at > Len(log) /\ phase' = "sizes" /\ at' = 1
        \/ phase = "sizes" /\ phase' = "done"
    BY <1>3 DEF Moves
  <2> HIDE DEF nF, nT
  <2>5. /\ (\/ phase' \in BeforeFrames /\ m = 0
            \/ phase' = "frames" /\ at' = m + 1
            \/ phase' \in AfterFrames /\ m = nF)
           => \/ phase \in BeforeFrames /\ m = 0
              \/ phase = "frames" /\ at = m + 1
              \/ phase \in AfterFrames /\ m = nF
    BY <1>1, <1>3, <2>1, <2>3, <2>4
  <2>6. /\ (\/ phase' \in BeforeTypes /\ m = 0
            \/ phase' = "types" /\ at' = m + 1
            \/ phase' \in AfterTypes /\ m = nT)
           => \/ phase \in BeforeTypes /\ m = 0
              \/ phase = "types" /\ at = m + 1
              \/ phase \in AfterTypes /\ m = nT
    BY <1>1, <1>3, <2>1, <2>3, <2>4
  <2>7. /\ (\/ phase' \in BeforeMembers /\ m = 0
            \/ phase' = "members" /\ at' = m + 1
            \/ phase' \in AfterMembers /\ m = nT)
           => \/ phase \in BeforeMembers /\ m = 0
              \/ phase = "members" /\ at = m + 1
              \/ phase \in AfterMembers /\ m = nT
    BY <1>1, <1>3, <2>1, <2>3, <2>4
  <2>8. /\ (\/ phase' \in BeforeEvents /\ m = 0
            \/ phase' = "events" /\ at' = m + 1
            \/ phase' \in AfterEvents /\ m = Len(log))
           => \/ phase \in BeforeEvents /\ m = 0
              \/ phase = "events" /\ at = m + 1
              \/ phase \in AfterEvents /\ m = Len(log)
    BY <1>1, <1>3, <2>1, <2>3, <2>4
  <2>9. nF = Len(StackFrames(frames.pc)) /\ nT = Len(types.type_data)
    BY DEF nF, nT
  <2>10. Len(StackFrames(frames.pc))' = nF /\ Len(types.type_data)' = nT
    BY <2>2 DEF nF, nT
  <2>11. FramesWritten(m)' => FramesWritten(m)
    BY <2>5, <2>9, <2>10
  <2>12. TypesWritten(m)' => TypesWritten(m)
    BY <2>6, <2>9, <2>10
  <2>13. MembersWritten(m)' => MembersWritten(m)
    BY <2>7, <2>9, <2>10
  <2>14. EventsWritten(m)' => EventsWritten(m)
    BY <2>2, <2>8
  <2> HIDE DEF FramesWritten, TypesWritten, MembersWritten, EventsWritten
  <2> QED  BY <1>3, <2>11, <2>12, <2>13, <2>14
<1> QED  BY <1>2, <1>3

(* A row of another loop leaves the written rows of the types alone.       *)
LEMMA TypesInvOther ==
    ASSUME SourceInv, TablesInv, TypesInv, [Next]_vars,
           types'.type = types.type,
           types'.field_off = types.field_off,
           types'.base_off = types.base_off,
           types'.field_names = types.field_names,
           types'.base_types = types.base_types,
           \A m \in Nat : TypesWritten(m)' =>
               TypesWritten(m) /\ (m = 0 \/ types'.type_data = types.type_data),
           \A m \in Nat : MembersWritten(m)' =>
               MembersWritten(m) /\ (m = 0 \/ types'.type_data = types.type_data)
    PROVE  TypesInv'
<1>1. ASSUME NEW m \in Nat, TypesWritten(m)' PROVE TypeRows(m)'
  <2>1. TypeRows(m) /\ (m = 0 \/ types'.type_data = types.type_data)
    BY <1>1 DEF TypesInv
  <2> QED  BY <2>1, TypeRowsStay
<1>2. ASSUME NEW m \in Nat, MembersWritten(m)' PROVE MemberRows(m)'
  <2>1. MemberRows(m) /\ (m = 0 \/ types'.type_data = types.type_data)
    BY <1>2 DEF TypesInv
  <2> QED  BY <2>1, MemberRowsStay
<1> QED  BY <1>1, <1>2 DEF TypesInv

(* A row of the type loop extends the types and the offsets.               *)
LEMMA TypesInvTypeRow ==
    ASSUME SourceInv, TablesInv, BoundsInv, TypesInv, TypeRow
    PROVE  TypesInv'
<1> DEFINE n == Len(types.type_data)
           ent == TypeData[types.type_data[at]]
           ls == FieldLists
           lb == BaseLists
<1>1. /\ phase = "types" /\ phase' = phase /\ at =< n /\ at' = at + 1
      /\ strs' = InsertCstr(strs, ent.type)
      /\ types'.type_data = types.type_data
      /\ types'.type = Append(types.type, IndexCstr(strs', ent.type))
      /\ types'.field_off = Append(types.field_off, types.field_off[at] + Len(ent.field_names))
      /\ types'.base_off = Append(types.base_off, types.base_off[at] + Len(ent.base_types))
      /\ types'.field_names = types.field_names
      /\ types'.base_types = types.base_types
  BY TypeRowFacts DEF TablesInv
<1>2. /\ n \in Nat /\ at \in 1..n
      /\ ls[at] = ent.field_names /\ lb[at] = ent.base_types
      /\ IsSeq(ls[at]) /\ IsSeq(lb[at])
  <2>1. n \in Nat /\ at \in 1..n
    BY <1>1, TypeListsFacts DEF SourceInv
  <2> QED  BY <1>1, <2>1, TypeListsFacts
<1>3. PICK m \in Nat : at = m + 1
  <2>1. at - 1 \in Nat /\ at = (at - 1) + 1
    BY <1>2
  <2> QED  BY <2>1
<1>4. TypesWritten(m) /\ TypeRows(m)
  BY <1>1, <1>3 DEF TypesInv, TypesWritten, Written
<1>5. [Next]_vars
  BY DEF Next
<1>6. /\ \A i, s : Means(strs, i, s) => Means(strs', i, s)
      /\ Means(strs', IndexCstr(strs', ent.type), SafeSv(ent.type))
  <2>1. TableInv(strs') /\ ent.type \in DOMAIN strs'.cstr_lookup
    BY <1>1, InsertCstrInv DEF TablesInv
  <2> QED  BY <1>5, <2>1, MeansStays, IndexMeans
<1>7. FieldLists' = ls /\ BaseLists' = lb
  BY <1>1 DEF FieldLists, BaseLists
<1>8. TypeRows(m + 1)'
  <2> DEFINE x == IndexCstr(strs', ent.type)
  <2>1. /\ IsSeq(types.type) /\ Len(types.type) = m
        /\ \A i \in 1..m :
               Means(strs, types.type[i], SafeSv(TypeData[types.type_data[i]].type))
        /\ IsOffsets(types.field_off, m, ls)
        /\ IsOffsets(types.base_off, m, lb)
    BY <1>4 DEF TypeRows
  <2>2. /\ IsSeq(types'.type) /\ Len(types'.type) = m + 1
        /\ \A i \in 1..m : types'.type[i] = types.type[i]
        /\ types'.type[m + 1] = x
    BY <1>1, <2>1, SeqAppend
  <2>3. \A i \in 1..(m + 1) :
            Means(strs', types'.type[i], SafeSv(TypeData[types'.type_data[i]].type))
    <3> SUFFICES ASSUME NEW i \in 1..(m + 1)
                 PROVE  Means(strs', types'.type[i], SafeSv(TypeData[types.type_data[i]].type))
      BY <1>1
    <3>1. CASE i = m + 1
      BY <1>3, <1>6, <2>2, <3>1
    <3>2. CASE i # m + 1
      <4>1. i \in 1..m
        BY <3>2
      <4> QED  BY <1>6, <2>1, <2>2, <4>1
    <3> QED  BY <3>1, <3>2
  <2>4. IsOffsets(types'.field_off, m + 1, ls)
    <3>1. types'.field_off = Append(types.field_off, types.field_off[m + 1] + Len(ls[m + 1]))
      BY <1>1, <1>2, <1>3
    <3>2. IsSeq(ls[m + 1])
      BY <1>2, <1>3
    <3> HIDE DEF ls
    <3> QED  BY <2>1, <3>1, <3>2, OffsetsNext
  <2>5. IsOffsets(types'.base_off, m + 1, lb)
    <3>1. types'.base_off = Append(types.base_off, types.base_off[m + 1] + Len(lb[m + 1]))
      BY <1>1, <1>2, <1>3
    <3>2. IsSeq(lb[m + 1])
      BY <1>2, <1>3
    <3> HIDE DEF lb
    <3> QED  BY <2>1, <3>1, <3>2, OffsetsNext
  <2> QED  BY <1>7, <2>2, <2>3, <2>4, <2>5 DEF TypeRows
<1>9. ASSUME NEW k \in Nat, TypesWritten(k)' PROVE TypeRows(k)'
  <2>1. k = m + 1
    BY <1>1, <1>2, <1>3, <1>9 DEF TypesWritten, Written, BeforeTypes, BeforeFrames, AfterTypes,
              AfterMembers, AfterEvents
  <2> QED  BY <1>8, <2>1
<1>10. ASSUME NEW k \in Nat, MembersWritten(k)' PROVE MemberRows(k)'
  <2>1. k = 0 /\ MembersWritten(0)
    BY <1>1, <1>10 DEF MembersWritten, Written, BeforeMembers, AfterMembers, AfterEvents
  <2>2. MemberRows(k)
    BY <2>1 DEF TypesInv
  <2>3. types'.field_off[1] = types.field_off[1] /\ types'.base_off[1] = types.base_off[1]
    <3>1. IsSeq(types.field_off) /\ IsSeq(types.base_off)
          /\ Len(types.field_off) = m + 1 /\ Len(types.base_off) = m + 1
      BY <1>4 DEF TypeRows, IsOffsets
    <3>2. 1 \in 1..Len(types.field_off) /\ 1 \in 1..Len(types.base_off)
      BY <3>1
    <3> QED  BY <1>1, <3>1, <3>2, SeqAppend
  <2> QED  BY <1>1, <1>5, <2>1, <2>2, <2>3, MemberRowsStay
<1> QED  BY <1>9, <1>10 DEF TypesInv

(* A row of the members loop extends both arrays of members.               *)
LEMMA TypesInvMemberRow ==
    ASSUME SourceInv, TablesInv, BoundsInv, TypesInv, MemberRow
    PROVE  TypesInv'
<1> DEFINE n == Len(types.type_data)
           ent == TypeData[types.type_data[at]]
           ls == FieldLists
           lb == BaseLists
           ps == ent.field_names \o ent.base_types
<1>1. /\ phase = "members" /\ phase' = phase /\ at =< n /\ at' = at + 1
      /\ strs' = InsertAllCstr(strs, ps)
      /\ types'.type_data = types.type_data /\ types'.type = types.type
      /\ types'.field_off = types.field_off /\ types'.base_off = types.base_off
      /\ types'.field_names = types.field_names \o IndexList(strs', ent.field_names)
      /\ types'.base_types = types.base_types \o IndexList(strs', ent.base_types)
  BY MemberRowFacts DEF TablesInv
<1> HIDE DEF ps
<1>2. /\ n \in Nat /\ at \in 1..n
      /\ ls[at] = ent.field_names /\ lb[at] = ent.base_types
      /\ IsSeq(ls[at]) /\ IsSeq(lb[at])
  <2>1. n \in Nat /\ at \in 1..n
    BY <1>1, TypeListsFacts DEF SourceInv
  <2> QED  BY <1>1, <2>1, TypeListsFacts
<1>3. PICK m \in Nat : at = m + 1
  <2>1. at - 1 \in Nat /\ at = (at - 1) + 1
    BY <1>2
  <2> QED  BY <2>1
<1>4. MemberRows(m) /\ TypesWritten(n) /\ TypeRows(n)
  BY <1>1, <1>2, <1>3 DEF TypesInv, TypesWritten, MembersWritten, Written, AfterTypes
<1>5. [Next]_vars
  BY DEF Next
<1>6. \A i, s : Means(strs, i, s) => Means(strs', i, s)
  BY <1>5, MeansStays
<1>7. FieldLists' = ls /\ BaseLists' = lb
  BY <1>1 DEF FieldLists, BaseLists
<1>8. /\ TableInv(strs')
      /\ \A j \in 1..Len(ls[m + 1]) : ls[m + 1][j] \in DOMAIN strs'.cstr_lookup
      /\ \A j \in 1..Len(lb[m + 1]) : lb[m + 1][j] \in DOMAIN strs'.cstr_lookup
  <2>1. PICK a, b : a = ent.field_names /\ b = ent.base_types
    OBVIOUS
  <2>2. IsSeq(a) /\ IsSeq(b) /\ a = ls[m + 1] /\ b = lb[m + 1]
    BY <1>2, <1>3, <2>1
  <2>3. Len(a) \in Nat /\ Len(b) \in Nat
    BY <2>2, SeqFacts
  <2> DEFINE c == a \o b
  <2>4. ps = c
    BY <2>1 DEF ps
  <2>5. /\ IsSeq(c) /\ Len(c) = Len(a) + Len(b)
        /\ \A i \in 1..Len(a) : c[i] = a[i]
        /\ \A i \in 1..Len(b) : c[Len(a) + i] = b[i]
    <3>1. IsSeq(a) /\ IsSeq(b)
      BY <2>2
    <3> QED  BY ONLY <3>1, SeqConcat DEF c
  <2> HIDE DEF c
  <2>6. Len(c) \in Nat /\ strs' = InsertAllCstr(strs, c) /\ TableInv(strs)
    <3>1. Len(c) \in Nat
      BY <2>3, <2>5
    <3>2. strs' = InsertAllCstr(strs, c)
      BY Zenon, <1>1, <2>4
    <3> QED  BY <3>1, <3>2 DEF TablesInv
  <2>7. TableInv(strs') /\ \A k \in 1..Len(c) : c[k] \in DOMAIN strs'.cstr_lookup
    BY <2>6, InsertAllCstrInv
  <2>8. \A j \in 1..Len(a) : j \in 1..Len(c)
    BY <2>3, <2>5
  <2>9. \A j \in 1..Len(b) : Len(a) + j \in 1..Len(c)
    BY <2>3, <2>5
  <2> HIDE DEF ls, lb
  <2>10. \A j \in 1..Len(a) : a[j] \in DOMAIN strs'.cstr_lookup
    BY <2>5, <2>7, <2>8
  <2>11. \A j \in 1..Len(b) : b[j] \in DOMAIN strs'.cstr_lookup
    BY <2>5, <2>7, <2>9
  <2> QED  BY <2>2, <2>7, <2>10, <2>11
<1>9. MemberRows(m + 1)'
  <2>1. IsOffsets(types.field_off, n, ls) /\ IsOffsets(types.base_off, n, lb)
    BY <1>4 DEF TypeRows
  <2>2. /\ IsMembers(strs, types.field_names, types.field_off, m, ls)
        /\ IsMembers(strs, types.base_types, types.base_off, m, lb)
    BY <1>4 DEF MemberRows
  <2>3. /\ types'.field_names = types.field_names \o IndexList(strs', ls[m + 1])
        /\ types'.base_types = types.base_types \o IndexList(strs', lb[m + 1])
        /\ IsSeq(ls[m + 1]) /\ IsSeq(lb[m + 1])
        /\ m \in 0..(n - 1)
    <3>1. m \in 0..(n - 1)
      BY <1>2, <1>3
    <3>2. ls[m + 1] = ent.field_names /\ lb[m + 1] = ent.base_types
      BY <1>2, <1>3
    <3> HIDE DEF ls, lb, ent, n
    <3> QED  BY Zenon, <1>1, <1>2, <1>3, <3>1, <3>2
  <2> HIDE DEF ls, lb, n
  <2>4. IsMembers(strs', types'.field_names, types'.field_off, m + 1, ls)
    BY <1>1, <1>2, <1>6, <1>8, <2>1, <2>2, <2>3, MembersNext
  <2>5. IsMembers(strs', types'.base_types, types'.base_off, m + 1, lb)
    BY <1>1, <1>2, <1>6, <1>8, <2>1, <2>2, <2>3, MembersNext
  <2> QED  BY <1>7, <2>4, <2>5 DEF MemberRows
<1>10. ASSUME NEW k \in Nat, MembersWritten(k)' PROVE MemberRows(k)'
  <2>1. k = m + 1
    BY <1>1, <1>2, <1>3, <1>10 DEF MembersWritten, Written, BeforeMembers, BeforeTypes,
              BeforeFrames, AfterMembers, AfterEvents
  <2> QED  BY <1>9, <2>1
<1>11. ASSUME NEW k \in Nat, TypesWritten(k)' PROVE TypeRows(k)'
  <2>1. k = n /\ TypesWritten(n)
    BY <1>1, <1>4, <1>11 DEF TypesWritten, Written, BeforeTypes, BeforeFrames
  <2>2. TypeRows(k)
    BY <1>4, <2>1
  <2> QED  BY <1>1, <1>5, <2>2, TypeRowsStay
<1> QED  BY <1>10, <1>11 DEF TypesInv

(* Every step keeps the table of types right.                              *)
LEMMA TypesInvStep ==
    ASSUME SourceInv, TablesInv, BoundsInv, TypesInv, [Next]_vars
    PROVE  TypesInv'
<1>1. CASE RowsKept /\ Moves
  <2>1. \A m \in Nat : TypesWritten(m)' =>
            TypesWritten(m) /\ (m = 0 \/ types'.type_data = types.type_data)
    BY <1>1, WrittenMoves DEF RowsKept
  <2>2. \A m \in Nat : MembersWritten(m)' =>
            MembersWritten(m) /\ (m = 0 \/ types'.type_data = types.type_data)
    BY <1>1, WrittenMoves DEF RowsKept
  <2> QED  BY <1>1, <2>1, <2>2, TypesInvOther DEF RowsKept
<1>2. CASE FrameRow \/ EventRow
  <2>1. types' = types /\ phase' = phase /\ phase \in {"frames", "events"}
    BY <1>2, FrameRowFacts, EventRowFacts DEF TablesInv
  <2>2. \A m \in Nat : TypesWritten(m)' => TypesWritten(m)
    BY <2>1 DEF TypesWritten, Written
  <2>3. \A m \in Nat : MembersWritten(m)' => MembersWritten(m)
    BY <2>1 DEF MembersWritten, Written
  <2> QED  BY <2>1, <2>2, <2>3, TypesInvOther
<1> QED  BY <1>1, <1>2, StepShapes, TypesInvTypeRow, TypesInvMemberRow

-----------------------------------------------------------------------------
(* The events: their references into the other tables.                     *)
LEMMA LookupFacts ==
    ASSUME NEW col, NEW S, IsColumn(col, S), NEW v \in S
    PROVE  \E c \in 1..Len(col) : col[c] = v /\ Lookup(col)[v] = c - 1
<1>1. DOMAIN col = 1..Len(col)
  BY SeqFacts DEF IsColumn
<1>2. \E c \in 1..Len(col) : col[c] = v
  BY DEF IsColumn
<1>3. PICK c : c = CHOOSE k \in DOMAIN col : col[k] = v
  OBVIOUS
<1>4. c \in 1..Len(col) /\ col[c] = v
  BY <1>1, <1>2, <1>3
<1>5. Lookup(col)[v] = c - 1
  <2>1. v \in Range(col)
    BY <1>1, <1>4 DEF Range
  <2> QED  BY <1>3, <2>1 DEF Lookup
<1> QED  BY <1>4, <1>5

(* os are the objects of the type_data addresses ot.                       *)
IsObjectsOf(st, tds, os, ot) ==
    /\ IsSeq(os)
    /\ Len(os) = Len(ot)
    /\ \A i \in 1..Len(ot) :
           /\ os[i].type_data = Lookup(tds)[ot[i]]
           /\ Means(st, os[i].type, SafeSv(TypeData[ot[i]].type))

(* The rows of the first m events are written.                             *)
EventRows(m) ==
    /\ IsSeq(pc_ids) /\ Len(pc_ids) = m
    /\ IsSeq(objects) /\ Len(objects) = m
    /\ \A k \in 1..m :
           pc_ids[k] = [i \in DOMAIN info[k].trace |-> Lookup(frames.pc)[info[k].trace[i]]]
    /\ \A k \in 1..m :
           IsObjectsOf(strs, types.type_data, objects[k], info[k].objects)

RowsInv == \A m \in Nat : EventsWritten(m) => EventRows(m)

(* No event has its rows at the start.                                     *)
LEMMA RowsInvInit == ASSUME Init PROVE RowsInv
<1>1. pc_ids = << >> /\ objects = << >> /\ phase = "run" /\ at = 1
  BY DEF Init
<1>2. IsSeq(<< >>)
  <2>1. << >> \in Seq({})
    OBVIOUS
  <2> QED  BY <2>1 DEF IsSeq
<1>3. EventRows(0)
  BY <1>1, <1>2 DEF EventRows
<1>4. \A m \in Nat : EventsWritten(m) => m = 0
  BY <1>1 DEF EventsWritten, Written, BeforeFrames, AfterEvents
<1> QED  BY <1>3, <1>4 DEF RowsInv

(* The rows of the events stay when a step writes none.                    *)
LEMMA RowsInvOther ==
    ASSUME SourceInv, TablesInv, RowsInv, [Next]_vars,
           pc_ids' = pc_ids, objects' = objects,
           \A m \in Nat : EventsWritten(m)' =>
               EventsWritten(m) /\ (m = 0 \/ /\ types'.type_data = types.type_data
                                             /\ frames'.pc = frames.pc
                                             /\ info' = info)
    PROVE  RowsInv'
<1> SUFFICES ASSUME NEW m \in Nat, EventsWritten(m)' PROVE EventRows(m)'
  BY DEF RowsInv
<1>1. \A i, s : Means(strs, i, s) => Means(strs', i, s)
  BY MeansStays
<1>2. EventRows(m) /\ (m = 0 \/ /\ types'.type_data = types.type_data
                                /\ frames'.pc = frames.pc
                                /\ info' = info)
  BY DEF RowsInv
<1>3. CASE m = 0
  BY <1>2, <1>3 DEF EventRows
<1>4. CASE types'.type_data = types.type_data /\ frames'.pc = frames.pc /\ info' = info
  <2>1. \A k \in 1..m :
            IsObjectsOf(strs', types'.type_data, objects'[k], info'[k].objects)
    <3> SUFFICES ASSUME NEW k \in 1..m
                 PROVE  IsObjectsOf(strs', types.type_data, objects[k], info[k].objects)
      BY <1>4
    <3>1. IsObjectsOf(strs, types.type_data, objects[k], info[k].objects)
      BY <1>2 DEF EventRows
    <3> QED  BY <1>1, <3>1 DEF IsObjectsOf
  <2> QED  BY <1>2, <1>4, <2>1 DEF EventRows
<1> QED  BY <1>2, <1>3, <1>4

(* A row of the event loop has the program counters and the objects of its *)
(* event.                                                                  *)
LEMMA RowsInvEventRow ==
    ASSUME SourceInv, TablesInv, RowsInv, EventRow
    PROVE  RowsInv'
<1> DEFINE tr == info[at].trace
           ot == info[at].objects
           ids == [i \in DOMAIN tr |-> Lookup(frames.pc)[tr[i]]]
           ps == [i \in DOMAIN ot |-> TypeData[ot[i]].type]
           os == [i \in DOMAIN ot |-> [type |-> IndexCstr(strs', TypeData[ot[i]].type),
                                       type_data |-> Lookup(types.type_data)[ot[i]]]]
<1>1. /\ phase = "events" /\ phase' = phase
      /\ at \in 1..Len(log) /\ at' = at + 1
      /\ frames' = frames /\ types' = types
      /\ pc_ids' = Append(pc_ids, ids)
      /\ strs' = InsertAllCstr(strs, ps)
      /\ objects' = Append(objects, os)
  BY EventRowFacts
<1>2. PICK m \in Nat : at = m + 1
  <2>1. at - 1 \in Nat /\ at = (at - 1) + 1
    BY <1>1
  <2> QED  BY <2>1
<1>3. EventRows(m)
  BY <1>1, <1>2 DEF RowsInv, EventsWritten, Written
<1>4. [Next]_vars
  BY DEF Next
<1>5. \A i, s : Means(strs, i, s) => Means(strs', i, s)
  BY <1>4, MeansStays
<1>6. info' = info
  BY LaterSteps DEF Later, recordVars
<1>7. Len(ot) \in Nat /\ DOMAIN ot = 1..Len(ot)
  <2>1. ot \in Seq(DOMAIN TypeData)
    BY <1>1, InfoFacts
  <2> QED  BY <2>1
<1>8. IsObjectsOf(strs', types.type_data, os, ot)
  <2> HIDE DEF ot
  <2>1. Len(ps) = Len(ot) /\ \A i \in 1..Len(ot) : ps[i] = TypeData[ot[i]].type
    <3>1. ps = [i \in 1..Len(ot) |-> ps[i]] /\ \A i \in 1..Len(ot) : ps[i] = TypeData[ot[i]].type
      BY <1>7
    <3> HIDE DEF ps
    <3> QED  BY <1>7, <3>1, SeqOfFunction
  <2>2. /\ TableInv(strs')
        /\ \A i \in 1..Len(ot) : TypeData[ot[i]].type \in DOMAIN strs'.cstr_lookup
    <3>1. Len(ps) \in Nat /\ TableInv(strs)
      BY <1>7, <2>1 DEF TablesInv
    <3> HIDE DEF ps
    <3>2. TableInv(strs') /\ \A i \in 1..Len(ps) : ps[i] \in DOMAIN strs'.cstr_lookup
      BY <1>1, <3>1, InsertAllCstrInv
    <3> QED  BY <2>1, <3>2
  <2>3. \A i \in 1..Len(ot) :
            /\ os[i].type_data = Lookup(types.type_data)[ot[i]]
            /\ os[i].type = IndexCstr(strs', TypeData[ot[i]].type)
    BY <1>7
  <2>4. os = [i \in 1..Len(ot) |-> os[i]]
    BY <1>7
  <2> HIDE DEF os
  <2>5. IsSeq(os) /\ Len(os) = Len(ot)
    BY <1>7, <2>4, SeqOfFunction
  <2>6. \A i \in 1..Len(ot) : Means(strs', os[i].type, SafeSv(TypeData[ot[i]].type))
    BY <2>2, <2>3, IndexMeans
  <2> QED  BY <2>3, <2>5, <2>6 DEF IsObjectsOf
<1> HIDE DEF os, ids, ps
<1>9. EventRows(m + 1)'
  <2>1. /\ IsSeq(pc_ids) /\ Len(pc_ids) = m
        /\ IsSeq(objects) /\ Len(objects) = m
        /\ \A k \in 1..m :
               pc_ids[k] = [i \in DOMAIN info[k].trace |-> Lookup(frames.pc)[info[k].trace[i]]]
        /\ \A k \in 1..m :
               IsObjectsOf(strs, types.type_data, objects[k], info[k].objects)
    BY <1>3 DEF EventRows
  <2>2. /\ IsSeq(pc_ids') /\ Len(pc_ids') = m + 1
        /\ \A k \in 1..m : pc_ids'[k] = pc_ids[k]
        /\ pc_ids'[m + 1] = ids
    BY <1>1, <2>1, SeqAppend
  <2>3. /\ IsSeq(objects') /\ Len(objects') = m + 1
        /\ \A k \in 1..m : objects'[k] = objects[k]
        /\ objects'[m + 1] = os
    BY <1>1, <2>1, SeqAppend
  <2>4. \A k \in 1..(m + 1) :
            pc_ids'[k] = [i \in DOMAIN info[k].trace |-> Lookup(frames.pc)[info[k].trace[i]]]
    <3>1. \A k \in 1..(m + 1) : k \in 1..m \/ k = m + 1
      OBVIOUS
    <3>2. pc_ids'[m + 1] = [i \in DOMAIN info[m + 1].trace |->
                                Lookup(frames.pc)[info[m + 1].trace[i]]]
      BY <1>2, <2>2 DEF ids
    <3> QED  BY <2>1, <2>2, <3>1, <3>2
  <2>5. \A k \in 1..(m + 1) :
            IsObjectsOf(strs', types.type_data, objects'[k], info[k].objects)
    <3> SUFFICES ASSUME NEW k \in 1..(m + 1)
                 PROVE  IsObjectsOf(strs', types.type_data, objects'[k], info[k].objects)
      OBVIOUS
    <3>1. CASE k = m + 1
      BY <1>2, <1>8, <2>3, <3>1
    <3>2. CASE k # m + 1
      <4>1. k \in 1..m
        BY <3>2
      <4>2. IsObjectsOf(strs, types.type_data, objects[k], info[k].objects)
        BY <2>1, <4>1
      <4>3. IsObjectsOf(strs', types.type_data, objects[k], info[k].objects)
        BY <1>5, <4>2 DEF IsObjectsOf
      <4> QED  BY <2>3, <4>1, <4>3
    <3> QED  BY <3>1, <3>2
  <2> QED  BY <1>1, <1>6, <2>2, <2>3, <2>4, <2>5 DEF EventRows
<1>10. ASSUME NEW k \in Nat, EventsWritten(k)' PROVE EventRows(k)'
  <2>1. k = m + 1
    BY <1>1, <1>2, <1>10 DEF EventsWritten, Written, BeforeEvents, BeforeMembers, BeforeTypes,
              BeforeFrames, AfterEvents
  <2> QED  BY <1>9, <2>1
<1> QED  BY <1>10 DEF RowsInv

(* Every step keeps the rows of the events right.                          *)
LEMMA RowsInvStep ==
    ASSUME SourceInv, TablesInv, BoundsInv, RowsInv, [Next]_vars
    PROVE  RowsInv'
<1>1. CASE RowsKept /\ Moves
  <2>1. \A m \in Nat : EventsWritten(m)' =>
            EventsWritten(m) /\ (m = 0 \/ /\ types'.type_data = types.type_data
                                          /\ frames'.pc = frames.pc
                                          /\ info' = info)
    BY <1>1, WrittenMoves DEF RowsKept
  <2> QED  BY <1>1, <2>1, RowsInvOther DEF RowsKept
<1>2. CASE FrameRow \/ TypeRow \/ MemberRow
  <2>1. /\ pc_ids' = pc_ids /\ objects' = objects
        /\ phase' = phase /\ phase \in {"frames", "types", "members"}
    BY <1>2, FrameRowFacts, TypeRowFacts, MemberRowFacts DEF TablesInv, SameEvents
  <2>2. \A m \in Nat : EventsWritten(m)' => EventsWritten(m) /\ m = 0
    BY <2>1 DEF EventsWritten, Written, BeforeEvents, BeforeMembers, BeforeTypes,
              BeforeFrames, AfterEvents
  <2> QED  BY <2>1, <2>2, RowsInvOther
<1> QED  BY <1>1, <1>2, StepShapes, RowsInvEventRow

(* The report can be decoded when it is done.                              *)
LEMMA AllWritten ==
    ASSUME SourceInv, TablesInv, TypesInv, RowsInv, phase = "done"
    PROVE  /\ TypeRows(Len(types.type_data))
           /\ MemberRows(Len(types.type_data))
           /\ EventRows(Len(log))
<1>1. Len(types.type_data) \in Nat /\ Len(log) \in Nat
  BY InfoFacts, TypeListsFacts
<1>2. /\ TypesWritten(Len(types.type_data))
      /\ MembersWritten(Len(types.type_data))
      /\ EventsWritten(Len(log))
  BY DEF TypesWritten, MembersWritten, EventsWritten, Written, AfterTypes, AfterMembers,
         AfterEvents
<1> QED  BY <1>1, <1>2 DEF TypesInv, RowsInv

(* Once the report is written, decoding each object's row gives the        *)
(* recorded type and its fields and bases.                                 *)
LEMMA ObjectsDecode ==
    ASSUME SourceInv, TablesInv, TypesInv, RowsInv
    PROVE  ObjectTypes
<1> DEFINE n == Len(types.type_data)
<1> SUFFICES ASSUME phase = "done", NEW k \in 1..Len(log)
             PROVE  /\ Len(objects[k]) = Len(info[k].objects)
                    /\ \A i \in DOMAIN objects[k] :
                           LET o   == objects[k][i]
                               ent == TypeData[info[k].objects[i]]
                               Texts(ps) == [j \in DOMAIN ps |-> SafeSv(ps[j])]
                           IN  /\ StringAt(strs, o.type) = SafeSv(ent.type)
                               /\ StringAt(strs, types.type[o.type_data + 1]) = SafeSv(ent.type)
                               /\ Decode(Slice(types.field_names, types.field_off, o.type_data))
                                      = Texts(ent.field_names)
                               /\ Decode(Slice(types.base_types, types.base_off, o.type_data))
                                      = Texts(ent.base_types)
  BY DEF ObjectTypes, Done
<1>1. TypeRows(n) /\ MemberRows(n) /\ EventRows(Len(log))
  BY AllWritten
<1>2. IsObjectsOf(strs, types.type_data, objects[k], info[k].objects)
  BY <1>1 DEF EventRows
<1>3. DOMAIN objects[k] = 1..Len(info[k].objects) /\ Len(objects[k]) = Len(info[k].objects)
  BY <1>2, SeqFacts DEF IsObjectsOf
<1>4. /\ info[k].objects \in Seq(DOMAIN TypeData)
      /\ Range(info[k].objects) \subseteq ObjectAddrs
      /\ IsColumn(types.type_data, ObjectAddrs)
      /\ n \in Nat
  BY InfoFacts, TypeListsFacts DEF TablesInv, ColumnsInv
<1>5. ASSUME NEW i \in 1..Len(info[k].objects)
      PROVE  LET o   == objects[k][i]
                 ent == TypeData[info[k].objects[i]]
             IN  /\ StringAt(strs, o.type) = SafeSv(ent.type)
                 /\ StringAt(strs, types.type[o.type_data + 1]) = SafeSv(ent.type)
                 /\ Decode(Slice(types.field_names, types.field_off, o.type_data))
                        = [j \in DOMAIN ent.field_names |-> SafeSv(ent.field_names[j])]
                 /\ Decode(Slice(types.base_types, types.base_off, o.type_data))
                        = [j \in DOMAIN ent.base_types |-> SafeSv(ent.base_types[j])]
  <2> DEFINE o   == objects[k][i]
             td  == info[k].objects[i]
             ent == TypeData[td]
  <2>1. td \in ObjectAddrs
    <3>1. td \in Range(info[k].objects)
      BY <1>4 DEF Range
    <3> QED  BY <1>4, <3>1
  <2>2. o.type_data = Lookup(types.type_data)[td] /\ Means(strs, o.type, SafeSv(ent.type))
    BY <1>2 DEF IsObjectsOf
  <2> HIDE DEF td, o
  <2>3. PICK c \in 1..n : types.type_data[c] = td /\ Lookup(types.type_data)[td] = c - 1
    BY <1>4, <2>1, LookupFacts
  <2>4. o.type_data = c - 1 /\ o.type_data + 1 = c
    BY <1>4, <2>2, <2>3
  <2>5. Means(strs, types.type[c], SafeSv(ent.type))
    BY <1>1, <2>3 DEF TypeRows
  <2>6. /\ FieldLists[c] = ent.field_names /\ BaseLists[c] = ent.base_types
        /\ IsSeq(FieldLists[c]) /\ IsSeq(BaseLists[c])
    BY <2>3, TypeListsFacts
  <2>7. /\ IsOffsets(types.field_off, n, FieldLists) /\ IsOffsets(types.base_off, n, BaseLists)
        /\ IsMembers(strs, types.field_names, types.field_off, n, FieldLists)
        /\ IsMembers(strs, types.base_types, types.base_off, n, BaseLists)
    BY <1>1 DEF TypeRows, MemberRows
  <2> HIDE DEF ent, n
  <2>8. Decode(Slice(types.field_names, types.field_off, c - 1))
            = [j \in DOMAIN FieldLists[c] |-> SafeSv(FieldLists[c][j])]
    BY <1>4, <2>6, <2>7, SliceDecodes
  <2>9. Decode(Slice(types.base_types, types.base_off, c - 1))
            = [j \in DOMAIN BaseLists[c] |-> SafeSv(BaseLists[c][j])]
    BY <1>4, <2>6, <2>7, SliceDecodes
  <2>10. StringAt(strs, o.type) = SafeSv(ent.type) /\ StringAt(strs, types.type[c]) = SafeSv(ent.type)
    BY <2>2, <2>5 DEF Means
  <2>11. /\ Decode(Slice(types.field_names, types.field_off, o.type_data))
                = [j \in DOMAIN ent.field_names |-> SafeSv(ent.field_names[j])]
         /\ Decode(Slice(types.base_types, types.base_off, o.type_data))
                = [j \in DOMAIN ent.base_types |-> SafeSv(ent.base_types[j])]
    BY <2>4, <2>6, <2>8, <2>9
  <2> QED  BY Zenon, <2>4, <2>10, <2>11 DEF o, ent, td
<1> QED  BY Zenon, <1>3, <1>5

(* The objects an event destroys, decoded through the type table, have the *)
(* name, the fields and the bases of their own type.                       *)
THEOREM RecordObjects == Spec => []ObjectTypes
<1>1. Init => SourceInv /\ TablesInv /\ BoundsInv /\ TypesInv /\ RowsInv
  BY SourceInvInit, TablesInvInit, BoundsInvInit, TypesInvInit, RowsInvInit
<1>2. SourceInv /\ TablesInv /\ BoundsInv /\ TypesInv /\ RowsInv /\ [Next]_vars
          => (SourceInv /\ TablesInv /\ BoundsInv /\ TypesInv /\ RowsInv)'
  BY SourceInvStep, TablesInvStep, BoundsInvStep, TypesInvStep, RowsInvStep
<1>3. SourceInv /\ TablesInv /\ TypesInv /\ RowsInv => ObjectTypes
  BY ObjectsDecode
<1> QED  BY <1>1, <1>2, <1>3, PTL DEF Spec

-----------------------------------------------------------------------------
(* The frames.  What cpptrace promises of each program counter, and what   *)
(* pc_i relies on: the inline frames first, and last the frame they were   *)
(* inlined into.  That there is a frame at all is what the sanity check    *)
(* then comes down to (NoneWithoutFrames).                                 *)
OwnFrameLast ==
    \A i \in 1..Len(frames.pc) :
        LET fs == resolved[frames.pc[i]].frames
        IN  \A j \in 1..Len(fs) : fs[j].is_inline <=> j # Len(fs)

NoFrameRows == frames.func = << >> /\ frames.offsets = <<0>>

(* Where the frames of each program counter end.                           *)
Ends == CHOOSE E : IsJoined(StackFrames(frames.pc), FrameLists, E)

(* The rows of the first m frames are written: offsets has the ends of     *)
(* those whose own frame is among them.                                    *)
FrameRows(m) ==
    /\ IsSeq(frames.func) /\ Len(frames.func) = m
    /\ IsSeq(frames.offsets)
    /\ Len(frames.offsets) \in 1..(Len(frames.pc) + 1)
    /\ \A i \in 1..Len(frames.offsets) : frames.offsets[i] = Ends[i - 1]
    /\ Ends[Len(frames.offsets) - 1] =< m
    /\ Len(frames.offsets) =< Len(frames.pc) => m < Ends[Len(frames.offsets)]
    /\ \A i \in 1..Len(frames.pc) : \A j \in 1..Len(FrameLists[i]) :
           Ends[i - 1] + j =< m =>
               Means(strs, frames.func[Ends[i - 1] + j],
                     FuncName(resolved[frames.pc[i]], FrameLists[i][j]))

FramesInv ==
    /\ phase \notin {"run", "failed"} => FramesMatch(frames.pc)
    /\ phase \in BeforeFrames => NoFrameRows
    /\ OwnFrameLast =>
           \A m \in Nat : phase \notin BeforeFrames /\ FramesWritten(m) => FrameRows(m)

(* Ends counts the frames of the first program counters.                   *)
LEMMA EndsFacts ==
    ASSUME SourceInv, TablesInv, phase # "run"
    PROVE  /\ Ends[0] = 0
           /\ Len(frames.pc) \in Nat
           /\ \A i \in 0..Len(frames.pc) : Ends[i] \in Nat
           /\ \A i, j \in 0..Len(frames.pc) : i =< j => Ends[i] =< Ends[j]
           /\ Len(StackFrames(frames.pc)) = Ends[Len(frames.pc)]
           /\ \A i \in 1..Len(frames.pc) :
                  /\ Len(FrameLists[i]) \in Nat
                  /\ Ends[i] = Ends[i - 1] + Len(FrameLists[i])
                  /\ \A j \in 1..Len(FrameLists[i]) :
                         StackFrames(frames.pc)[Ends[i - 1] + j] = FrameLists[i][j]
           /\ \A p \in 1..Len(StackFrames(frames.pc)) :
                  \E i \in 1..Len(frames.pc) : \E j \in 1..Len(FrameLists[i]) :
                      p = Ends[i - 1] + j
<1> DEFINE n == Len(frames.pc)
<1>1. PICK ls, s : ls = FrameLists /\ s = StackFrames(frames.pc)
  OBVIOUS
<1>2. /\ Len(ls) = n /\ n \in Nat /\ \A i \in 1..n : IsSeq(ls[i])
      /\ \E E : IsJoined(s, ls, E)
  BY <1>1, FrameListsFacts
<1>3. PICK E : E = Ends
  OBVIOUS
<1>4. IsJoined(s, ls, E)
  BY <1>1, <1>2, <1>3 DEF Ends
<1>5. \A i \in 1..n : Len(ls[i]) \in Nat
  BY <1>2, SeqFacts
<1> HIDE DEF n
<1>6. /\ \A i \in 0..n : E[i] \in Nat
      /\ \A i, j \in 0..n : i =< j => E[i] =< E[j]
  BY <1>2, <1>4, <1>5, EndsAscend
<1>7. /\ E[0] = 0
      /\ \A i \in 1..n : E[i] = E[i - 1] + Len(ls[i])
      /\ Len(s) = E[n]
      /\ \A i \in 1..n : \A j \in 1..Len(ls[i]) : s[E[i - 1] + j] = ls[i][j]
      /\ \A p \in 1..Len(s) : \E i \in 1..n : \E j \in 1..Len(ls[i]) : p = E[i - 1] + j
  BY <1>2, <1>4 DEF IsJoined, IsJoinedUpto
<1> QED  BY <1>1, <1>2, <1>3, <1>5, <1>6, <1>7 DEF n

(* The frames that are not inlined are as many as the program counters, so *)
(* if each has at most one, none has none.                                 *)
LEMMA NoneWithoutFrames ==
    ASSUME SourceInv, TablesInv, phase # "run", OwnFrameLast, FramesMatch(frames.pc),
           NEW i \in 1..Len(frames.pc)
    PROVE  Len(FrameLists[i]) # 0
<1> DEFINE n == Len(frames.pc)
<1>1. PICK s, ls, E : s = StackFrames(frames.pc) /\ ls = FrameLists /\ E = Ends
  OBVIOUS
<1> DEFINE own == {p \in DOMAIN s : ~ s[p].is_inline}
           full == {k \in 1..n : Len(ls[k]) # 0}
           last == [k \in full |-> E[k]]
<1>2. /\ n \in Nat /\ IsSeq(s)
      /\ \A k \in 1..n : ls[k] = resolved[frames.pc[k]].frames
  BY <1>1, FrameListsFacts
<1>3. /\ \A k \in 1..n : /\ Len(ls[k]) \in Nat /\ E[k - 1] \in Nat
                         /\ E[k] = E[k - 1] + Len(ls[k])
                         /\ \A j \in 1..Len(ls[k]) : s[E[k - 1] + j] = ls[k][j]
      /\ \A p \in 1..Len(s) : \E k \in 1..n : \E j \in 1..Len(ls[k]) : p = E[k - 1] + j
  <2>1. \A k \in 0..n : E[k] \in Nat
    BY <1>1, EndsFacts
  <2>2. \A k \in 1..n : /\ Len(ls[k]) \in Nat /\ E[k] = E[k - 1] + Len(ls[k])
                        /\ \A j \in 1..Len(ls[k]) : s[E[k - 1] + j] = ls[k][j]
    BY <1>1, EndsFacts
  <2>3. \A p \in 1..Len(s) : \E k \in 1..n : \E j \in 1..Len(ls[k]) : p = E[k - 1] + j
    BY <1>1, EndsFacts
  <2>4. \A k \in 1..n : k - 1 \in 0..n
    BY <1>2
  <2> QED  BY <2>1, <2>2, <2>3, <2>4
<1>4. Cardinality(own) = n
  BY <1>1 DEF FramesMatch
<1>5. own \subseteq {last[k] : k \in full}
  <2> SUFFICES ASSUME NEW p \in own PROVE \E k \in full : p = E[k]
    OBVIOUS
  <2>1. p \in 1..Len(s)
    BY <1>2, SeqFacts
  <2>2. PICK k \in 1..n : \E j \in 1..Len(ls[k]) : p = E[k - 1] + j
    BY <1>3, <2>1
  <2>3. PICK j \in 1..Len(ls[k]) : p = E[k - 1] + j
    BY <2>2
  <2>4. ~ ls[k][j].is_inline
    BY <1>3, <2>3
  <2>5. j = Len(ls[k])
    BY <1>2, <2>4 DEF OwnFrameLast
  <2> QED  BY <1>3, <2>3, <2>5
<1> HIDE DEF n
<1>6. IsFiniteSet(1..n) /\ Cardinality(1..n) = n
  BY <1>2, UptoFinite
<1>7. IsFiniteSet(full)
  <2>1. full \in SUBSET (1..n)
    OBVIOUS
  <2> QED  BY <1>6, <2>1, FS_Subset
<1>8. n =< Cardinality(full) /\ Cardinality(full) \in Nat
  <2> DEFINE T == {last[k] : k \in full}
  <2>1. last \in Surjection(full, T)
    BY DEF Surjection
  <2> HIDE DEF last, T, full, own
  <2>2. IsFiniteSet(T) /\ Cardinality(T) =< Cardinality(full)
    BY <1>7, <2>1, FS_Surjection
  <2>3. Cardinality(own) =< Cardinality(T)
    <3>1. own \in SUBSET T
      BY <1>5 DEF T
    <3> QED  BY <2>2, <3>1, FS_Subset
  <2>4. Cardinality(full) \in Nat /\ Cardinality(T) \in Nat
    BY <1>7, <2>2, FS_CardinalityType
  <2> QED  BY <1>2, <1>4, <2>2, <2>3, <2>4
<1>9. full = 1..n
  <2>1. full \in SUBSET (1..n)
    OBVIOUS
  <2> HIDE DEF full
  <2>2. Cardinality(full) =< n /\ (Cardinality(1..n) = Cardinality(full) => 1..n = full)
    BY <1>6, <2>1, FS_Subset
  <2>3. Cardinality(full) = n
    BY <1>2, <1>8, <2>2
  <2> QED  BY <1>6, <2>2, <2>3
<1> QED  BY <1>1, <1>9 DEF n

(* Under the promise, each program counter ends with its own frame.        *)
LEMMA OwnFrames ==
    ASSUME SourceInv, TablesInv, phase # "run", OwnFrameLast, FramesMatch(frames.pc),
           NEW i \in 1..Len(frames.pc)
    PROVE  /\ FrameLists[i] = resolved[frames.pc[i]].frames
           /\ Len(FrameLists[i]) \in Nat \ {0}
           /\ \A j \in 1..Len(FrameLists[i]) :
                  FrameLists[i][j].is_inline <=> j # Len(FrameLists[i])
<1>1. /\ FrameLists[i] = resolved[frames.pc[i]].frames
      /\ \E tr \in Traces : frames.pc[i] \in Range(tr)
      /\ IsSeq(FrameLists[i])
  BY FrameListsFacts
<1>2. Len(FrameLists[i]) \in Nat \ {0}
  BY <1>1, SeqFacts, NoneWithoutFrames
<1> QED  BY <1>1, <1>2 DEF OwnFrameLast

(* The table of frames before its first row.                               *)
LEMMA FrameRowsStart ==
    ASSUME SourceInv, TablesInv, phase # "run", OwnFrameLast, FramesMatch(frames.pc),
           NoFrameRows
    PROVE  FrameRows(0)
<1>1. IsSeq(<< >>) /\ IsSeq(<<0>>)
  <2>1. << >> \in Seq({0}) /\ <<0>> \in Seq({0})
    OBVIOUS
  <2> QED  BY <2>1 DEF IsSeq
<1>2. /\ Ends[0] = 0 /\ Len(frames.pc) \in Nat
      /\ \A i \in 0..Len(frames.pc) : Ends[i] \in Nat
  BY EndsFacts
<1>3. 1 =< Len(frames.pc) => 0 < Ends[1]
  <2> SUFFICES ASSUME 1 =< Len(frames.pc) PROVE 0 < Ends[1]
    OBVIOUS
  <2>1. 1 \in 1..Len(frames.pc)
    BY <1>2
  <2>2. Ends[1] = Ends[0] + Len(FrameLists[1]) /\ Len(FrameLists[1]) \in Nat \ {0}
    BY <2>1, EndsFacts, OwnFrames
  <2> QED  BY <1>2, <2>2
<1>4. /\ IsSeq(frames.func) /\ Len(frames.func) = 0
      /\ IsSeq(frames.offsets) /\ Len(frames.offsets) = 1 /\ frames.offsets[1] = 0
  BY <1>1 DEF NoFrameRows
<1>5. \A i \in 1..Len(frames.pc) : \A j \in 1..Len(FrameLists[i]) : ~(Ends[i - 1] + j =< 0)
  <2> SUFFICES ASSUME NEW i \in 1..Len(frames.pc), NEW j \in 1..Len(FrameLists[i])
               PROVE  ~(Ends[i - 1] + j =< 0)
    OBVIOUS
  <2>1. Ends[i - 1] \in Nat /\ j \in Nat \ {0}
    BY <1>2, EndsFacts
  <2> QED  BY <2>1
<1>6. \A i \in 1..1 : frames.offsets[i] = Ends[i - 1]
  BY <1>2, <1>4
<1>7. Ends[Len(frames.offsets) - 1] =< 0
  BY <1>2, <1>4
<1> QED  BY <1>2, <1>3, <1>4, <1>5, <1>6, <1>7 DEF FrameRows

(* The frame rows stay when a step leaves their arrays alone.              *)
LEMMA FrameRowsStay ==
    ASSUME SourceInv, TablesInv, [Next]_vars,
           frames'.pc = frames.pc, frames'.func = frames.func,
           frames'.offsets = frames.offsets, resolved' = resolved,
           NEW m \in Nat, FrameRows(m)
    PROVE  FrameRows(m)'
<1>1. \A i, s : Means(strs, i, s) => Means(strs', i, s)
  BY MeansStays
<1>2. FrameLists' = FrameLists
  BY DEF FrameLists
<1>3. StackFrames(frames.pc)' = StackFrames(frames.pc)
  BY DEF StackFrames
<1>4. Ends' = Ends
  BY <1>2, <1>3 DEF Ends
<1>5. \A i \in 1..Len(frames.pc) : \A j \in 1..Len(FrameLists[i]) :
          Ends[i - 1] + j =< m =>
              Means(strs', frames.func[Ends[i - 1] + j],
                    FuncName(resolved[frames.pc[i]], FrameLists[i][j]))
  BY <1>1 DEF FrameRows
<1>6. \A i, j : FuncName(resolved[frames.pc[i]], FrameLists[i][j])'
                    = FuncName(resolved[frames.pc[i]], FrameLists[i][j])
  BY <1>2
<1> QED  BY <1>2, <1>4, <1>5, <1>6 DEF FrameRows

(* A row of the frame loop adds a name, and an offset when the frame is the*)
(* program counter's own.                                                  *)
LEMMA FrameRowsNext ==
    ASSUME SourceInv, TablesInv, OwnFrameLast, FramesMatch(frames.pc), FrameRow,
           NEW m \in Nat, at = m + 1, FrameRows(m)
    PROVE  FrameRows(m + 1)'
<1> DEFINE n    == Len(frames.pc)
           ls   == FrameLists
           E    == Ends
           c    == Len(frames.offsets)
           f    == StackFrames(frames.pc)[at]
           name == FuncName(resolved[frames.pc[c]], f)
<1>1. /\ phase = "frames" /\ at =< Len(StackFrames(frames.pc))
      /\ strs' = InsertAll(strs, <<f.symbol, name>>)
      /\ frames'.pc = frames.pc
      /\ frames'.func = Append(frames.func, Index(strs', name))
      /\ frames'.offsets = IF f.is_inline THEN frames.offsets ELSE Append(frames.offsets, at)
  BY FrameRowFacts DEF TablesInv
<1>2. resolved' = resolved /\ phase # "run"
  BY LaterSteps DEF Later
<1>3. FrameLists' = ls /\ Ends' = E
  <2>1. FrameLists' = FrameLists
    BY <1>1, <1>2 DEF FrameLists
  <2>2. StackFrames(frames.pc)' = StackFrames(frames.pc)
    BY <1>1, <1>2 DEF StackFrames
  <2>3. Ends' = Ends
    BY <2>1, <2>2 DEF Ends
  <2> QED  BY <2>1, <2>3
<1>4. [Next]_vars
  BY DEF Next
<1>5. /\ \A i, s : Means(strs, i, s) => Means(strs', i, s)
      /\ Means(strs', Index(strs', name), name)
  <2>1. PICK keys : keys = <<f.symbol, name>>
    OBVIOUS
  <2>2. Len(keys) = 2 /\ keys[2] = name /\ 2 \in 1..Len(keys)
    BY <2>1
  <2>3. TableInv(strs') /\ \A k \in 1..Len(keys) : keys[k] \in DOMAIN strs'.lookup
    BY <1>1, <2>1, <2>2, InsertAllInv DEF TablesInv
  <2>4. name \in DOMAIN strs'.lookup
    BY <2>2, <2>3
  <2> HIDE DEF name
  <2> QED  BY <1>4, <2>3, <2>4, MeansStays, IndexMeans
<1>6. /\ E[0] = 0 /\ n \in Nat
      /\ \A i \in 0..n : E[i] \in Nat
      /\ \A i, j \in 0..n : i =< j => E[i] =< E[j]
      /\ Len(StackFrames(frames.pc)) = E[n]
      /\ \A i \in 1..n :
             /\ Len(ls[i]) \in Nat
             /\ E[i] = E[i - 1] + Len(ls[i])
             /\ \A j \in 1..Len(ls[i]) : StackFrames(frames.pc)[E[i - 1] + j] = ls[i][j]
  BY <1>2, EndsFacts
<1>7. /\ IsSeq(frames.func) /\ Len(frames.func) = m
      /\ IsSeq(frames.offsets) /\ c \in 1..(n + 1)
      /\ \A i \in 1..c : frames.offsets[i] = E[i - 1]
      /\ E[c - 1] =< m /\ (c =< n => m < E[c])
      /\ \A i \in 1..n : \A j \in 1..Len(ls[i]) :
             E[i - 1] + j =< m =>
                 Means(strs, frames.func[E[i - 1] + j],
                       FuncName(resolved[frames.pc[i]], ls[i][j]))
  BY DEF FrameRows
<1>8. \A i \in 1..n :
          /\ Len(ls[i]) \in Nat \ {0}
          /\ \A j \in 1..Len(ls[i]) : ls[i][j].is_inline <=> j # Len(ls[i])
  BY <1>2, OwnFrames
<1> HIDE DEF n, ls, E, c
<1>9. c \in 1..n /\ c - 1 \in 0..n
  <2>1. m + 1 =< E[n]
    BY <1>1, <1>6
  <2>2. c # n + 1
    BY <1>6, <1>7, <2>1
  <2> QED  BY <1>6, <1>7, <2>2
<1>10. PICK h \in 1..Len(ls[c]) : E[c - 1] + h = m + 1
  <2> DEFINE h == (m + 1) - E[c - 1]
  <2>1. E[c - 1] \in Nat /\ E[c - 1] =< m /\ m < E[c] /\ E[c] = E[c - 1] + Len(ls[c])
        /\ Len(ls[c]) \in Nat
    BY <1>6, <1>7, <1>9
  <2>2. h \in 1..Len(ls[c]) /\ E[c - 1] + h = m + 1
    BY <2>1
  <2> QED  BY <2>2
<1>11. f = ls[c][h] /\ (f.is_inline <=> h # Len(ls[c]))
  <2>1. f = ls[c][h]
    BY <1>6, <1>9, <1>10
  <2> HIDE DEF f
  <2> QED  BY <1>8, <1>9, <1>10, <2>1
<1>12. name = FuncName(resolved[frames.pc[c]], ls[c][h])
  BY <1>11
<1> DEFINE x == Index(strs', name)
<1> HIDE DEF f, name, x
<1>13. /\ IsSeq(frames'.func) /\ Len(frames'.func) = m + 1
       /\ \A i \in 1..m : frames'.func[i] = frames.func[i]
       /\ frames'.func[m + 1] = x
  BY <1>1, <1>7, SeqAppend DEF x
<1>14. ASSUME NEW i \in 1..n, NEW j \in 1..Len(ls[i]), E[i - 1] + j =< m + 1
       PROVE  Means(strs', frames'.func[E[i - 1] + j],
                    FuncName(resolved[frames.pc[i]], ls[i][j]))
  <2>0. /\ E[i - 1] \in Nat /\ E[i] \in Nat /\ E[i] = E[i - 1] + Len(ls[i])
        /\ Len(ls[i]) \in Nat /\ i \in 0..n /\ i - 1 \in 0..n /\ c \in 0..n
    BY <1>6, <1>9
  <2>1. CASE E[i - 1] + j =< m
    <3>1. E[i - 1] + j \in 1..m
      BY <2>0, <2>1
    <3>2. Means(strs, frames.func[E[i - 1] + j], FuncName(resolved[frames.pc[i]], ls[i][j]))
      BY <1>7, <2>1
    <3> QED  BY <1>5, <1>13, <3>1, <3>2
  <2>2. CASE E[i - 1] + j = m + 1
    <3>1. ~(i < c)
      <4> SUFFICES ASSUME i < c PROVE FALSE
        OBVIOUS
      <4>1. i =< c - 1
        BY <1>9
      <4>2. E[i] =< E[c - 1] /\ E[c - 1] =< m /\ E[c - 1] \in Nat
        BY <1>6, <1>7, <1>9, <2>0, <4>1
      <4> QED  BY <2>0, <2>2, <4>2
    <3>2. ~(i > c)
      <4> SUFFICES ASSUME i > c PROVE FALSE
        OBVIOUS
      <4>1. c =< i - 1
        BY <1>9
      <4>2. E[c] =< E[i - 1]
        BY <1>6, <2>0, <4>1
      <4>3. m < E[c] /\ E[c] \in Nat
        BY <1>6, <1>7, <1>9, <2>0
      <4> QED  BY <2>0, <2>2, <4>2, <4>3
    <3>3. i = c
      BY <1>9, <3>1, <3>2
    <3>4. j = h
      BY <1>10, <2>0, <2>2, <3>3
    <3>5. FuncName(resolved[frames.pc[i]], ls[i][j]) = name
      BY <1>12, <3>3, <3>4
    <3>6. frames'.func[E[i - 1] + j] = x
      BY <1>13, <2>2
    <3> QED  BY <1>5, <3>5, <3>6 DEF x
  <2>3. E[i - 1] + j =< m \/ E[i - 1] + j = m + 1
    <3>1. PICK e \in Nat : e = E[i - 1]
      BY <2>0
    <3>2. j \in Nat /\ e + j =< m + 1
      BY <1>14, <2>0, <3>1
    <3>3. e + j =< m \/ e + j = m + 1
      BY <3>2
    <3> QED  BY <3>1, <3>3
  <2> QED  BY <2>1, <2>2, <2>3
<1>15. LET d == Len(frames'.offsets)
       IN  /\ IsSeq(frames'.offsets) /\ d \in 1..(n + 1)
           /\ \A i \in 1..d : frames'.offsets[i] = E[i - 1]
           /\ E[d - 1] =< m + 1 /\ (d =< n => m + 1 < E[d])
  <2>0. /\ E[c - 1] \in Nat /\ E[c - 1] =< m /\ E[c] = E[c - 1] + Len(ls[c])
        /\ Len(ls[c]) \in Nat
    BY <1>6, <1>7, <1>9
  <2>1. CASE f.is_inline
    <3>1. frames'.offsets = frames.offsets /\ Len(frames'.offsets) = c
      BY <1>1, <2>1 DEF c
    <3>2. m + 1 < E[c]
      BY <1>10, <1>11, <2>0, <2>1
    <3>3. E[c - 1] =< m + 1
      BY <2>0
    <3> QED  BY <1>7, <3>1, <3>2, <3>3
  <2>2. CASE ~f.is_inline
    <3>1. /\ IsSeq(frames'.offsets) /\ Len(frames'.offsets) = c + 1
          /\ \A i \in 1..c : frames'.offsets[i] = frames.offsets[i]
          /\ frames'.offsets[c + 1] = at
      <4>1. frames'.offsets = Append(frames.offsets, at)
        BY <1>1, <2>2
      <4> QED  BY <1>7, <4>1, SeqAppend DEF c
    <3>2. at = E[c]
      BY <1>10, <1>11, <2>0, <2>2
    <3>3. \A i \in 1..(c + 1) : frames'.offsets[i] = E[i - 1]
      <4>1. \A i \in 1..(c + 1) : i \in 1..c \/ (i = c + 1 /\ i - 1 = c)
        BY <1>9
      <4> QED  BY <1>7, <3>1, <3>2, <4>1
    <3>4. (c + 1) - 1 = c /\ c + 1 \in 1..(n + 1)
      BY <1>6, <1>9
    <3>5. c + 1 =< n => m + 1 < E[c + 1]
      <4> SUFFICES ASSUME c + 1 =< n PROVE m + 1 < E[c + 1]
        OBVIOUS
      <4>1. c + 1 \in 1..n /\ (c + 1) - 1 = c
        BY <1>6, <1>9
      <4>2. E[c + 1] = E[c] + Len(ls[c + 1]) /\ Len(ls[c + 1]) \in Nat \ {0}
        BY <1>6, <1>8, <4>1
      <4>3. E[c] = m + 1
        BY <3>2
      <4>4. PICK a \in Nat \ {0} : a = Len(ls[c + 1])
        BY <4>2
      <4>5. E[c + 1] = (m + 1) + a
        BY <4>2, <4>3, <4>4
      <4> QED  BY <4>5
    <3>6. E[c] =< m + 1
      BY <3>2
    <3> QED  BY <3>1, <3>3, <3>4, <3>5, <3>6
  <2> QED  BY <2>1, <2>2
<1>16. Len(frames'.pc) = n
  BY <1>1 DEF n
<1>17. \A i \in 1..n : \A j \in 1..Len(ls[i]) :
           E[i - 1] + j =< m + 1 =>
               Means(strs', frames'.func[E[i - 1] + j],
                     FuncName(resolved'[frames'.pc[i]], ls[i][j]))
  BY <1>1, <1>2, <1>14
<1> QED  BY <1>3, <1>13, <1>15, <1>16, <1>17 DEF FrameRows

(* The table of frames is empty at the start.                              *)
LEMMA FramesInvInit == ASSUME Init PROVE FramesInv
BY DEF Init, FramesInv, NoFrameRows, NoFrames, BeforeFrames

(* The frames stay as many as the sanity check has found.                  *)
LEMMA FramesMatchStep ==
    ASSUME SourceInv, TablesInv, FramesInv, [Next]_vars
    PROVE  (phase \notin {"run", "failed"} => FramesMatch(frames.pc))'
<1>1. CASE MakeOutputRecord
  <2>1. PICK pcs : /\ frames' = [frames EXCEPT !.pc = pcs]
                   /\ phase' = IF FramesMatch(pcs) /\ ObjectFramesMatch(pcs)
                                THEN "objects" ELSE "failed"
    BY <1>1 DEF MakeOutputRecord
  <2>2. frames'.pc = pcs /\ resolved' = resolved
    BY <1>1, <2>1 DEF TablesInv, TablesShape, MakeOutputRecord
  <2>3. FramesMatch(frames.pc)' <=> FramesMatch(pcs)
    BY <2>2 DEF FramesMatch, StackFrames
  <2> QED  BY <2>1, <2>3
<1>2. CASE phase # "run"
  <2>1. /\ frames'.pc = frames.pc /\ resolved' = resolved
        /\ phase = "failed" => phase' = "failed"
    <3>1. CASE RowsKept /\ Moves
      BY <1>2, <3>1 DEF RowsKept, Moves
    <3>2. CASE FrameRow \/ TypeRow \/ MemberRow \/ EventRow
      <4>1. resolved' = resolved /\ phase # "failed"
        BY <3>2, LaterSteps, FrameRowFacts, TypeRowFacts, MemberRowFacts, EventRowFacts
           DEF Later, TablesInv
      <4>2. frames'.pc = frames.pc
        BY <3>2, FrameRowFacts, TypeRowFacts, MemberRowFacts, EventRowFacts DEF TablesInv
      <4> QED  BY <4>1, <4>2
    <3> QED  BY <3>1, <3>2, StepShapes
  <2>2. FramesMatch(frames.pc)' <=> FramesMatch(frames.pc)
    BY <2>1 DEF FramesMatch, StackFrames
  <2> QED  BY <1>2, <2>1, <2>2 DEF FramesInv
<1>3. CASE phase = "run" /\ ~ MakeOutputRecord
  <2>1. phase' = "run"
    BY <1>3 DEF Next, Record, ObjectRow, FrameRow, TypeRow, MemberRow, EventRow, InLoop,
                SizesStep, Loops, EndLoop, Ended, vars
  <2> QED  BY <2>1
<1> QED  BY <1>1, <1>2, <1>3

(* Every step keeps the table of frames right.                             *)
LEMMA FramesInvStep ==
    ASSUME SourceInv, TablesInv, BoundsInv, FramesInv, [Next]_vars
    PROVE  FramesInv'
<1>0. (phase \notin {"run", "failed"} => FramesMatch(frames.pc))'
  BY FramesMatchStep
<1>1. CASE RowsKept /\ Moves
  <2>1. phase' \in BeforeFrames => phase \in BeforeFrames
    <3>1. phase \in Phases
      BY DEF SourceInv
    <3> QED  BY <1>1, <3>1 DEF Moves, BeforeFrames, Phases
  <2>2. phase' \in BeforeFrames => NoFrameRows'
    BY <1>1, <2>1 DEF FramesInv, RowsKept, NoFrameRows
  <2>3. ASSUME OwnFrameLast', NEW m \in Nat, phase' \notin BeforeFrames, FramesWritten(m)'
        PROVE  FrameRows(m)'
    <3>1. phase # "run"
      BY <1>1, <2>3 DEF Moves, BeforeFrames
    <3>2. /\ resolved' = resolved /\ frames'.pc = frames.pc
          /\ frames'.func = frames.func /\ frames'.offsets = frames.offsets
      BY <1>1, <3>1 DEF RowsKept
    <3>3. OwnFrameLast /\ FramesMatch(frames.pc)
      <4>1. OwnFrameLast
        BY <2>3, <3>2 DEF OwnFrameLast
      <4>2. phase # "failed"
        BY <1>1, <2>3 DEF Moves, BeforeFrames
      <4> QED  BY <3>1, <4>1, <4>2 DEF FramesInv
    <3>4. FramesWritten(m)
      BY <1>1, <2>3, WrittenMoves
    <3>5. FrameRows(m)
      <4>1. CASE phase \notin BeforeFrames
        BY <3>3, <3>4, <4>1 DEF FramesInv
      <4>2. CASE phase \in BeforeFrames
        <5>1. m = 0
          BY <3>4, <4>2 DEF FramesWritten, Written, BeforeFrames, AfterFrames, AfterTypes,
                  AfterMembers, AfterEvents
        <5> QED  BY <3>1, <3>3, <4>2, <5>1, FrameRowsStart DEF FramesInv
      <4> QED  BY <4>1, <4>2
    <3> QED  BY <3>2, <3>5, FrameRowsStay
  <2> QED  BY <1>0, <2>2, <2>3 DEF FramesInv
<1>2. CASE FrameRow
  <2>1. /\ phase = "frames" /\ phase' = phase /\ at' = at + 1
        /\ resolved' = resolved /\ at \in Nat \ {0}
    BY <1>2, FrameRowFacts, LaterSteps DEF TablesInv, Later, SourceInv
  <2>2. PICK m \in Nat : at = m + 1
    <3>1. at - 1 \in Nat /\ at = (at - 1) + 1
      BY <2>1
    <3> QED  BY <3>1
  <2>3. ASSUME OwnFrameLast', NEW k \in Nat, FramesWritten(k)'
        PROVE  FrameRows(k)'
    <3>1. k = m + 1
      BY <2>1, <2>2, <2>3 DEF FramesWritten, Written, BeforeFrames, AfterFrames, AfterTypes,
              AfterMembers, AfterEvents
    <3>2. OwnFrameLast /\ FramesMatch(frames.pc)
      <4>1. frames'.pc = frames.pc
        BY <1>2, FrameRowFacts DEF TablesInv
      <4>2. OwnFrameLast
        BY <2>1, <2>3, <4>1 DEF OwnFrameLast
      <4> QED  BY <2>1, <4>2 DEF FramesInv
    <3>3. FrameRows(m)
      BY <2>1, <2>2, <3>2 DEF FramesInv, FramesWritten, Written, BeforeFrames
    <3> QED  BY <1>2, <2>2, <3>1, <3>2, <3>3, FrameRowsNext
  <2> QED  BY <1>0, <2>1, <2>3 DEF FramesInv, BeforeFrames
<1>3. CASE TypeRow \/ MemberRow \/ EventRow
  <2>1. /\ frames' = frames /\ phase' = phase
        /\ phase \in {"types", "members", "events"}
    BY <1>3, TypeRowFacts, MemberRowFacts, EventRowFacts DEF TablesInv
  <2>2. resolved' = resolved
    BY <1>3, LaterSteps DEF Later
  <2>3. ASSUME OwnFrameLast', NEW m \in Nat, FramesWritten(m)'
        PROVE  FrameRows(m)'
    <3>1. OwnFrameLast
      BY <2>1, <2>2, <2>3 DEF OwnFrameLast
    <3>2. StackFrames(frames.pc)' = StackFrames(frames.pc)
      BY <2>1, <2>2 DEF StackFrames
    <3>3. FramesWritten(m)
      BY <2>1, <2>3, <3>2 DEF FramesWritten, Written
    <3>4. FrameRows(m)
      BY <2>1, <3>1, <3>3 DEF FramesInv, BeforeFrames
    <3> QED  BY <2>1, <2>2, <3>4, FrameRowsStay
  <2> QED  BY <1>0, <2>1, <2>3 DEF FramesInv, BeforeFrames
<1> QED  BY <1>1, <1>2, <1>3, StepShapes

(* A reader who follows pc_id to the slice of func between two offsets     *)
(* gets the frames of that program counter.                                *)
LEMMA PcDecodes ==
    ASSUME SourceInv, TablesInv, FramesInv, OwnFrameLast, phase = "done",
           NEW v \in TracePcs
    PROVE  Decode(Slice(frames.func, frames.offsets, Lookup(frames.pc)[v])) =
               [j \in DOMAIN resolved[v].frames |-> FuncName(resolved[v], resolved[v].frames[j])]
<1> DEFINE n == Len(frames.pc)
           E == Ends
           m == Len(StackFrames(frames.pc))
           d == Len(frames.offsets)
<1>1. /\ E[0] = 0 /\ n \in Nat
      /\ \A i \in 0..n : E[i] \in Nat
      /\ \A i, j \in 0..n : i =< j => E[i] =< E[j]
      /\ m = E[n]
      /\ \A i \in 1..n :
             Len(FrameLists[i]) \in Nat /\ E[i] = E[i - 1] + Len(FrameLists[i])
  BY EndsFacts
<1>2. m \in Nat
  BY <1>1
<1>3. FrameRows(m)
  BY <1>2 DEF FramesInv, FramesWritten, Written, BeforeFrames, AfterFrames, AfterTypes,
              AfterMembers, AfterEvents
<1>4. /\ IsSeq(frames.func) /\ Len(frames.func) = m
      /\ d \in 1..(n + 1)
      /\ \A i \in 1..d : frames.offsets[i] = E[i - 1]
      /\ d =< n => m < E[d]
      /\ \A i \in 1..n : \A j \in 1..Len(FrameLists[i]) :
             E[i - 1] + j =< m =>
                 Means(strs, frames.func[E[i - 1] + j],
                       FuncName(resolved[frames.pc[i]], FrameLists[i][j]))
  BY <1>3 DEF FrameRows
<1> HIDE DEF n, E, m, d
<1>5. d = n + 1
  <2>1. ASSUME d =< n PROVE FALSE
    <3>1. d \in 0..n /\ n \in 0..n
      BY <1>1, <1>4, <2>1
    <3>2. E[d] =< E[n] /\ m < E[d] /\ E[d] \in Nat
      BY <1>1, <1>4, <2>1, <3>1
    <3> QED  BY <1>1, <1>2, <3>2
  <2> QED  BY <1>1, <1>4, <2>1
<1>6. PICK c \in 1..n : frames.pc[c] = v /\ Lookup(frames.pc)[v] = c - 1
  BY LookupFacts DEF TablesInv, ColumnsInv, n
<1>7. FrameLists[c] = resolved[v].frames
  BY <1>6, FrameListsFacts DEF n
<1>8. PICK l : l = FrameLists[c]
  OBVIOUS
<1>9. PICK a \in Nat, k \in Nat : a = E[c - 1] /\ k = Len(l)
  <2>1. E[c - 1] \in Nat /\ Len(l) \in Nat
    BY <1>1, <1>8
  <2> QED  BY <2>1
<1>10. DOMAIN l = 1..k /\ a + k = E[c] /\ a + k =< m
  <2>1. DOMAIN l = 1..k
    BY <1>6, <1>8, <1>9, FrameListsFacts, SeqFacts DEF n
  <2>2. E[c] =< E[n]
    <3>1. c \in 0..n /\ n \in 0..n /\ c =< n
      BY <1>1
    <3> QED  BY <1>1, <3>1
  <2> QED  BY <1>1, <1>8, <1>9, <2>1, <2>2
<1>11. Slice(frames.func, frames.offsets, c - 1) = SubSeq(frames.func, a + 1, a + k)
  <2>1. (c - 1) + 1 = c /\ (c - 1) + 2 = c + 1 /\ c \in 1..d /\ c + 1 \in 1..d /\ (c + 1) - 1 = c
    BY <1>1, <1>5
  <2>2. frames.offsets[c] = a /\ frames.offsets[c + 1] = a + k
    BY <1>4, <1>9, <1>10, <2>1
  <2> QED  BY <2>1, <2>2 DEF Slice
<1>12. PICK x : x = [j \in 1..k |-> FuncName(resolved[v], l[j])]
  OBVIOUS
<1>13. \A j \in 1..k : a + j \in 1..Len(frames.func) /\ StringAt(strs, frames.func[a + j]) = x[j]
  <2> SUFFICES ASSUME NEW j \in 1..k
               PROVE  a + j \in 1..Len(frames.func) /\ StringAt(strs, frames.func[a + j]) = x[j]
    OBVIOUS
  <2>1. j \in 1..Len(FrameLists[c]) /\ E[c - 1] + j =< m
    BY <1>2, <1>8, <1>9, <1>10
  <2>2. Means(strs, frames.func[a + j], FuncName(resolved[v], l[j]))
    BY <1>4, <1>6, <1>8, <1>9, <2>1
  <2>3. a + j \in 1..m
    BY <1>2, <1>9, <2>1
  <2> QED  BY <1>4, <1>12, <2>2, <2>3 DEF Means
<1>14. Decode(SubSeq(frames.func, a + 1, a + k)) = [j \in 1..k |-> x[j]]
  <2>1. PICK fn : fn = frames.func
    OBVIOUS
  <2>2. a \in Nat /\ k \in Nat /\ IsSeq(fn) /\ Reads(fn, a, k, x)
    BY <1>4, <1>13, <2>1 DEF Reads
  <2>3. Decode(SubSeq(fn, a + 1, a + k)) = [j \in 1..k |-> x[j]]
    BY ONLY <2>2, PartDecodes
  <2> QED  BY <2>1, <2>3
<1>15. [j \in 1..k |-> x[j]] = [j \in DOMAIN l |-> FuncName(resolved[v], l[j])]
  BY <1>10, <1>12
<1> QED  BY <1>6, <1>7, <1>8, <1>11, <1>14, <1>15

(* Once the report is written, decoding each event's stack gives the names *)
(* cpptrace and dladdr know.                                               *)
LEMMA StacksDecode ==
    ASSUME SourceInv, TablesInv, TypesInv, RowsInv, FramesInv, OwnFrameLast
    PROVE  CallStacks
<1> SUFFICES ASSUME phase = "done", NEW k \in 1..Len(log)
             PROVE  DecodedStack(k) =
                        FlattenSeq([i \in DOMAIN info[k].trace |->
                            LET r == resolved[info[k].trace[i]]
                            IN  [j \in DOMAIN r.frames |-> FuncName(r, r.frames[j])]])
  BY DEF CallStacks, Done
<1> DEFINE tr == info[k].trace
           xs == [i \in DOMAIN pc_ids[k] |->
                     Decode(Slice(frames.func, frames.offsets, pc_ids[k][i]))]
           ys == [i \in DOMAIN tr |->
                     LET r == resolved[tr[i]]
                     IN  [j \in DOMAIN r.frames |-> FuncName(r, r.frames[j])]]
<1>1. pc_ids[k] = [i \in DOMAIN tr |-> Lookup(frames.pc)[tr[i]]]
  BY AllWritten DEF EventRows
<1>2. \A i \in DOMAIN tr : tr[i] \in TracePcs
  <2>1. Range(tr) \subseteq TracePcs
    BY InfoFacts
  <2> QED  BY <2>1 DEF Range
<1> HIDE DEF tr
<1>3. ASSUME NEW i \in DOMAIN tr
      PROVE  Decode(Slice(frames.func, frames.offsets, pc_ids[k][i])) =
                 [j \in DOMAIN resolved[tr[i]].frames |->
                     FuncName(resolved[tr[i]], resolved[tr[i]].frames[j])]
  <2>1. pc_ids[k][i] = Lookup(frames.pc)[tr[i]] /\ tr[i] \in TracePcs
    BY <1>1, <1>2
  <2> QED  BY <2>1, PcDecodes
<1>4. xs = ys
  <2>1. DOMAIN pc_ids[k] = DOMAIN tr
    BY <1>1
  <2> QED  BY <1>3, <2>1
<1>5. DecodedStack(k) = FlattenSeq(xs)
  BY DEF DecodedStack
<1> HIDE DEF xs, ys
<1>6. FlattenSeq(xs) = FlattenSeq(ys)
  BY <1>4
<1> QED  BY Zenon, <1>5, <1>6 DEF ys, tr

(* The call stack of an event, decoded through pc_id, offsets and func,    *)
(* names what cpptrace and dladdr know of the recorded return addresses,   *)
(* as long as cpptrace puts each function's own frame last.                *)
THEOREM RecordStacks == Spec => [](OwnFrameLast => CallStacks)
<1> DEFINE I == /\ SourceInv /\ TablesInv /\ BoundsInv /\ TypesInv /\ RowsInv
                /\ FramesInv
<1>1. Init => I
  BY SourceInvInit, TablesInvInit, BoundsInvInit, TypesInvInit, RowsInvInit, FramesInvInit
<1>2. I /\ [Next]_vars => I'
  BY SourceInvStep, TablesInvStep, BoundsInvStep, TypesInvStep, RowsInvStep, FramesInvStep
<1>3. I => (OwnFrameLast => CallStacks)
  BY StacksDecode
<1> QED  BY <1>1, <1>2, <1>3, PTL DEF Spec
=============================================================================
