-------------------------- MODULE ContainersProofs --------------------------
(***************************************************************************)
(* The containers of the profiler, for any strings, keys, hashes and sizes *)
(* of a block or an index.                                                 *)
(*                                                                         *)
(* The id stores: the views that sv_store hands out stay what they were    *)
(* and never overlap, and the ids are ids of the strings they were asked   *)
(* for.  StoreInv is about the blocks alone; a view is Inside when it lies *)
(* in the used part of a block, and CharsAt is what it reads there.        *)
(* Adding a string only appends to that part (AddedFacts), so a view stays *)
(* inside and reads the same, and the new one begins where the others have *)
(* ended.  IInv adds what save relies on: the view and id saved last       *)
(* belong to each other, and so do the entries of the map of               *)
(* unique_id_store.                                                        *)
(*                                                                         *)
(* The hash tables: Indexed says that the index leads to the values at     *)
(* some places, and each operation is shown to keep it, or to leave a      *)
(* table that has no index.  A search relies on KeysApart (no two values   *)
(* have one key), AtDistance (a bucket is as far from its value's home as  *)
(* it says), OneEach (each value has one bucket) and NoneAhead (no bucket  *)
(* is ahead of a poorer one, and some bucket is empty or at home, so that  *)
(* the order has a beginning in the ring).  TableInv is the invariant of   *)
(* every call, the failing ones too.  For the step to FlatMap a table is   *)
(* the set of its entries (EntriesOf), which is one map (IsMap): what a    *)
(* call does to that set says which step it is (TableRefinesMap).          *)
(*                                                                         *)
(* string_table: given what its two tables are as maps and what its views  *)
(* read, each call is a call of StringTableSpec (StringTableRefines).      *)
(***************************************************************************)
EXTENDS IdStores, HashTable, StringTableImpl, SequenceLemmas, SequenceTheorems, TLAPS

BlockType == [capacity : Nat, used : Seq(Nat)]
ViewType  == [block : Nat, first : Nat, size : Nat]

Fitting(b) == Len(b.used) =< b.capacity

StoreInv ==
    /\ blocks \in Seq(BlockType)
    /\ \A i \in 1..Len(blocks) : Fitting(blocks[i])

Inside(bs, v) ==
    v # NullView =>
        /\ v.block \in 1..Len(bs)
        /\ v.first >= 1
        /\ v.first + v.size - 1 =< Len(bs[v.block].used)

CharsAt(bs, v) ==
    IF v = NullView THEN << >>
    ELSE SubSeq(bs[v.block].used, v.first, v.first + v.size - 1)

-----------------------------------------------------------------------------
LEMMA CharsAreNoNull == ASSUME NEW s \in Seq(Nat) PROVE s # NullSv
<1>1. SUFFICES ASSUME s = NullSv PROVE FALSE
  OBVIOUS
<1>2. Len(s) = 1 /\ s[1] = -1
  BY <1>1 DEF NullSv
<1>3. s[1] \in Nat
  BY <1>2, ElementOfSeq
<1> QED  BY <1>2, <1>3

LEMMA MaxIsAbove ==
    ASSUME NEW m \in Nat, NEW n \in Nat
    PROVE  /\ Max({m, n}) \in Nat
           /\ Max({m, n}) >= m
<1>1. \E x \in {m, n} : \A y \in {m, n} : x >= y
  <2>1. CASE m >= n  BY <2>1
  <2>2. CASE n >= m  BY <2>2
  <2> QED  BY <2>1, <2>2
<1>2. Max({m, n}) \in {m, n} /\ \A y \in {m, n} : Max({m, n}) >= y
  BY <1>1 DEF Max
<1> QED  BY <1>2

(* What is read from the part of a block that was used before.             *)
LEMMA ReadBefore ==
    ASSUME NEW s \in Seq(Nat), NEW t \in Seq(Nat), NEW m \in Nat \ {0}, NEW n \in Int,
           n =< Len(s)
    PROVE  SubSeq(s \o t, m, n) = SubSeq(s, m, n)
<1>1. CASE n < m
  BY <1>1, SubSeqEmpty
<1>2. CASE m =< n
  <2>1. m \in 1..Len(s) /\ n \in 1..Len(s)
    BY <1>2, LenProperties
  <2> QED  BY <2>1, SubSeqOfConcat1
<1> QED  BY <1>1, <1>2

(* What is read from the part just appended.                               *)
LEMMA ReadAppended ==
    ASSUME NEW s \in Seq(Nat), NEW t \in Seq(Nat)
    PROVE  SubSeq(s \o t, Len(s) + 1, Len(s) + 1 + Len(t) - 1) = t
<1> DEFINE u == SubSeq(s \o t, Len(s) + 1, Len(s) + 1 + Len(t) - 1)
<1>1. /\ Len(s) \in Nat /\ Len(t) \in Nat
      /\ s \o t \in Seq(Nat) /\ Len(s \o t) = Len(s) + Len(t)
      /\ \A i \in 1..(Len(s) + Len(t)) :
             (s \o t)[i] = IF i <= Len(s) THEN s[i] ELSE t[i - Len(s)]
  BY ConcatProperties, LenProperties
<1>2. \A i \in (Len(s) + 1)..(Len(s) + 1 + Len(t) - 1) : (s \o t)[i] \in Nat
  BY <1>1, ElementOfSeq
<1>3. /\ u \in Seq(Nat)
      /\ Len(u) = IF Len(s) + 1 <= Len(s) + 1 + Len(t) - 1
                  THEN Len(s) + 1 + Len(t) - 1 - (Len(s) + 1) + 1 ELSE 0
      /\ \A i \in 1..(Len(s) + 1 + Len(t) - 1 - (Len(s) + 1) + 1) :
             u[i] = (s \o t)[Len(s) + 1 + i - 1]
  <2> HIDE DEF u
  <2>1. Len(s) + 1 \in Int /\ Len(s) + 1 + Len(t) - 1 \in Int
    BY <1>1
  <2> QED  BY <1>2, <2>1, SubSeqProperties DEF u
<1> HIDE DEF u
<1>4. Len(u) = Len(t)
  BY <1>1, <1>3
<1>5. ASSUME NEW i \in 1..Len(u) PROVE u[i] = t[i]
  <2>1. u[i] = (s \o t)[Len(s) + i]
    <3>1. Len(s) + 1 + Len(t) - 1 - (Len(s) + 1) + 1 = Len(t) /\ Len(s) + 1 + i - 1 = Len(s) + i
      BY <1>1, <1>4
    <3> QED  BY <1>3, <1>4, <3>1
  <2>2. Len(s) + i \in 1..(Len(s) + Len(t)) /\ ~(Len(s) + i <= Len(s))
        /\ Len(s) + i - Len(s) = i
    BY <1>1, <1>4
  <2> QED  BY <1>1, <2>1, <2>2
<1>6. u = t
  BY <1>3, <1>4, <1>5, SeqEqual
<1> QED  BY <1>6 DEF u

-----------------------------------------------------------------------------
(* bs has the blocks there are, with what they hold, and perhaps more.     *)
Grown(bs) ==
    /\ bs \in Seq(BlockType)
    /\ \A i \in 1..Len(bs) : Fitting(bs[i])
    /\ Len(blocks) =< Len(bs)
    /\ \A i \in 1..Len(blocks) : bs[i] = blocks[i]

LEMMA AppendGrown ==
    ASSUME NEW bs, Grown(bs), StoreInv, NEW n \in Nat
    PROVE  Grown(Append(bs, NewBlock(n)))
<1>1. NewBlock(n) \in BlockType /\ Fitting(NewBlock(n))
  BY DEF NewBlock, BlockType, Fitting
<1>2. Len(bs) \in Nat /\ Len(blocks) \in Nat
  BY LenProperties DEF Grown, StoreInv
<1> QED  BY <1>1, <1>2, AppendProperties DEF Grown

(* The blocks that add has before it, and the one it chooses.              *)
LEMMA AddedIsPlaced ==
    ASSUME StoreInv, NEW key \in Seq(Nat), NEW r \in Added(key)
    PROVE  \E bs : \E i \in 1..Len(bs) :
               /\ Grown(bs)
               /\ Len(key) =< available_space(bs[i])
               /\ r = AddUnsafe(bs, i, key)
<1> DEFINE bs == IF blocks = << >> THEN <<NewBlock(BlockSize)>> ELSE blocks
           n == Max({SvSize(key), BlockSize})
           longer == Append(bs, NewBlock(n))
<1>1. Len(key) \in Nat /\ BlockSize \in Nat /\ SvSize(key) = Len(key)
  BY SvStoreAssumption, CharsAreNoNull, LenProperties DEF SvSize
<1>2. Grown(blocks) /\ Len(blocks) \in Nat
  BY LenProperties DEF Grown, StoreInv
<1>3. Grown(bs) /\ bs # << >>
  <2>1. CASE blocks = << >>
    <3>1. bs = Append(blocks, NewBlock(BlockSize))
      BY <2>1
    <3> QED  BY <1>1, <1>2, <3>1, AppendGrown
  <2> QED  BY <1>2, <2>1
<1>4. n \in Nat /\ n >= Len(key)
  BY <1>1, MaxIsAbove
<1> HIDE DEF bs, n
<1>5. Grown(longer) /\ Len(bs) \in Nat /\ Len(longer) = Len(bs) + 1
      /\ longer[Len(bs) + 1] = NewBlock(n)
  BY <1>3, <1>4, AppendGrown, AppendProperties, LenProperties DEF Grown
<1>6. PICK i \in Tops(bs) :
          r = IF has_space_for(bs[i], key) THEN AddUnsafe(bs, i, key)
                                           ELSE AddUnsafe(longer, Len(longer), key)
  BY DEF Added, bs, n
<1>7. i \in 1..Len(bs)
  BY <1>3, LenProperties DEF Tops, Grown
<1>8. CASE has_space_for(bs[i], key)
  BY <1>1, <1>3, <1>6, <1>7, <1>8 DEF has_space_for
<1>9. CASE ~has_space_for(bs[i], key)
  <2>1. available_space(longer[Len(longer)]) = n
    BY <1>4, <1>5 DEF available_space, NewBlock
  <2>2. Len(longer) \in 1..Len(longer) /\ Len(key) =< available_space(longer[Len(longer)])
    BY <1>1, <1>4, <1>5, <2>1
  <2> QED  BY <1>5, <1>6, <1>9, <2>2
<1> QED  BY <1>8, <1>9

(* sv_store::add: the views given before are left as they are, and the new *)
(* one reads the string that was added and overlaps none of them.          *)
LEMMA AddedFacts ==
    ASSUME StoreInv, NEW key \in Seq(Nat), NEW r \in Added(key), blocks' = r.blocks
    PROVE  /\ StoreInv'
           /\ r.view \in ViewType /\ Inside(blocks', r.view) /\ CharsAt(blocks', r.view) = key
           /\ \A v \in ViewType : Inside(blocks, v) =>
                  /\ Inside(blocks', v)
                  /\ CharsAt(blocks', v) = CharsAt(blocks, v)
                  /\ v # NullView => Disjoint(v, r.view) /\ Disjoint(r.view, v)
<1>1. PICK bs : \E i \in 1..Len(bs) :
          Grown(bs) /\ Len(key) =< available_space(bs[i]) /\ r = AddUnsafe(bs, i, key)
  BY AddedIsPlaced
<1>2. PICK i \in 1..Len(bs) :
          Grown(bs) /\ Len(key) =< available_space(bs[i]) /\ r = AddUnsafe(bs, i, key)
  BY <1>1
<1> DEFINE before == bs[i].used
<1>3. /\ bs \in Seq(BlockType) /\ bs[i] \in BlockType
      /\ before \in Seq(Nat) /\ bs[i].capacity \in Nat
      /\ Len(before) \in Nat /\ Len(key) \in Nat /\ Len(bs) \in Nat /\ Len(blocks) \in Nat
  <2>1. bs \in Seq(BlockType) /\ blocks \in Seq(BlockType)
    BY <1>2 DEF Grown, StoreInv
  <2>2. bs[i] \in BlockType
    BY <2>1, ElementOfSeq
  <2>3. before \in Seq(Nat) /\ bs[i].capacity \in Nat
    BY <2>2 DEF BlockType
  <2> HIDE DEF before
  <2>4. Len(before) \in Nat /\ Len(key) \in Nat /\ Len(bs) \in Nat /\ Len(blocks) \in Nat
    BY <2>1, <2>3, LenProperties
  <2> QED  BY <2>1, <2>2, <2>3, <2>4
<1>4. before \o key \in Seq(Nat) /\ Len(before \o key) = Len(before) + Len(key)
  BY <1>3, ConcatProperties
<1>5. r.blocks = [bs EXCEPT ![i].used = before \o key]
      /\ r.view = View(i, Len(before) + 1, Len(key))
  BY <1>2, CharsAreNoNull DEF AddUnsafe
<1>6. /\ r.view \in ViewType /\ r.view.block = i /\ r.view.first = Len(before) + 1
      /\ r.view.size = Len(key) /\ r.view # NullView
  BY <1>3, <1>5 DEF View, ViewType, NullView
<1> DEFINE b == [bs[i] EXCEPT !.used = before \o key]
<1>7. b \in BlockType /\ b.used = before \o key /\ b.capacity = bs[i].capacity
  BY <1>3, <1>4 DEF BlockType
<1>8. Fitting(b)
  BY <1>2, <1>3, <1>4, <1>7 DEF Fitting, available_space
<1>9. blocks' = [bs EXCEPT ![i] = b]
  BY <1>5
<1> HIDE DEF before, b
<1>10. /\ blocks' \in Seq(BlockType) /\ Len(blocks') = Len(bs)
       /\ \A j \in 1..Len(bs) : blocks'[j] = IF j = i THEN b ELSE bs[j]
  <2>1. /\ [bs EXCEPT ![i] = b] \in Seq(BlockType)
        /\ Len([bs EXCEPT ![i] = b]) = Len(bs)
        /\ \A j \in 1..Len(bs) : [bs EXCEPT ![i] = b][j] = IF j = i THEN b ELSE bs[j]
    BY <1>3, <1>7, ExceptSeq
  <2> QED  BY <1>9, <2>1
<1>11. StoreInv'
  BY <1>2, <1>8, <1>10 DEF StoreInv, Grown
<1>12. Inside(blocks', r.view)
  BY <1>2, <1>3, <1>4, <1>6, <1>7, <1>10 DEF Inside
<1>13. CharsAt(blocks', r.view) = key
  BY <1>2, <1>3, <1>6, <1>7, <1>10, ReadAppended DEF CharsAt
<1>14. ASSUME NEW v \in ViewType, Inside(blocks, v)
       PROVE  /\ Inside(blocks', v)
              /\ CharsAt(blocks', v) = CharsAt(blocks, v)
              /\ v # NullView => Disjoint(v, r.view) /\ Disjoint(r.view, v)
  <2>1. CASE v = NullView
    BY <2>1 DEF Inside, CharsAt
  <2>2. CASE v # NullView
    <3>1. /\ v.block \in 1..Len(blocks) /\ v.block \in 1..Len(bs)
          /\ v.first \in Nat \ {0} /\ v.size \in Nat
          /\ bs[v.block] = blocks[v.block]
          /\ v.first + v.size - 1 =< Len(bs[v.block].used)
      BY <1>2, <1>3, <1>14, <2>2 DEF Inside, ViewType, Grown
    <3>2. CASE v.block # i
      <4>1. blocks'[v.block] = blocks[v.block] /\ v.block \in 1..Len(blocks')
        BY <1>10, <3>1, <3>2
      <4>2. Inside(blocks', v) /\ CharsAt(blocks', v) = CharsAt(blocks, v)
        BY <2>2, <3>1, <4>1 DEF Inside, CharsAt
      <4>3. Disjoint(v, r.view) /\ Disjoint(r.view, v)
        BY <1>6, <3>2 DEF Disjoint
      <4> QED  BY <4>2, <4>3
    <3>3. CASE v.block = i
      <4>1. blocks'[v.block].used = before \o key /\ bs[v.block].used = before
        BY <1>7, <1>10, <3>1, <3>3 DEF before
      <4>2. Inside(blocks', v) /\ Disjoint(v, r.view) /\ Disjoint(r.view, v)
        <5>1. v.block \in 1..Len(blocks') /\ v.first + v.size =< Len(before) + 1
              /\ v.first + v.size - 1 =< Len(before \o key)
          <6>1. v.first + v.size - 1 =< Len(before) /\ v.block \in 1..Len(blocks')
            BY <1>10, <3>1, <4>1
          <6>2. v.first \in Nat /\ v.size \in Nat /\ Len(before) \in Nat /\ Len(key) \in Nat
            BY <1>3, <3>1
          <6>3. Len(before) =< Len(before \o key)
            BY <1>4, <6>2
          <6>4. v.first + v.size =< Len(before) + 1
            BY <6>1, <6>2
          <6>5. \A n \in Nat : Len(before) =< n => v.first + v.size - 1 =< n
            BY <6>1, <6>2
          <6>6. Len(before \o key) \in Nat
            BY <1>4, LenProperties
          <6> QED  BY <6>1, <6>3, <6>4, <6>5, <6>6
        <5>2. Inside(blocks', v)
          BY <3>1, <4>1, <5>1 DEF Inside
        <5>3. Disjoint(v, r.view) /\ Disjoint(r.view, v)
          BY <1>6, <5>1 DEF Disjoint
        <5> QED  BY <5>2, <5>3
      <4>3. CharsAt(blocks', v) = CharsAt(blocks, v)
        <5>1. v.first + v.size - 1 \in Int /\ v.first + v.size - 1 =< Len(before)
          BY <3>1, <4>1
        <5>2. SubSeq(before \o key, v.first, v.first + v.size - 1)
                  = SubSeq(before, v.first, v.first + v.size - 1)
          BY <1>3, <3>1, <5>1, ReadBefore
        <5> QED  BY <2>2, <3>1, <4>1, <5>2 DEF CharsAt
      <4> QED  BY <4>2, <4>3
    <3> QED  BY <3>2, <3>3
  <2> QED  BY <2>1, <2>2
<1> QED  BY <1>6, <1>11, <1>12, <1>13, <1>14

-----------------------------------------------------------------------------
Key == Seq(Nat) \cup {NullSv}
Result == [key : Key, view : ViewType, id : Nat]

KeysInv ==
    /\ keys \in Seq(ViewType) /\ Len(keys) >= 1
    /\ \A i \in 1..Len(keys) : Inside(blocks, keys[i])
    /\ \A i, j \in 1..Len(keys) :
           (i # j /\ keys[i].size > 0 /\ keys[j].size > 0) => Disjoint(keys[i], keys[j])

IsKey(key, id) == id + 1 \in 1..Len(keys) /\ CharsAt(blocks, keys[id + 1]) = key

(* What a call of save returns for a key is good.                          *)
GoodView(key, v) == Inside(blocks, v) /\ (key # NullSv => CharsAt(blocks, v) = key)
GoodId(key, id)  == id + 1 \in 1..Len(keys) /\ (key # NullSv => IsKey(key, id))

ResultsInv ==
    /\ results \in Seq(Result)
    /\ \A i \in 1..Len(results) :
           /\ GoodView(results[i].key, results[i].view)
           /\ GoodId(results[i].key, results[i].id)
           /\ results[i].key = NullSv => results[i].id = 0

LastId == IF kind = "ord" THEN Len(keys) - 1 ELSE prev_id

PrevInv ==
    /\ kind \in {"ord", "unique"}
    /\ prev \in ViewType /\ Inside(blocks, prev)
    /\ prev_id \in Nat
    /\ IsKey(CharsAt(blocks, prev), LastId)

Known(key, id) == key \in DOMAIN ids /\ ids[key] = id

MapInv ==
    kind = "unique" =>
        /\ \A key \in DOMAIN ids : ids[key] \in Nat /\ IsKey(key, ids[key])
        /\ CharsAt(blocks, prev) # << >> => Known(CharsAt(blocks, prev), prev_id)
        /\ \A i \in 1..Len(results) :
               results[i].key \notin {NullSv, << >>} => Known(results[i].key, results[i].id)

(* In ord_id_store the string saved last is still the previous one.        *)
RunInv ==
    kind = "ord" =>
        /\ Len(results) > 0 /\ results[Len(results)].key # NullSv =>
               /\ results[Len(results)].key = CharsAt(blocks, prev)
               /\ results[Len(results)].id = Len(keys) - 1
        /\ OneIdPerString

IInv == StoreInv /\ KeysInv /\ ResultsInv /\ PrevInv /\ MapInv /\ RunInv

-----------------------------------------------------------------------------
LEMMA InitInv == ASSUME Init PROVE IInv
<1>1. /\ blocks = << >> /\ keys = <<NullView>> /\ prev = NullView /\ prev_id = 0
      /\ ids = [s \in {} |-> 0] /\ results = << >> /\ kind \in {"ord", "unique"}
  BY DEF Init, Fresh
<1>2. NullView \in ViewType /\ \A bs : Inside(bs, NullView) /\ CharsAt(bs, NullView) = << >>
  BY DEF NullView, View, ViewType, Inside, CharsAt
<1>3. StoreInv
  BY <1>1 DEF StoreInv
<1>4. KeysInv
  BY <1>1, <1>2 DEF KeysInv
<1>5. ResultsInv
  BY <1>1 DEF ResultsInv
<1>6. PrevInv
  BY <1>1, <1>2 DEF PrevInv, LastId, IsKey
<1>7. MapInv
  BY <1>1, <1>2 DEF MapInv
<1>8. RunInv
  BY <1>1 DEF RunInv, OneIdPerString
<1> QED  BY <1>3, <1>4, <1>5, <1>6, <1>7, <1>8 DEF IInv

LEMMA ReturnsFacts ==
    ASSUME ResultsInv, NEW key \in Key, NEW v \in ViewType, NEW id \in Nat,
           Returns(key, v, id)
    PROVE  LET x == [key |-> key, view |-> v, id |-> id] IN
           /\ results' \in Seq(Result) /\ Len(results) \in Nat
           /\ Len(results') = Len(results) + 1
           /\ \A i \in 1..Len(results) : results'[i] = results[i]
           /\ results'[Len(results) + 1] = x
<1> DEFINE x == [key |-> key, view |-> v, id |-> id]
<1>1. x \in Result /\ results \in Seq(Result) /\ results' = Append(results, x)
  BY DEF Result, ResultsInv, Returns
<1> HIDE DEF x
<1>2. /\ results' \in Seq(Result) /\ Len(results) \in Nat
      /\ Len(results') = Len(results) + 1
      /\ \A i \in 1..Len(results) : results'[i] = results[i]
      /\ results'[Len(results) + 1] = x
  BY <1>1, AppendProperties, LenProperties
<1> QED  BY <1>2 DEF x

(* In ord_id_store a new result must agree with the last one only.         *)
LEMMA RunStep ==
    ASSUME ResultsInv, kind = "ord", kind' = "ord", OneIdPerString,
           NEW key \in Key, NEW v \in ViewType, NEW id \in Nat, Returns(key, v, id),
           (Len(results) > 0 /\ results[Len(results)].key = key /\ key # << >>)
               => results[Len(results)].id = id
    PROVE  OneIdPerString'
<1> DEFINE n == Len(results)
<1>1. /\ results' \in Seq(Result) /\ n \in Nat /\ Len(results') = n + 1
      /\ \A i \in 1..n : results'[i] = results[i]
      /\ results'[n + 1].key = key /\ results'[n + 1].id = id
  <2>1. /\ results' \in Seq(Result) /\ n \in Nat /\ Len(results') = n + 1
        /\ \A i \in 1..n : results'[i] = results[i]
        /\ results'[n + 1] = [key |-> key, view |-> v, id |-> id]
    <3> HIDE DEF n
    <3> QED  BY ReturnsFacts DEF n
  <2> QED  BY <2>1
<1>2. DOMAIN results = 1..n /\ DOMAIN results' = 1..(n + 1)
  BY <1>1, LenProperties DEF ResultsInv
<1> HIDE DEF n
<1>3. ASSUME NEW i \in DOMAIN results', NEW j \in DOMAIN results', i < j,
             results'[i].key # << >>,
             \A k \in i..j : results'[k].key = results'[i].key
      PROVE  results'[i].id = results'[j].id
  <2>1. ASSUME NEW m \in 1..n, i < m, m =< j PROVE results'[i].id = results'[m].id
    <3>1. i \in 1..n /\ results'[i] = results[i] /\ results'[m] = results[m]
      BY <1>1, <1>2, <1>3, <2>1
    <3>2. \A k \in i..m : k \in i..j /\ k \in 1..n
      <4>1. i \in Int /\ j \in Int /\ m \in Int /\ n \in Int /\ 1 =< i /\ m =< j /\ m =< n
        BY <1>1, <1>2, <1>3, <2>1, <3>1
      <4> QED  BY <4>1
    <3>3. \A k \in i..m : results[k].key = results[i].key
      BY <1>1, <1>3, <3>1, <3>2
    <3>4. m \in i..m
      BY <1>2, <2>1
    <3> QED  BY <1>2, <1>3, <2>1, <3>1, <3>3, <3>4 DEF OneIdPerString
  <2>2. CASE j \in 1..n
    BY <1>3, <2>1, <2>2
  <2>3. CASE j = n + 1
    <3>1. n \in 1..n /\ n \in i..j /\ j \in i..j /\ i =< n
      BY <1>1, <1>2, <1>3, <2>3
    <3>2. results[n].key = results'[i].key /\ key = results'[i].key /\ results[n] = results'[n]
      BY <1>1, <1>3, <2>3, <3>1
    <3>3. results'[n].id = id
      BY <1>1, <1>3, <3>1, <3>2 DEF n
    <3>4. results'[i].id = results'[n].id
      BY <1>1, <1>2, <2>1, <2>3, <3>1
    <3> QED  BY <1>1, <2>3, <3>3, <3>4
  <2> QED  BY <1>1, <1>2, <2>2, <2>3
<1> QED  BY <1>3 DEF OneIdPerString

(* What was good stays good while views read the same and ids keep theirs. *)
Preserved ==
    /\ Len(keys) =< Len(keys')
    /\ \A i \in 1..Len(keys) : keys'[i] = keys[i]
    /\ \A v \in ViewType : Inside(blocks, v) =>
           Inside(blocks', v) /\ CharsAt(blocks', v) = CharsAt(blocks, v)

LEMMA ResultsStep ==
    ASSUME KeysInv, KeysInv', ResultsInv, Preserved,
           NEW key \in Key, NEW v \in ViewType, NEW id \in Nat, Returns(key, v, id),
           GoodView(key, v)', GoodId(key, id)', key = NullSv => id = 0
    PROVE  ResultsInv'
<1>1. /\ results' \in Seq(Result) /\ Len(results) \in Nat
      /\ Len(results') = Len(results) + 1
      /\ \A i \in 1..Len(results) : results'[i] = results[i]
      /\ results'[Len(results) + 1] = [key |-> key, view |-> v, id |-> id]
  BY ReturnsFacts
<1>2. Len(keys) \in Nat /\ Len(keys') \in Nat
      /\ \A i \in 1..Len(keys) : keys[i] \in ViewType /\ Inside(blocks, keys[i])
  BY ElementOfSeq, LenProperties DEF KeysInv
<1>3. ASSUME NEW i \in 1..Len(results)
      PROVE  /\ GoodView(results[i].key, results[i].view)'
             /\ GoodId(results[i].key, results[i].id)'
             /\ results'[i].key = NullSv => results'[i].id = 0
  <2> DEFINE r == results[i]
  <2>1. results'[i] = r /\ r \in Result
    BY <1>1, ElementOfSeq DEF ResultsInv
  <2>2. r.view \in ViewType /\ r.id \in Nat
    BY <2>1 DEF Result
  <2>3. GoodView(r.key, r.view) /\ GoodId(r.key, r.id) /\ (r.key = NullSv => r.id = 0)
    BY DEF ResultsInv
  <2> HIDE DEF r
  <2>4. Inside(blocks', r.view) /\ (r.key # NullSv => CharsAt(blocks', r.view) = r.key)
    BY <2>2, <2>3 DEF GoodView, Preserved
  <2>5. /\ r.id + 1 \in 1..Len(keys')
        /\ keys'[r.id + 1] = keys[r.id + 1]
        /\ CharsAt(blocks', keys[r.id + 1]) = CharsAt(blocks, keys[r.id + 1])
    BY <1>2, <2>2, <2>3 DEF GoodId, Preserved
  <2> QED  BY <2>1, <2>3, <2>4, <2>5 DEF GoodView, GoodId, IsKey
<1>4. results'[Len(results) + 1].key = key /\ results'[Len(results) + 1].view = v
      /\ results'[Len(results) + 1].id = id
  BY <1>1
<1>5. \A i \in 1..Len(results') : i \in 1..Len(results) \/ i = Len(results) + 1
  BY <1>1
<1>6. ASSUME NEW i \in 1..Len(results'), i = Len(results) + 1
      PROVE  /\ GoodView(results[i].key, results[i].view)'
             /\ GoodId(results[i].key, results[i].id)'
  BY <1>4, <1>6 DEF GoodView, GoodId, IsKey
<1> QED  BY <1>1, <1>3, <1>4, <1>5, <1>6 DEF ResultsInv

LEMMA KeyStays ==
    ASSUME KeysInv, KeysInv', Preserved, NEW key, NEW id \in Nat, IsKey(key, id)
    PROVE  IsKey(key, id)'
<1>1. /\ id + 1 \in 1..Len(keys) /\ CharsAt(blocks, keys[id + 1]) = key
      /\ Len(keys) \in Nat /\ Len(keys') \in Nat
  BY LenProperties DEF IsKey, KeysInv
<1>2. keys[id + 1] \in ViewType /\ Inside(blocks, keys[id + 1])
  BY <1>1, ElementOfSeq DEF KeysInv
<1>3. keys'[id + 1] = keys[id + 1] /\ CharsAt(blocks', keys[id + 1]) = key
      /\ id + 1 \in 1..Len(keys')
  BY <1>1, <1>2 DEF Preserved
<1> QED  BY <1>3 DEF IsKey

(* A call that adds no string.                                             *)
LEMMA NothingStored ==
    ASSUME StoreInv, KeysInv, UNCHANGED <<blocks, keys>>
    PROVE  StoreInv' /\ KeysInv' /\ Preserved
<1>1. Len(keys) \in Nat
  BY LenProperties DEF KeysInv
<1> QED  BY <1>1 DEF StoreInv, KeysInv, Preserved

(* A call that adds one.                                                   *)
LEMMA StringStored ==
    ASSUME StoreInv, KeysInv, NEW key \in Seq(Nat), NEW r \in Added(key), Store(key, r)
    PROVE  /\ StoreInv' /\ KeysInv' /\ Preserved
           /\ prev' = r.view /\ Returns(key, r.view, Len(keys)) /\ Len(keys) \in Nat
           /\ Len(keys') = Len(keys) + 1
           /\ r.view \in ViewType /\ Inside(blocks', r.view) /\ CharsAt(blocks', r.view) = key
           /\ GoodView(key, r.view)' /\ IsKey(key, Len(keys) - 1)'
<1>1. blocks' = r.blocks /\ keys' = Append(keys, r.view) /\ prev' = r.view
      /\ Returns(key, r.view, Len(keys))
  BY DEF Store
<1>2. /\ StoreInv'
      /\ r.view \in ViewType /\ Inside(blocks', r.view) /\ CharsAt(blocks', r.view) = key
      /\ \A v \in ViewType : Inside(blocks, v) =>
             /\ Inside(blocks', v)
             /\ CharsAt(blocks', v) = CharsAt(blocks, v)
             /\ v # NullView => Disjoint(v, r.view) /\ Disjoint(r.view, v)
  BY <1>1, AddedFacts
<1>3. /\ keys' \in Seq(ViewType) /\ Len(keys) \in Nat /\ Len(keys') = Len(keys) + 1
      /\ \A i \in 1..Len(keys) : keys'[i] = keys[i]
      /\ keys'[Len(keys) + 1] = r.view
  BY <1>1, <1>2, AppendProperties, LenProperties DEF KeysInv
<1>4. Preserved
  BY <1>2, <1>3 DEF Preserved
<1>5. \A i \in 1..Len(keys') : i \in 1..Len(keys) \/ i = Len(keys) + 1
  BY <1>3
<1>6. \A i \in 1..Len(keys) : keys[i] \in ViewType /\ Inside(blocks, keys[i])
  BY ElementOfSeq DEF KeysInv
<1>7. \A i \in 1..Len(keys) : keys[i].size > 0 =>
          Disjoint(keys[i], r.view) /\ Disjoint(r.view, keys[i])
  BY <1>2, <1>6 DEF NullView, View
<1>8. KeysInv'
  <2>1. \A i \in 1..Len(keys') : Inside(blocks', keys'[i])
    BY <1>2, <1>3, <1>5, <1>6
  <2>2. ASSUME NEW i \in 1..Len(keys'), NEW j \in 1..Len(keys'),
               i # j, keys'[i].size > 0, keys'[j].size > 0
        PROVE  Disjoint(keys'[i], keys'[j])
    <3>1. CASE i \in 1..Len(keys) /\ j \in 1..Len(keys)
      BY <1>3, <2>2, <3>1 DEF KeysInv
    <3>2. CASE i \in 1..Len(keys) /\ j = Len(keys) + 1
      BY <1>3, <1>7, <2>2, <3>2
    <3>3. CASE i = Len(keys) + 1 /\ j \in 1..Len(keys)
      BY <1>3, <1>7, <2>2, <3>3
    <3> QED  BY <1>5, <2>2, <3>1, <3>2, <3>3
  <2>3. \A i, j \in 1..Len(keys') :
            (i # j /\ keys'[i].size > 0 /\ keys'[j].size > 0) => Disjoint(keys'[i], keys'[j])
    BY <2>2
  <2>4. Len(keys') >= 1
    BY <1>3
  <2> QED  BY <1>3, <2>1, <2>3, <2>4 DEF KeysInv, Disjoint
<1>9. GoodView(key, r.view)'
  BY <1>2 DEF GoodView
<1>10. IsKey(key, Len(keys) - 1)'
  BY <1>2, <1>3 DEF IsKey
<1> QED  BY <1>1, <1>2, <1>3, <1>4, <1>8, <1>9, <1>10

-----------------------------------------------------------------------------
(* The calls of save that add no string: what they return is an id of the  *)
(* string, and what they remember of it.                                   *)
LEMMA SaveNullStep == ASSUME IInv, SaveNull PROVE IInv'
<1>1. UNCHANGED <<blocks, kind, keys, prev, prev_id, ids>> /\ Returns(NullSv, NullView, 0)
  BY DEF SaveNull
<1>2. StoreInv' /\ KeysInv' /\ Preserved /\ Len(keys) \in Nat /\ Len(keys) >= 1
  BY <1>1, NothingStored, LenProperties DEF IInv, KeysInv
<1>3. NullView \in ViewType /\ NullSv \in Key
  BY DEF NullView, View, ViewType, Key
<1>4. GoodView(NullSv, NullView)' /\ GoodId(NullSv, 0)'
  BY <1>1, <1>2 DEF GoodView, GoodId, Inside
<1>5. ResultsInv'
  BY <1>1, <1>2, <1>3, <1>4, ResultsStep DEF IInv
<1>6. /\ Len(results) \in Nat /\ Len(results') = Len(results) + 1
      /\ \A i \in 1..Len(results) : results'[i] = results[i]
      /\ results'[Len(results) + 1] = [key |-> NullSv, view |-> NullView, id |-> 0]
  BY <1>1, <1>3, ReturnsFacts DEF IInv
<1>7. PrevInv'
  BY <1>1 DEF IInv, PrevInv, IsKey, LastId
<1>8. MapInv'
  <2>1. \A i \in 1..Len(results') : i \in 1..Len(results) \/ results'[i].key = NullSv
    BY <1>6
  <2> QED  BY <1>1, <1>6, <2>1 DEF IInv, MapInv, IsKey, Known
<1>9. RunInv'
  <2>1. CASE kind = "ord"
    <3>1. results'[Len(results')].key = NullSv
      BY <1>6
    <3>2. OneIdPerString'
      BY <1>1, <1>3, <2>1, RunStep DEF IInv, RunInv, ResultsInv
    <3> QED  BY <3>1, <3>2 DEF RunInv
  <2> QED  BY <1>1, <2>1 DEF RunInv
<1> QED  BY <1>2, <1>5, <1>7, <1>8, <1>9 DEF IInv

LEMMA OrdSaveAgainStep ==
    ASSUME IInv, NEW key \in Strings, OrdSaveAgain(key) PROVE IInv'
<1> DEFINE id == Len(keys) - 1
<1>1. /\ UNCHANGED <<blocks, kind, keys, prev, prev_id, ids>> /\ Returns(key, prev, id)
      /\ kind = "ord" /\ CharsAt(blocks, prev) = key
  BY DEF OrdSaveAgain, Read, CharsAt
<1>2. /\ key \in Seq(Nat) /\ key \in Key /\ key # NullSv /\ prev \in ViewType
      /\ Len(keys) \in Nat /\ id \in Nat /\ IsKey(key, id)
  BY <1>1, IdStoresAssumption, CharsAreNoNull, LenProperties
     DEF Key, IInv, KeysInv, PrevInv, LastId
<1>3. StoreInv' /\ KeysInv' /\ Preserved
  BY <1>1, NothingStored DEF IInv
<1>4. PrevInv'
  BY <1>1 DEF IInv, PrevInv, IsKey, LastId
<1> HIDE DEF id
<1>5. \A n \in {id} : GoodView(key, prev)' /\ GoodId(key, n)'
  BY <1>1, <1>2 DEF GoodView, GoodId, IsKey, IInv, PrevInv
<1>6. ResultsInv'
  <2>1. PICK n \in Nat, v \in ViewType : n = id /\ v = prev
    BY <1>2
  <2>2. GoodView(key, v)' /\ GoodId(key, n)' /\ Returns(key, v, n)
    BY <1>1, <1>2, <1>5, <2>1 DEF GoodView
  <2> QED  BY <1>2, <1>3, <2>2, ResultsStep DEF IInv
<1>7. MapInv'
  BY <1>1 DEF MapInv, IInv, PrevInv
<1>8. RunInv'
  <2>1. Len(results) \in Nat /\ Len(results') = Len(results) + 1
        /\ results'[Len(results) + 1] = [key |-> key, view |-> prev, id |-> id]
    BY <1>1, <1>2, ReturnsFacts DEF IInv
  <2>2. OneIdPerString'
    BY <1>1, <1>2, RunStep DEF IInv, RunInv, id
  <2> QED  BY <1>1, <2>1, <2>2 DEF RunInv, id
<1> QED  BY <1>3, <1>4, <1>6, <1>7, <1>8 DEF IInv

LEMMA OrdSaveStep ==
    ASSUME IInv, NEW key \in Strings, OrdSave(key) PROVE IInv'
<1>1. PICK r \in Added(key) : Store(key, r)
  BY DEF OrdSave
<1>2. /\ UNCHANGED <<kind, prev_id, ids>> /\ kind = "ord" /\ CharsAt(blocks, prev) # key
      /\ key \in Seq(Nat) /\ key \in Key /\ key # NullSv
  BY IdStoresAssumption, CharsAreNoNull DEF OrdSave, Read, CharsAt, Key
<1>3. /\ StoreInv' /\ KeysInv' /\ Preserved
      /\ prev' = r.view /\ Returns(key, r.view, Len(keys)) /\ Len(keys) \in Nat
      /\ Len(keys') = Len(keys) + 1
      /\ r.view \in ViewType /\ Inside(blocks', r.view) /\ CharsAt(blocks', r.view) = key
      /\ GoodView(key, r.view)' /\ IsKey(key, Len(keys) - 1)'
  BY <1>1, <1>2, StringStored DEF IInv
<1>4. PrevInv'
  BY <1>2, <1>3 DEF IInv, PrevInv, LastId
<1>5. ResultsInv'
  <2>1. PICK n \in Nat : n = Len(keys)
    BY <1>3
  <2>2. GoodId(key, n)' /\ Returns(key, r.view, n)
    BY <1>2, <1>3, <2>1 DEF GoodId, IsKey
  <2> QED  BY <1>2, <1>3, <2>2, ResultsStep DEF IInv
<1>6. MapInv'
  BY <1>2 DEF MapInv
<1>7. RunInv'
  <2>1. Len(results) \in Nat /\ Len(results') = Len(results) + 1
        /\ results'[Len(results) + 1] = [key |-> key, view |-> r.view, id |-> Len(keys)]
    BY <1>2, <1>3, ReturnsFacts DEF IInv
  <2>2. OneIdPerString'
    BY <1>2, <1>3, RunStep DEF IInv, RunInv
  <2> QED  BY <1>2, <1>3, <2>1, <2>2 DEF RunInv
<1> QED  BY <1>3, <1>4, <1>5, <1>6, <1>7 DEF IInv

(* In unique_id_store the map keeps its entries, and a new one is right.   *)
LEMMA MapStep ==
    ASSUME ResultsInv, KeysInv, KeysInv', Preserved, MapInv,
           kind = "unique", kind' = "unique",
           NEW key \in Key, NEW v \in ViewType, NEW id \in Nat, Returns(key, v, id),
           key # NullSv, CharsAt(blocks', prev') = key, prev_id' = id,
           \A s \in DOMAIN ids : s \in DOMAIN ids' /\ ids'[s] = ids[s],
           \A s \in DOMAIN ids' : s \in DOMAIN ids \/ (s = key /\ ids'[s] = id),
           IsKey(key, id)', key # << >> => Known(key, id)'
    PROVE  MapInv'
<1>1. /\ Len(results) \in Nat /\ Len(results') = Len(results) + 1
      /\ \A i \in 1..Len(results) : results'[i] = results[i]
      /\ results'[Len(results) + 1] = [key |-> key, view |-> v, id |-> id]
  BY ReturnsFacts
<1>2. ASSUME NEW s \in DOMAIN ids' PROVE ids'[s] \in Nat /\ IsKey(s, ids[s])'
  <2>1. CASE s \in DOMAIN ids
    <3>1. PICK n \in Nat : n = ids[s] /\ IsKey(s, n)
      BY <2>1 DEF MapInv
    <3>2. IsKey(s, n)' /\ ids'[s] = n
      BY <2>1, <3>1, KeyStays
    <3> QED  BY <3>2 DEF IsKey
  <2>2. CASE s = key /\ ids'[s] = id
    BY <2>2 DEF IsKey
  <2> QED  BY <2>1, <2>2
<1>3. CharsAt(blocks', prev') # << >> => Known(CharsAt(blocks, prev), prev_id)'
  BY DEF Known
<1>4. ASSUME NEW i \in 1..Len(results'), results'[i].key \notin {NullSv, << >>}
      PROVE  Known(results[i].key, results[i].id)'
  <2>1. CASE i \in 1..Len(results)
    BY <1>1, <1>4, <2>1 DEF MapInv, Known
  <2>2. CASE i = Len(results) + 1
    BY <1>1, <1>4, <2>2 DEF Known
  <2> QED  BY <1>1, <2>1, <2>2
<1> QED  BY <1>2, <1>3, <1>4 DEF MapInv

LEMMA UniqueSaveAgainStep ==
    ASSUME IInv, NEW key \in Strings, UniqueSaveAgain(key) PROVE IInv'
<1>1. /\ UNCHANGED <<blocks, kind, keys, prev, prev_id, ids>> /\ Returns(key, prev, prev_id)
      /\ kind = "unique" /\ CharsAt(blocks, prev) = key
  BY DEF UniqueSaveAgain, Read, CharsAt
<1>2. /\ key \in Seq(Nat) /\ key \in Key /\ key # NullSv /\ prev \in ViewType
      /\ prev_id \in Nat /\ IsKey(key, prev_id)
  BY <1>1, IdStoresAssumption, CharsAreNoNull DEF Key, IInv, PrevInv, LastId
<1>3. StoreInv' /\ KeysInv' /\ Preserved
  BY <1>1, NothingStored DEF IInv
<1>4. PrevInv'
  BY <1>1 DEF IInv, PrevInv, IsKey, LastId
<1>5. PICK n \in Nat, v \in ViewType : n = prev_id /\ v = prev
  BY <1>2
<1>6. GoodView(key, v)' /\ GoodId(key, n)' /\ IsKey(key, n)' /\ Returns(key, v, n)
  BY <1>1, <1>2, <1>5 DEF GoodView, GoodId, IsKey, IInv, PrevInv
<1>7. ResultsInv'
  BY <1>2, <1>3, <1>6, ResultsStep DEF IInv
<1>8. MapInv'
  <2>1. key # << >> => Known(key, n)'
    BY <1>1, <1>5 DEF IInv, MapInv, Known
  <2> QED  BY <1>1, <1>2, <1>3, <1>5, <1>6, <2>1, MapStep DEF IInv
<1>9. RunInv'
  BY <1>1 DEF RunInv
<1> QED  BY <1>3, <1>4, <1>7, <1>8, <1>9 DEF IInv

LEMMA UniqueSaveNewStep ==
    ASSUME IInv, NEW key \in Strings, UniqueSaveNew(key) PROVE IInv'
<1>1. PICK r \in Added(key) : Store(key, r)
  BY DEF UniqueSaveNew
<1>2. /\ kind' = "unique" /\ kind = "unique" /\ prev_id' = Len(keys) /\ key \notin DOMAIN ids
      /\ ids' = [s \in DOMAIN ids \cup {key} |-> IF s = key THEN Len(keys) ELSE ids[s]]
      /\ key \in Seq(Nat) /\ key \in Key /\ key # NullSv
  BY IdStoresAssumption, CharsAreNoNull DEF UniqueSaveNew, Key
<1>3. /\ StoreInv' /\ KeysInv' /\ Preserved
      /\ prev' = r.view /\ Returns(key, r.view, Len(keys)) /\ Len(keys) \in Nat
      /\ Len(keys') = Len(keys) + 1
      /\ r.view \in ViewType /\ Inside(blocks', r.view) /\ CharsAt(blocks', r.view) = key
      /\ GoodView(key, r.view)' /\ IsKey(key, Len(keys) - 1)'
  BY <1>1, <1>2, StringStored DEF IInv
<1>4. PICK n \in Nat : n = Len(keys)
  BY <1>3
<1>5. IsKey(key, n)' /\ GoodId(key, n)' /\ Returns(key, r.view, n)
  BY <1>2, <1>3, <1>4 DEF GoodId, IsKey
<1>6. PrevInv'
  BY <1>2, <1>3, <1>4, <1>5 DEF IInv, PrevInv, LastId, IsKey
<1>7. ResultsInv'
  BY <1>2, <1>3, <1>5, ResultsStep DEF IInv
<1>8. MapInv'
  <2>1. /\ \A s \in DOMAIN ids : s \in DOMAIN ids' /\ ids'[s] = ids[s]
        /\ \A s \in DOMAIN ids' : s \in DOMAIN ids \/ (s = key /\ ids'[s] = n)
        /\ Known(key, n)'
    BY <1>2, <1>4 DEF Known
  <2> QED  BY <1>2, <1>3, <1>4, <1>5, <2>1, MapStep DEF IInv
<1>9. RunInv'
  BY <1>2 DEF RunInv
<1> QED  BY <1>3, <1>6, <1>7, <1>8, <1>9 DEF IInv

LEMMA UniqueSaveKnownStep ==
    ASSUME IInv, NEW key \in Strings, UniqueSaveKnown(key) PROVE IInv'
<1>1. /\ UNCHANGED <<blocks, kind, keys, ids>> /\ kind = "unique" /\ key \in DOMAIN ids
      /\ prev' = keys[ids[key] + 1] /\ prev_id' = ids[key]
      /\ Returns(key, prev', ids[key])
  BY DEF UniqueSaveKnown
<1>2. /\ key \in Seq(Nat) /\ key \in Key /\ key # NullSv
      /\ ids[key] \in Nat /\ IsKey(key, ids[key])
  BY <1>1, IdStoresAssumption, CharsAreNoNull DEF Key, IInv, MapInv
<1>3. prev' \in ViewType /\ Inside(blocks, prev') /\ CharsAt(blocks, prev') = key
  BY <1>1, <1>2, ElementOfSeq DEF IInv, KeysInv, IsKey
<1>4. StoreInv' /\ KeysInv' /\ Preserved
  BY <1>1, NothingStored DEF IInv
<1>5. PICK n \in Nat, v \in ViewType : n = ids[key] /\ v = prev'
  BY <1>2, <1>3
<1>6. GoodView(key, v)' /\ GoodId(key, n)' /\ IsKey(key, n)' /\ Returns(key, v, n)
  BY <1>1, <1>2, <1>3, <1>5 DEF GoodView, GoodId, IsKey
<1>7. PrevInv'
  BY <1>1, <1>2, <1>3 DEF PrevInv, LastId, IsKey
<1>8. ResultsInv'
  BY <1>2, <1>4, <1>6, ResultsStep DEF IInv
<1>9. MapInv'
  BY <1>1, <1>2, <1>3, <1>4, <1>5, <1>6, MapStep DEF IInv, Known
<1>10. RunInv'
  BY <1>1 DEF RunInv
<1> QED  BY <1>4, <1>7, <1>8, <1>9, <1>10 DEF IInv

LEMMA NextInv == ASSUME IInv, [Next]_vars PROVE IInv'
<1>1. CASE SaveNull
  BY <1>1, SaveNullStep
<1>2. ASSUME NEW key \in Strings,
             \/ OrdSaveAgain(key) \/ OrdSave(key)
             \/ UniqueSaveAgain(key) \/ UniqueSaveNew(key) \/ UniqueSaveKnown(key)
      PROVE  IInv'
  BY <1>2, OrdSaveAgainStep, OrdSaveStep, UniqueSaveAgainStep, UniqueSaveNewStep,
     UniqueSaveKnownStep
<1>3. CASE UNCHANGED vars
  <2>1. /\ blocks' = blocks /\ kind' = kind /\ keys' = keys /\ prev' = prev
        /\ prev_id' = prev_id /\ ids' = ids /\ results' = results
    BY <1>3 DEF vars
  <2>2. StoreInv' /\ KeysInv'
    BY <2>1, NothingStored DEF IInv
  <2>3. ResultsInv' /\ PrevInv'
    BY <2>1 DEF IInv, ResultsInv, GoodView, GoodId, IsKey, PrevInv, LastId
  <2>4. MapInv' /\ RunInv'
    BY <2>1 DEF IInv, MapInv, RunInv, IsKey, Known, OneIdPerString
  <2> QED  BY <2>2, <2>3, <2>4 DEF IInv
<1> QED  BY <1>1, <1>2, <1>3 DEF Next

THEOREM IdStoresInvariant == Spec => []IInv
BY InitInv, NextInv, PTL DEF Spec

LEMMA ResultFacts ==
    ASSUME IInv, NEW r \in Given
    PROVE  /\ r \in Result /\ Inside(blocks, r.view) /\ r.id + 1 \in 1..Len(keys)
           /\ r.key # NullSv => CharsAt(blocks, r.view) = r.key /\ IsKey(r.key, r.id)
<1>1. PICK i \in 1..Len(results) : r = results[i]
  BY LenProperties DEF Given, IInv, ResultsInv
<1> QED  BY <1>1, ElementOfSeq DEF IInv, ResultsInv, GoodView, GoodId

(* A view reads the string it was given for, whatever is added later, and  *)
(* stays in the memory of its block.                                       *)
THEOREM IdStoresViews == Spec => []ViewsStable
<1>1. ASSUME IInv, NEW r \in Given, r.key # NullSv
      PROVE  Read(r.view) = r.key /\ InBounds(r.view)
  <2>1. Inside(blocks, r.view) /\ CharsAt(blocks, r.view) = r.key
    BY <1>1, ResultFacts
  <2>2. DOMAIN blocks = 1..Len(blocks)
    BY <1>1, LenProperties DEF IInv, StoreInv
  <2> QED  BY <1>1, <2>1, <2>2 DEF IInv, StoreInv, Fitting, Inside, InBounds, Read, CharsAt
<1>2. IInv => ViewsStable
  BY <1>1 DEF ViewsStable
<1> QED  BY <1>2, IdStoresInvariant, PTL

(* No two strings share characters.                                        *)
THEOREM IdStoresDisjoint == Spec => []ViewsDisjoint
<1>1. IInv => ViewsDisjoint
  BY LenProperties DEF IInv, KeysInv, ViewsDisjoint
<1> QED  BY <1>1, IdStoresInvariant, PTL

(* An id leads back to the string it was returned for.                     *)
THEOREM IdStoresDecode == Spec => []IdsDecode
<1>1. ASSUME IInv, NEW r \in Given
      PROVE  r.id + 1 \in DOMAIN keys /\ (r.key # NullSv => Read(keys[r.id + 1]) = r.key)
  BY <1>1, ResultFacts, LenProperties DEF IInv, KeysInv, IsKey, Read, CharsAt
<1>2. IInv => IdsDecode
  BY <1>1 DEF IdsDecode
<1> QED  BY <1>2, IdStoresInvariant, PTL

(* A string has one id: in unique_id_store for good, in ord_id_store while *)
(* it is saved again and again.                                            *)
THEOREM IdStoresOneId == Spec => []OneIdPerString
<1>1. ASSUME IInv, kind = "unique",
             NEW i \in DOMAIN results, NEW j \in DOMAIN results,
             results[i].key = results[j].key, results[i].key # << >>
      PROVE  results[i].id = results[j].id
  <2>1. i \in 1..Len(results) /\ j \in 1..Len(results)
    BY <1>1, LenProperties DEF IInv, ResultsInv
  <2>2. CASE results[i].key = NullSv
    BY <1>1, <2>1, <2>2 DEF IInv, ResultsInv
  <2>3. CASE results[i].key # NullSv
    BY <1>1, <2>1, <2>3 DEF IInv, MapInv, Known
  <2> QED  BY <2>2, <2>3
<1>2. ASSUME IInv PROVE OneIdPerString
  <2>1. CASE kind = "ord"
    BY <1>2, <2>1 DEF IInv, RunInv
  <2>2. CASE kind = "unique"
    BY <1>1, <1>2, <2>2 DEF OneIdPerString
  <2> QED  BY <1>2, <2>1, <2>2 DEF IInv, PrevInv
<1>3. IInv => OneIdPerString
  BY <1>2
<1> QED  BY <1>3, IdStoresInvariant, PTL

-----------------------------------------------------------------------------
(***************************************************************************)
(* Arithmetic.                                                             *)
(***************************************************************************)
LEMMA ModSmall == ASSUME NEW n \in Nat \ {0}, NEW a \in 0..(n - 1) PROVE a % n = a
OBVIOUS

LEMMA ModNext == ASSUME NEW n \in Nat \ {0}, NEW a \in n..(2 * n - 1) PROVE a % n = a - n
OBVIOUS

LEMMA ModBefore == ASSUME NEW n \in Nat \ {0}, NEW a \in (-n)..(-1) PROVE a % n = a + n
OBVIOUS

LEMMA DivLess ==
    ASSUME NEW h \in Nat, NEW p \in Nat \ {0}, NEW q \in Nat \ {0}, h < p * q
    PROVE  h \div p \in 0..(q - 1)
OBVIOUS

LEMMA ProductFacts ==
    ASSUME NEW a \in Nat, NEW b \in Nat, NEW k \in Nat
    PROVE  /\ a * k \in Nat
           /\ (a + 1) * k = a * k + k
           /\ a =< b => a * k =< b * k
OBVIOUS

(* The least element of a set of numbers, which Min chooses.               *)
LEMMA MinFacts ==
    ASSUME NEW S, S \subseteq Nat, S # {}
    PROVE  Min(S) \in S /\ \A x \in S : Min(S) =< x
<1>1. \E x \in S : \A y \in S : x =< y
  BY LeastElement
<1> QED  BY <1>1 DEF Min

LEMMA MinIs ==
    ASSUME NEW S, S \subseteq Nat, NEW x \in S, \A y \in S : x =< y
    PROVE  Min(S) = x
<1>1. Min(S) \in S /\ Min(S) =< x
  BY MinFacts
<1>2. x =< Min(S) /\ x \in Nat /\ Min(S) \in Nat
  BY <1>1
<1> QED  BY <1>1, <1>2

LEMMA MinOfTwo ==
    ASSUME NEW a \in Nat, NEW b \in Nat
    PROVE  Min({a, b}) = IF a =< b THEN a ELSE b
<1>1. CASE a =< b
  BY <1>1, MinIs
<1>2. CASE ~(a =< b)
  BY <1>2, MinIs
<1> QED  BY <1>1, <1>2

(* The greatest element of a finite set of numbers, which Max chooses.     *)
LEMMA MaxFacts ==
    ASSUME NEW n \in Nat, NEW S, S \subseteq 0..n, S # {}
    PROVE  Max(S) \in S /\ \A x \in S : x =< Max(S)
<1> DEFINE T == {n - x : x \in S}
<1>1. T \subseteq Nat /\ T # {}
  <2>1. \A x \in S : n - x \in Nat
    OBVIOUS
  <2>2. T \subseteq Nat
    BY <2>1
  <2> QED  BY <2>2
<1>2. PICK k \in T : \A j \in T : k =< j
  BY <1>1, LeastElement
<1>3. PICK x \in S : k = n - x
  BY <1>2
<1>4. \A y \in S : x >= y
  <2> TAKE y \in S
  <2>1. n - y \in T
    OBVIOUS
  <2>2. n - x =< n - y
    BY <1>2, <1>3, <2>1
  <2> QED  BY <2>2
<1>5. \E z \in S : \A y \in S : z >= y
  BY <1>4
<1>6. Max(S) \in S /\ \A y \in S : Max(S) >= y
  BY <1>5 DEF Max
<1> QED  BY <1>6

LEMMA MaxOfTwo ==
    ASSUME NEW a \in Nat, NEW b \in Nat
    PROVE  Max({a, b}) \in Nat /\ Max({a, b}) >= a /\ Max({a, b}) >= b
<1> DEFINE n == a + b
           S == {a, b}
<1>1. n \in Nat /\ S \subseteq 0..n /\ S # {}
  OBVIOUS
<1>2. Max(S) \in S /\ \A x \in S : x =< Max(S)
  <2> HIDE DEF n, S
  <2> QED  BY <1>1, MaxFacts
<1> QED  BY <1>2

-----------------------------------------------------------------------------
(* Distances and fingerprints.                                             *)
LEMMA FingerprintFacts ==
    ASSUME NEW key \in DOMAIN Hash
    PROVE  /\ DistInc \in Nat \ {0}
           /\ dist_and_fingerprint_from_hash(key) \in DistInc..(2 * DistInc - 1)
<1>1. Hash[key] \in Nat /\ DistInc \in Nat \ {0}
  <2>1. 2^HashBits \in Nat
    BY DenseTableAssumption
  <2> QED  BY <2>1, DenseTableAssumption
<1>2. Hash[key] % DistInc \in 0..(DistInc - 1)
  BY <1>1
<1> QED  BY <1>1, <1>2 DEF dist_and_fingerprint_from_hash, mixed_hash

LEMMA WantedFacts ==
    ASSUME NEW key \in DOMAIN Hash, NEW x \in Nat
    PROVE  /\ Wanted(key, x) \in Nat
           /\ Wanted(key, x + 1) = Wanted(key, x) + DistInc
           /\ Wanted(key, x) >= DistInc
           /\ Wanted(key, 0) \in DistInc..(2 * DistInc - 1)
           /\ x > 0 => Wanted(key, x) >= 2 * DistInc
<1> DEFINE f == dist_and_fingerprint_from_hash(key)
           p == x * DistInc
<1>1. DistInc \in Nat \ {0} /\ f \in DistInc..(2 * DistInc - 1)
  BY FingerprintFacts
<1>2. p \in Nat /\ (x + 1) * DistInc = p + DistInc /\ 0 * DistInc = 0
  BY <1>1, ProductFacts
<1>3. x > 0 => p >= DistInc
  <2> HAVE x > 0
  <2>1. 1 \in Nat /\ 1 =< x /\ 1 * DistInc = DistInc
    BY <1>1
  <2>2. 1 * DistInc =< x * DistInc
    BY <1>1, <2>1, ProductFacts
  <2> QED  BY <2>1, <2>2
<1>4. Wanted(key, x) = f + p /\ Wanted(key, x + 1) = f + (p + DistInc) /\ Wanted(key, 0) = f
  <2>1. Wanted(key, x + 1) = f + (x + 1) * DistInc
    BY DEF Wanted
  <2>2. Wanted(key, 0) = f + 0 * DistInc
    BY DEF Wanted
  <2> QED  BY <1>1, <1>2, <2>1, <2>2 DEF Wanted
<1> HIDE DEF f, p
<1> QED  BY <1>1, <1>2, <1>3, <1>4

(* Farther from home is poorer, whatever the fingerprints.                 *)
LEMMA WantedLess ==
    ASSUME NEW k \in DOMAIN Hash, NEW m \in DOMAIN Hash, NEW x \in Nat, NEW y \in Nat, x < y
    PROVE  Wanted(k, x) < Wanted(m, y)
<1> DEFINE f == dist_and_fingerprint_from_hash(k)
           g == dist_and_fingerprint_from_hash(m)
           p == x * DistInc
           q == y * DistInc
<1>1. DistInc \in Nat \ {0} /\ f \in DistInc..(2 * DistInc - 1) /\ g \in DistInc..(2 * DistInc - 1)
  BY FingerprintFacts
<1>2. p \in Nat /\ q \in Nat /\ p + DistInc =< q
  <2>1. x + 1 \in Nat /\ x + 1 =< y
    OBVIOUS
  <2>2. (x + 1) * DistInc =< y * DistInc
    BY <1>1, <2>1, ProductFacts
  <2> QED  BY <1>1, <2>2, ProductFacts
<1>3. Wanted(k, x) = f + p /\ Wanted(m, y) = g + q
  BY DEF Wanted
<1> HIDE DEF f, g, p, q
<1> QED  BY <1>1, <1>2, <1>3

-----------------------------------------------------------------------------
(* The buckets lie in a ring: how far b is after place, the bucket d after *)
(* place, and the one before b.                                            *)
Slots(t)         == 0..(bucket_count(t) - 1)
After(t, place, b) == IF b >= place THEN b - place ELSE b - place + bucket_count(t)
Along(t, place, d) == IF place + d < bucket_count(t) THEN place + d ELSE place + d - bucket_count(t)
Prev(t, b)         == IF b = 0 THEN bucket_count(t) - 1 ELSE b - 1

LEMMA RingFacts ==
    ASSUME NEW t, bucket_count(t) \in Nat, NEW place \in Slots(t), NEW b \in Slots(t)
    PROVE  /\ bucket_count(t) \in Nat \ {0}
           /\ Prev(t, b) \in Slots(t)
           /\ After(t, place, b) \in Slots(t)
           /\ After(t, place, b) = 0 <=> b = place
           /\ Along(t, place, After(t, place, b)) = b
           /\ After(t, place, b) > 0 => After(t, place, Prev(t, b)) = After(t, place, b) - 1
           /\ After(t, place, b) = 0 => After(t, place, Prev(t, b)) = bucket_count(t) - 1
BY DEF Slots, After, Along, Prev

LEMMA AlongFacts ==
    ASSUME NEW t, bucket_count(t) \in Nat, NEW place \in Slots(t), NEW d \in Slots(t)
    PROVE  /\ Along(t, place, d) \in Slots(t)
           /\ After(t, place, Along(t, place, d)) = d
           /\ d > 0 => Prev(t, Along(t, place, d)) = Along(t, place, d - 1)
           /\ Along(t, place, 0) = place
           /\ Along(t, place, bucket_count(t)) = place
           /\ Prev(t, place) = Along(t, place, bucket_count(t) - 1)
BY DEF Slots, After, Along, Prev

LEMMA AfterSame ==
    ASSUME NEW t, bucket_count(t) \in Nat, NEW place \in Slots(t), NEW b \in Slots(t),
           NEW c \in Slots(t), After(t, place, b) = After(t, place, c)
    PROVE  b = c
BY DEF Slots, After

LEMMA PrevSame ==
    ASSUME NEW t, bucket_count(t) \in Nat, NEW b \in Slots(t), NEW c \in Slots(t),
           Prev(t, b) = Prev(t, c)
    PROVE  b = c
BY DEF Slots, Prev

(* As the code has it.                                                     *)
LEMMA NextAlong ==
    ASSUME NEW t, bucket_count(t) \in Nat, NEW place \in Slots(t), NEW d \in 0..bucket_count(t)
    PROVE  next(t, place, d) = Along(t, place, d)
<1> DEFINE n == bucket_count(t)
<1>1. n \in Nat \ {0} /\ place \in 0..(n - 1) /\ d \in 0..n
  BY DEF Slots
<1>2. CASE place + d < n
  <2>1. place + d \in 0..(n - 1)
    BY <1>1, <1>2
  <2> HIDE DEF n
  <2>2. (place + d) % n = place + d
    BY ONLY <1>1, <2>1, ModSmall
  <2> QED  BY <1>2, <2>2 DEF next, Along, n
<1>3. CASE ~(place + d < n)
  <2>1. place + d \in n..(2 * n - 1)
    BY <1>1, <1>3
  <2> HIDE DEF n
  <2>2. (place + d) % n = place + d - n
    BY ONLY <1>1, <2>1, ModNext
  <2> QED  BY <1>3, <2>2 DEF next, Along, n
<1> QED  BY <1>2, <1>3

LEMMA AfterIs ==
    ASSUME NEW t, bucket_count(t) \in Nat, NEW place \in Slots(t), NEW b \in Slots(t)
    PROVE  (b - place) % bucket_count(t) = After(t, place, b)
<1> DEFINE n == bucket_count(t)
<1>1. n \in Nat \ {0} /\ place \in 0..(n - 1) /\ b \in 0..(n - 1)
  BY DEF Slots
<1>2. CASE b >= place
  <2>1. b - place \in 0..(n - 1)
    BY <1>1, <1>2
  <2> HIDE DEF n
  <2>2. (b - place) % n = b - place
    BY ONLY <1>1, <2>1, ModSmall
  <2> QED  BY <1>2, <2>2 DEF After, n
<1>3. CASE ~(b >= place)
  <2>1. b - place \in (-n)..(-1)
    BY <1>1, <1>3
  <2> HIDE DEF n
  <2>2. (b - place) % n = b - place + n
    BY ONLY <1>1, <2>1, ModBefore
  <2> QED  BY <1>3, <2>2 DEF After, n
<1> QED  BY <1>2, <1>3

-----------------------------------------------------------------------------
BucketType == [dist_and_fingerprint : Nat, value_idx : Nat]

Dist(t, b)    == at(t, b).dist_and_fingerprint
ValueAt(t, b) == at(t, b).value_idx
HomeOf(t, i)  == bucket_idx_from_hash(t, key_at(t, i))

(* Buckets there are, and the home of every key is one of them.            *)
Shaped(t) ==
    /\ t.buckets \in Seq(BucketType) /\ bucket_count(t) > 1
    /\ \A key \in DOMAIN Hash : bucket_idx_from_hash(t, key) \in Slots(t)

(* The values at the places in I have keys of their own.                   *)
KeysApart(t, I) ==
    /\ \A i \in I : i \in Nat /\ key_at(t, i) \in DOMAIN Hash
    /\ \A i, j \in I : key_at(t, i) = key_at(t, j) => i = j

(* A bucket is empty, or as far from the home of its value as it says.     *)
AtDistance(t, I) ==
    \A b \in Slots(t) :
        IF Dist(t, b) = 0 THEN at(t, b) = EmptyBucket
        ELSE /\ ValueAt(t, b) \in I
             /\ Dist(t, b) = Wanted(key_at(t, ValueAt(t, b)), After(t, HomeOf(t, ValueAt(t, b)), b))

(* No bucket is ahead of a poorer one, and some bucket is empty or at home.*)
NoneAhead(t) ==
    /\ \A b \in Slots(t) :
           Dist(t, b) >= 2 * DistInc => Dist(t, Prev(t, b)) + DistInc >= Dist(t, b)
    /\ \E b \in Slots(t) : Dist(t, b) < 2 * DistInc

(* Each value in I is in one bucket.                                       *)
OneEach(t, I) ==
    /\ \A b, c \in Slots(t) :
           Dist(t, b) # 0 /\ Dist(t, c) # 0 /\ ValueAt(t, b) = ValueAt(t, c) => b = c
    /\ \A i \in I : \E b \in Slots(t) : Dist(t, b) # 0 /\ ValueAt(t, b) = i

Indexed(t, I) == KeysApart(t, I) /\ AtDistance(t, I) /\ NoneAhead(t) /\ OneEach(t, I)

LEMMA ShapedFacts ==
    ASSUME NEW t, Shaped(t)
    PROVE  /\ bucket_count(t) \in Nat \ {0, 1}
           /\ DOMAIN t.buckets = 1..bucket_count(t)
           /\ \A b \in Slots(t) : at(t, b) \in BucketType /\ Dist(t, b) \in Nat /\ ValueAt(t, b) \in Nat
<1>1. bucket_count(t) \in Nat \ {0, 1} /\ DOMAIN t.buckets = 1..bucket_count(t)
  <2>1. t.buckets \in Seq(BucketType)
    BY DEF Shaped
  <2>2. bucket_count(t) \in Nat /\ DOMAIN t.buckets = 1..bucket_count(t)
    BY ONLY <2>1 DEF bucket_count
  <2>3. bucket_count(t) > 1
    BY DEF Shaped
  <2> QED  BY ONLY <2>2, <2>3
<1>2. \A b \in Slots(t) : t.buckets[b + 1] \in BucketType
  BY <1>1 DEF Shaped, Slots, bucket_count
<1>3. \A b \in Slots(t) : at(t, b) \in BucketType
  BY <1>2 DEF at
<1>4. \A b \in Slots(t) : Dist(t, b) \in Nat /\ ValueAt(t, b) \in Nat
  BY <1>3 DEF Dist, ValueAt, BucketType
<1> QED  BY <1>1, <1>3, <1>4

LEMMA PlacedFacts ==
    ASSUME NEW t, NEW I, Shaped(t), Indexed(t, I), NEW b \in Slots(t)
    PROVE  /\ Dist(t, b) \in Nat
           /\ at(t, b) = EmptyBucket <=> Dist(t, b) = 0
           /\ Dist(t, b) # 0 =>
                  /\ ValueAt(t, b) \in I /\ key_at(t, ValueAt(t, b)) \in DOMAIN Hash
                  /\ HomeOf(t, ValueAt(t, b)) \in Slots(t)
                  /\ After(t, HomeOf(t, ValueAt(t, b)), b) \in Slots(t)
                  /\ Dist(t, b) = Wanted(key_at(t, ValueAt(t, b)), After(t, HomeOf(t, ValueAt(t, b)), b))
                  /\ Dist(t, b) >= DistInc
                  /\ After(t, HomeOf(t, ValueAt(t, b)), b) > 0 <=> Dist(t, b) >= 2 * DistInc
<1>1. Dist(t, b) \in Nat /\ bucket_count(t) \in Nat
  BY ShapedFacts
<1>2. at(t, b) = EmptyBucket => Dist(t, b) = 0
  BY DEF EmptyBucket, Bucket, Dist
<1>3. IF Dist(t, b) = 0 THEN at(t, b) = EmptyBucket
      ELSE /\ ValueAt(t, b) \in I
           /\ Dist(t, b) = Wanted(key_at(t, ValueAt(t, b)), After(t, HomeOf(t, ValueAt(t, b)), b))
  BY DEF Indexed, AtDistance
<1>4. ASSUME Dist(t, b) # 0
      PROVE  /\ ValueAt(t, b) \in I /\ key_at(t, ValueAt(t, b)) \in DOMAIN Hash
             /\ HomeOf(t, ValueAt(t, b)) \in Slots(t)
             /\ After(t, HomeOf(t, ValueAt(t, b)), b) \in Slots(t)
             /\ Dist(t, b) = Wanted(key_at(t, ValueAt(t, b)), After(t, HomeOf(t, ValueAt(t, b)), b))
             /\ Dist(t, b) >= DistInc
             /\ After(t, HomeOf(t, ValueAt(t, b)), b) > 0 <=> Dist(t, b) >= 2 * DistInc
  <2> DEFINE i == ValueAt(t, b)
             d == After(t, HomeOf(t, i), b)
  <2>1. i \in I /\ Dist(t, b) = Wanted(key_at(t, i), d)
    BY <1>3, <1>4
  <2>2. key_at(t, i) \in DOMAIN Hash
    BY <2>1 DEF Indexed, KeysApart
  <2>3. HomeOf(t, i) \in Slots(t)
    BY <2>2 DEF Shaped, HomeOf
  <2>4. d \in Slots(t) /\ d \in Nat
    <3>1. d \in Slots(t)
      BY <1>1, <2>3, RingFacts
    <3> QED  BY <3>1 DEF Slots
  <2>5. /\ Wanted(key_at(t, i), d) >= DistInc
        /\ d > 0 => Wanted(key_at(t, i), d) >= 2 * DistInc
        /\ Wanted(key_at(t, i), 0) \in DistInc..(2 * DistInc - 1)
    <3> HIDE DEF i, d
    <3> QED  BY <2>2, <2>4, WantedFacts
  <2>6. DistInc \in Nat
    BY DenseTableAssumption
  <2>7. d > 0 <=> Wanted(key_at(t, i), d) >= 2 * DistInc
    <3>1. CASE d = 0
      <4>1. Wanted(key_at(t, i), d) = Wanted(key_at(t, i), 0)
        BY <3>1
      <4> HIDE DEF d, i
      <4> QED  BY <2>5, <2>6, <3>1, <4>1
    <3>2. CASE d # 0
      <4> HIDE DEF d, i
      <4> QED  BY <2>4, <2>5, <3>2
    <3> QED  BY <3>1, <3>2
  <2> QED  BY <2>1, <2>2, <2>3, <2>4, <2>5, <2>7
<1> QED  BY <1>1, <1>2, <1>3, <1>4

(* Places of the search, from the home of a key.                           *)
LEMMA HereFacts ==
    ASSUME NEW t, Shaped(t), NEW key \in DOMAIN Hash, NEW x \in 0..bucket_count(t)
    PROVE  LET h == bucket_idx_from_hash(t, key)
               b == Along(t, h, x)
           IN  /\ h \in Slots(t) /\ b \in Slots(t)
               /\ next(t, h, x) = b
               /\ Here(t, key, x) = at(t, b)
               /\ Stored(t, key, x) = Dist(t, b) /\ Stored(t, key, x) \in Nat
               /\ Wanted(key, x) \in Nat
               /\ x > 0 => Along(t, h, x - 1) = Prev(t, b)
<1> DEFINE h == bucket_idx_from_hash(t, key)
           b == Along(t, h, x)
<1>1. bucket_count(t) \in Nat \ {0} /\ h \in Slots(t)
  BY ShapedFacts DEF Shaped
<1>2. next(t, h, x) = b
  <2> HIDE DEF h
  <2> QED  BY <1>1, NextAlong
<1>3. b \in Slots(t) /\ (x > 0 => Along(t, h, x - 1) = Prev(t, b))
  <2> HIDE DEF h
  <2>1. CASE x = bucket_count(t)
    BY <1>1, <2>1, AlongFacts DEF Slots
  <2>2. CASE x # bucket_count(t)
    <3>1. x \in Slots(t)
      BY <1>1, <2>2 DEF Slots
    <3> QED  BY <1>1, <3>1, AlongFacts
  <2> QED  BY <2>1, <2>2
<1>4. Here(t, key, x) = at(t, b)
  BY <1>2 DEF Here
<1>5. Stored(t, key, x) = Dist(t, b)
  BY <1>4 DEF Stored, Dist
<1>6. Dist(t, b) \in Nat
  <2> HIDE DEF b
  <2> QED  BY <1>3, ShapedFacts
<1>7. Wanted(key, x) \in Nat
  BY <1>1, WantedFacts
<1> QED  BY <1>1, <1>2, <1>3, <1>4, <1>5, <1>6, <1>7

(* On the way from the home of a key, once the stored distances fall below *)
(* what the key would have, they stay there.                               *)
LEMMA PathStep ==
    ASSUME NEW t, NEW I, Shaped(t), Indexed(t, I), NEW key \in DOMAIN Hash,
           NEW x \in 1..bucket_count(t)
    PROVE  /\ Stored(t, key, x) >= Wanted(key, x) => Stored(t, key, x - 1) >= Wanted(key, x - 1)
           /\ Stored(t, key, x) > Wanted(key, x) => Stored(t, key, x - 1) > Wanted(key, x - 1)
<1> DEFINE h == bucket_idx_from_hash(t, key)
           b == Along(t, h, x)
<1>1. x \in 0..bucket_count(t) /\ x - 1 \in 0..bucket_count(t) /\ x \in Nat /\ x - 1 \in Nat
  BY ShapedFacts
<1>2. /\ b \in Slots(t) /\ Stored(t, key, x) = Dist(t, b) /\ Stored(t, key, x) \in Nat
      /\ Along(t, h, x - 1) = Prev(t, b)
  BY <1>1, HereFacts
<1>3. Stored(t, key, x - 1) = Dist(t, Prev(t, b)) /\ Stored(t, key, x - 1) \in Nat
  BY <1>1, <1>2, HereFacts
<1>4. Dist(t, b) >= 2 * DistInc => Dist(t, Prev(t, b)) + DistInc >= Dist(t, b)
  BY <1>2 DEF Indexed, NoneAhead
<1>5. /\ Wanted(key, x - 1) \in Nat /\ Wanted(key, (x - 1) + 1) = Wanted(key, x - 1) + DistInc
      /\ Wanted(key, x) >= 2 * DistInc
  BY <1>1, WantedFacts
<1>6. (x - 1) + 1 = x /\ DistInc \in Nat
  BY DenseTableAssumption
<1> HIDE DEF h, b
<1> QED  BY <1>2, <1>3, <1>4, <1>5, <1>6

LEMMA PathDown ==
    ASSUME NEW t, NEW I, Shaped(t), Indexed(t, I), NEW key \in DOMAIN Hash,
           NEW x \in 0..bucket_count(t)
    PROVE  /\ Stored(t, key, x) >= Wanted(key, x) =>
                  \A y \in 0..x : Stored(t, key, y) >= Wanted(key, y)
           /\ Stored(t, key, x) > Wanted(key, x) =>
                  \A y \in 0..x : Stored(t, key, y) > Wanted(key, y)
<1>0. bucket_count(t) \in Nat
  BY ShapedFacts
<1> DEFINE n == bucket_count(t)
           P == {k \in 0..x : Stored(t, key, x) >= Wanted(key, x) =>
                                  Stored(t, key, x - k) >= Wanted(key, x - k)}
           Q == {k \in 0..x : Stored(t, key, x) > Wanted(key, x) =>
                                  Stored(t, key, x - k) > Wanted(key, x - k)}
<1>1. x \in Nat /\ x - 0 = x
  BY <1>0
<1>2. \A k \in 0..(x - 1) : x - k \in 1..bucket_count(t) /\ x - k - 1 = x - (k + 1) /\ k + 1 \in 0..x
  BY <1>0
<1>3. 0..x \subseteq P
  <2>1. 0 \in P
    BY <1>1
  <2>2. \A k \in 0..(x - 1) : k \in P => k + 1 \in P
    <3> TAKE k \in 0..(x - 1)
    <3>1. Stored(t, key, x - k) >= Wanted(key, x - k) => Stored(t, key, x - k - 1) >= Wanted(key, x - k - 1)
      BY <1>2, PathStep
    <3> QED  BY <1>2, <3>1
  <2> HIDE DEF P
  <2> QED  BY <1>1, <2>1, <2>2, UpToInduction
<1>4. 0..x \subseteq Q
  <2>1. 0 \in Q
    BY <1>1
  <2>2. \A k \in 0..(x - 1) : k \in Q => k + 1 \in Q
    <3> TAKE k \in 0..(x - 1)
    <3>1. Stored(t, key, x - k) > Wanted(key, x - k) => Stored(t, key, x - k - 1) > Wanted(key, x - k - 1)
      BY <1>2, PathStep
    <3> QED  BY <1>2, <3>1
  <2> HIDE DEF Q
  <2> QED  BY <1>1, <2>1, <2>2, UpToInduction
<1>5. \A y \in 0..x : x - y \in 0..x /\ x - (x - y) = y
  BY <1>1
<1> QED  BY <1>3, <1>4, <1>5

-----------------------------------------------------------------------------
(* The value at place i is d buckets away from the home of its key, and    *)
(* nothing on the way or further on is taken for it.                       *)
FoundAt(t, key, i, d) ==
    /\ d \in Slots(t)
    /\ Stored(t, key, d) = Wanted(key, d) /\ Here(t, key, d).value_idx = i
    /\ \A x \in 0..bucket_count(t) : Hit(t, key, x) <=> x = d
    /\ \A x \in 0..d :
           /\ Stored(t, key, x) >= Wanted(key, x)
           /\ Here(t, key, x).value_idx = i => x = d
    /\ \A x \in d..bucket_count(t) : Wanted(key, x) >= Stored(t, key, x)

(* Far enough from home everything stored is richer.                       *)
LEMMA PathEnds ==
    ASSUME NEW t, NEW I, Shaped(t), Indexed(t, I), NEW key \in DOMAIN Hash
    PROVE  /\ Wanted(key, bucket_count(t)) > Stored(t, key, bucket_count(t))
           /\ Wanted(key, bucket_count(t)) \in Nat /\ Stored(t, key, bucket_count(t)) \in Nat
<1> DEFINE n == bucket_count(t)
           b == Along(t, bucket_idx_from_hash(t, key), n)
<1>1. n \in 0..bucket_count(t) /\ n \in Nat \ {0}
  BY ShapedFacts
<1>2. b \in Slots(t) /\ Stored(t, key, n) = Dist(t, b) /\ Stored(t, key, n) \in Nat /\ Wanted(key, n) \in Nat
  BY <1>1, HereFacts
<1>3. Wanted(key, n) >= DistInc /\ DistInc \in Nat \ {0}
  BY <1>1, WantedFacts, DenseTableAssumption
<1>4. CASE Dist(t, b) = 0
  BY <1>2, <1>3, <1>4
<1>5. CASE Dist(t, b) # 0
  <2> DEFINE m == key_at(t, ValueAt(t, b))
             y == After(t, HomeOf(t, ValueAt(t, b)), b)
  <2>1. m \in DOMAIN Hash /\ y \in Slots(t) /\ Dist(t, b) = Wanted(m, y)
    <3> HIDE DEF b
    <3> QED  BY <1>2, <1>5, PlacedFacts
  <2>2. y \in Nat /\ y < n
    BY <1>1, <2>1 DEF Slots
  <2>3. Wanted(m, y) < Wanted(key, n)
    <3> HIDE DEF m, y, n
    <3> QED  BY <1>1, <2>1, <2>2, WantedLess
  <2> QED  BY <1>2, <2>1, <2>3
<1> QED  BY <1>2, <1>4, <1>5

LEMMA HitFacts ==
    ASSUME NEW t, NEW I, Shaped(t), Indexed(t, I), NEW key \in DOMAIN Hash,
           NEW x \in 0..bucket_count(t), Hit(t, key, x)
    PROVE  /\ Here(t, key, x).value_idx \in I
           /\ key_at(t, Here(t, key, x).value_idx) = key
           /\ Dist(t, Along(t, bucket_idx_from_hash(t, key), x)) # 0
<1> DEFINE b == Along(t, bucket_idx_from_hash(t, key), x)
<1>1. b \in Slots(t) /\ Here(t, key, x) = at(t, b) /\ Stored(t, key, x) = Dist(t, b)
  BY HereFacts
<1>2. Wanted(key, x) >= DistInc /\ DistInc \in Nat \ {0}
  <2>1. x \in Nat
    BY ShapedFacts
  <2> QED  BY <2>1, WantedFacts, DenseTableAssumption
<1>3. Dist(t, b) # 0
  BY <1>1, <1>2 DEF Hit
<1>4. ValueAt(t, b) \in I
  <2> HIDE DEF b
  <2> QED  BY <1>1, <1>3, PlacedFacts
<1> QED  BY <1>1, <1>3, <1>4 DEF Hit, SameKey, ValueAt

LEMMA Reached ==
    ASSUME NEW t, NEW I, Shaped(t), Indexed(t, I), NEW i \in I, NEW key, key = key_at(t, i)
    PROVE  \E d \in Slots(t) : FoundAt(t, key, i, d)
<1> DEFINE n == bucket_count(t)
           h == bucket_idx_from_hash(t, key)
<1>1. PICK b \in Slots(t) : Dist(t, b) # 0 /\ ValueAt(t, b) = i
  BY DEF Indexed, OneEach
<1> DEFINE d == After(t, h, b)
<1>2. /\ key \in DOMAIN Hash /\ h \in Slots(t) /\ d \in Slots(t)
      /\ Dist(t, b) = Wanted(key, d) /\ Dist(t, b) \in Nat
  BY <1>1, PlacedFacts DEF HomeOf
<1>3. n \in Nat /\ d \in 0..n /\ d \in Nat /\ d < n
  BY <1>2, ShapedFacts DEF Slots
<1>4. Along(t, h, d) = b
  <2> HIDE DEF h
  <2> QED  BY <1>2, <1>3, RingFacts
<1>5. Here(t, key, d) = at(t, b) /\ Stored(t, key, d) = Dist(t, b)
  <2> HIDE DEF d
  <2> QED  BY <1>2, <1>3, <1>4, HereFacts DEF h
<1>6. \A x \in 0..n : Stored(t, key, x) \in Nat /\ Wanted(key, x) \in Nat
  BY <1>2, HereFacts
<1>7. \A x \in 0..d : Stored(t, key, x) >= Wanted(key, x)
  <2>1. Stored(t, key, d) >= Wanted(key, d)
    BY <1>2, <1>5
  <2> HIDE DEF d
  <2> QED  BY <1>2, <1>3, <2>1, PathDown
<1>8. \A x \in d..n : Wanted(key, x) >= Stored(t, key, x)
  <2> SUFFICES ASSUME NEW x \in d..n, ~(Wanted(key, x) >= Stored(t, key, x)) PROVE FALSE
    OBVIOUS
  <2>1. x \in 0..bucket_count(t) /\ d \in 0..x
    BY <1>3
  <2>2. Stored(t, key, x) > Wanted(key, x)
    BY <1>6, <2>1
  <2>3. Stored(t, key, d) > Wanted(key, d)
    <3> HIDE DEF d
    <3> QED  BY <1>2, <2>1, <2>2, PathDown
  <2> QED  BY <1>2, <1>5, <2>3
<1>9. ASSUME NEW x \in 0..n, Dist(t, Along(t, h, x)) # 0, Here(t, key, x).value_idx = i
      PROVE  x = d \/ x = n
  <2>1. Along(t, h, x) \in Slots(t) /\ Here(t, key, x) = at(t, Along(t, h, x))
    BY <1>2, HereFacts
  <2>2. Along(t, h, x) = b
    BY <1>1, <1>9, <2>1 DEF Indexed, OneEach, ValueAt
  <2>3. CASE x = n
    BY <2>3
  <2>4. CASE x # n
    <3>1. x \in Slots(t)
      BY <1>3, <2>4 DEF Slots
    <3>2. After(t, h, Along(t, h, x)) = x
      <4> HIDE DEF h
      <4> QED  BY <1>2, <1>3, <3>1, AlongFacts
    <3> QED  BY <2>2, <3>2
  <2> QED  BY <2>3, <2>4
<1>10. ASSUME NEW x \in 0..n PROVE Hit(t, key, x) <=> x = d
  <2>1. ASSUME Hit(t, key, x) PROVE x = d
    <3>1. /\ Here(t, key, x).value_idx \in I /\ key_at(t, Here(t, key, x).value_idx) = key
          /\ Dist(t, Along(t, h, x)) # 0
      BY <1>2, <2>1, HitFacts
    <3>2. Here(t, key, x).value_idx = i
      BY <3>1 DEF Indexed, KeysApart
    <3>3. x # n
      <4>1. Wanted(key, n) > Stored(t, key, n) /\ Wanted(key, n) \in Nat /\ Stored(t, key, n) \in Nat
        BY <1>2, PathEnds
      <4> QED  BY <2>1, <4>1 DEF Hit
    <3> QED  BY <1>9, <3>1, <3>2, <3>3
  <2>2. ASSUME x = d PROVE Hit(t, key, x)
    BY <1>1, <1>2, <1>5, <2>2 DEF Hit, SameKey, ValueAt
  <2> QED  BY <2>1, <2>2
<1>11. ASSUME NEW x \in 0..d, Here(t, key, x).value_idx = i PROVE x = d
  <2>1. x \in 0..n /\ x # n /\ x \in Nat
    BY <1>3
  <2>2. Stored(t, key, x) >= Wanted(key, x) /\ Wanted(key, x) >= DistInc /\ DistInc \in Nat \ {0}
    BY <1>2, <1>7, <2>1, WantedFacts, DenseTableAssumption
  <2>3. Stored(t, key, x) = Dist(t, Along(t, h, x)) /\ Stored(t, key, x) \in Nat /\ Wanted(key, x) \in Nat
    BY <1>2, <2>1, HereFacts
  <2>4. Dist(t, Along(t, h, x)) # 0
    BY <2>2, <2>3
  <2> QED  BY <1>9, <1>11, <2>1, <2>4
<1>12. Stored(t, key, d) = Wanted(key, d) /\ Here(t, key, d).value_idx = i
  BY <1>1, <1>2, <1>5 DEF ValueAt
<1>13. FoundAt(t, key, i, d)
  <2> HIDE DEF d
  <2> QED  BY <1>2, <1>7, <1>8, <1>10, <1>11, <1>12 DEF FoundAt
<1> QED  BY <1>2, <1>13

LEMMA PresentFacts ==
    ASSUME NEW t, NEW I, Shaped(t), Indexed(t, I), NEW i \in I, NEW key, key = key_at(t, i)
    PROVE  /\ Probe(t, key).found /\ Probe(t, key).idx = i
           /\ t.values # << >> => do_find(t, key) = i
           /\ EraseAt(t, key) \in Slots(t) /\ ValueAt(t, EraseAt(t, key)) = i
           /\ Dist(t, EraseAt(t, key)) # 0
           /\ bucket_of(t, key, i) \in Slots(t) /\ ValueAt(t, bucket_of(t, key, i)) = i
           /\ Dist(t, bucket_of(t, key, i)) # 0
<1> DEFINE n == bucket_count(t)
           h == bucket_idx_from_hash(t, key)
<1>1. PICK d \in Slots(t) : FoundAt(t, key, i, d)
  BY Reached
<1>2. n \in Nat \ {0} /\ d \in Nat /\ d < n /\ d \in 0..n /\ Distances(t) = 0..n
  BY <1>1, ShapedFacts DEF Slots, Distances
<1>3. key \in DOMAIN Hash
  BY DEF Indexed, KeysApart
<1>4. \A x \in 0..n : Stored(t, key, x) \in Nat /\ Wanted(key, x) \in Nat
  BY <1>3, HereFacts
<1>5. /\ next(t, h, d) \in Slots(t)
      /\ Here(t, key, d) = at(t, next(t, h, d)) /\ ValueAt(t, next(t, h, d)) = i
      /\ Dist(t, next(t, h, d)) # 0
  <2>1. /\ next(t, h, d) \in Slots(t)
        /\ Here(t, key, d) = at(t, next(t, h, d))
        /\ Stored(t, key, d) = Dist(t, next(t, h, d))
    BY <1>2, <1>3, HereFacts
  <2>2. Wanted(key, d) >= DistInc /\ DistInc \in Nat \ {0} /\ Wanted(key, d) = Stored(t, key, d)
        /\ Here(t, key, d).value_idx = i
    BY <1>1, <1>2, <1>3, WantedFacts, DenseTableAssumption DEF FoundAt
  <2> QED  BY <2>1, <2>2 DEF ValueAt
<1>6. \A x \in 0..n : x < d => x \in 0..d /\ x # d /\ ~Hit(t, key, x) /\ ~(Wanted(key, x) > Stored(t, key, x))
  <2> TAKE x \in 0..n
  <2> HAVE x < d
  <2>1. x \in 0..d /\ x # d
    BY <1>2
  <2> QED  BY <1>1, <1>4, <2>1 DEF FoundAt
<1>7. Hit(t, key, d)
  BY <1>1, <1>2 DEF FoundAt
<1>8. Min({x \in Distances(t) : Hit(t, key, x) \/ Wanted(key, x) > Stored(t, key, x)}) = d
  <2> DEFINE S == {x \in Distances(t) : Hit(t, key, x) \/ Wanted(key, x) > Stored(t, key, x)}
  <2>1. S \subseteq Nat /\ d \in S
    BY <1>2, <1>7
  <2>2. \A y \in S : d =< y
    BY <1>2, <1>6
  <2> HIDE DEF S
  <2> QED  BY <2>1, <2>2, MinIs DEF S
<1>9. Min({x \in 0..(bucket_count(t) + 2) :
              Hit(t, key, x) \/ (x >= 2 /\ Wanted(key, x) > Stored(t, key, x))}) = d
  <2> DEFINE S == {x \in 0..(bucket_count(t) + 2) :
                      Hit(t, key, x) \/ (x >= 2 /\ Wanted(key, x) > Stored(t, key, x))}
  <2>1. S \subseteq Nat /\ d \in S
    BY <1>2, <1>7
  <2>2. \A y \in S : d =< y
    <3> TAKE y \in S
    <3>1. CASE y < d
      <4>1. y \in 0..n
        BY <1>2, <3>1
      <4> QED  BY <1>6, <3>1, <4>1
    <3> QED  BY <1>2, <3>1
  <2> HIDE DEF S
  <2> QED  BY <2>1, <2>2, MinIs DEF S
<1>10. Min({x \in Distances(t) : Here(t, key, x).value_idx = i}) = d
  <2> DEFINE S == {x \in Distances(t) : Here(t, key, x).value_idx = i}
  <2>1. S \subseteq Nat /\ d \in S
    BY <1>1, <1>2 DEF FoundAt
  <2>2. \A y \in S : d =< y
    BY <1>1, <1>2, <1>6 DEF FoundAt
  <2> HIDE DEF S
  <2> QED  BY <2>1, <2>2, MinIs DEF S
<1>11. EraseAt(t, key) = next(t, h, d)
  <2> DEFINE F == {x \in Distances(t) : Wanted(key, x) >= Stored(t, key, x)}
             first == Min(F)
             S == {x \in first..(bucket_count(t) + 1) :
                     Wanted(key, x) # Stored(t, key, x) \/ SameKey(t, key, x)}
  <2>1. F \subseteq Nat /\ d \in F
    BY <1>1, <1>2, <1>4 DEF FoundAt
  <2>2. first \in F /\ first =< d
    <3> HIDE DEF F
    <3> QED  BY <2>1, MinFacts
  <2>3. first \in Nat /\ first \in 0..n /\ Wanted(key, first) >= Stored(t, key, first)
    BY <1>2, <2>2
  <2> HIDE DEF first
  <2>4. \A x \in first..d : Wanted(key, x) = Stored(t, key, x)
    <3> TAKE x \in first..d
    <3>1. x \in 0..d /\ x \in 0..n /\ x \in 0..bucket_count(t) /\ first \in 0..x
      BY <1>2, <2>2, <2>3
    <3>2. Stored(t, key, x) >= Wanted(key, x)
      BY <1>1, <3>1 DEF FoundAt
    <3>3. ~(Stored(t, key, x) > Wanted(key, x))
      <4> SUFFICES ASSUME Stored(t, key, x) > Wanted(key, x) PROVE FALSE
        OBVIOUS
      <4>1. Stored(t, key, first) > Wanted(key, first)
        BY <1>3, <3>1, PathDown
      <4>2. Stored(t, key, first) \in Nat /\ Wanted(key, first) \in Nat
        BY <1>4, <2>3
      <4> QED  BY <2>3, <4>1, <4>2
    <3>4. Stored(t, key, x) \in Nat /\ Wanted(key, x) \in Nat
      BY <1>4, <3>1
    <3> QED  BY <3>2, <3>3, <3>4
  <2>5. S \subseteq Nat /\ d \in S
    <3>1. SameKey(t, key, d)
      BY <1>7 DEF Hit
    <3> QED  BY <1>2, <2>2, <2>3, <3>1
  <2>6. \A y \in S : d =< y
    <3> TAKE y \in S
    <3>1. CASE y < d
      <4>1. y \in first..d /\ y \in 0..n
        BY <1>2, <2>3, <3>1
      <4>2. Hit(t, key, y)
        BY <2>4, <4>1 DEF Hit
      <4> QED  BY <1>6, <3>1, <4>1, <4>2
    <3> QED  BY <1>2, <2>5, <3>1
  <2>7. Min(S) = d
    <3> HIDE DEF S
    <3> QED  BY <2>5, <2>6, MinIs
  <2>8. Wanted(key, d) = Stored(t, key, d)
    BY <1>1 DEF FoundAt
  <2> QED  BY <2>7, <2>8 DEF EraseAt, first
<1>12. Probe(t, key).found /\ Probe(t, key).idx = i
  <2>1. Here(t, key, d).value_idx = i
    BY <1>1 DEF FoundAt
  <2> QED  BY <1>7, <1>8, <2>1 DEF Probe
<1>13. t.values # << >> => do_find(t, key) = i
  <2>1. Here(t, key, d).value_idx = i
    BY <1>1 DEF FoundAt
  <2> QED  BY <1>7, <1>9, <2>1 DEF do_find
<1>14. bucket_of(t, key, i) = next(t, h, d)
  BY <1>10 DEF bucket_of
<1> QED  BY <1>5, <1>11, <1>12, <1>13, <1>14

-----------------------------------------------------------------------------
(* d buckets from its home is where a key belongs that is not there.       *)
GoesAt(t, key, d) ==
    /\ d \in 0..bucket_count(t)
    /\ Wanted(key, d) >= Stored(t, key, d)
    /\ d > 0 => Stored(t, key, d - 1) >= Wanted(key, d - 1)

LEMMA AbsentFacts ==
    ASSUME NEW t, NEW I, Shaped(t), Indexed(t, I), NEW key \in DOMAIN Hash,
           \A i \in I : key_at(t, i) # key
    PROVE  /\ ~Probe(t, key).found
           /\ do_find(t, key) = end(t)
           /\ EraseAt(t, key) = -1
           /\ \E d \in 0..bucket_count(t) :
                  /\ GoesAt(t, key, d)
                  /\ Probe(t, key).daf = Wanted(key, d)
                  /\ Probe(t, key).place = next(t, bucket_idx_from_hash(t, key), d)
           /\ \E d \in 0..bucket_count(t) :
                  /\ GoesAt(t, key, d)
                  /\ next_while_less(t, key).daf = Wanted(key, d)
                  /\ next_while_less(t, key).place = next(t, bucket_idx_from_hash(t, key), d)
<1> DEFINE n == bucket_count(t)
           h == bucket_idx_from_hash(t, key)
<1>1. n \in Nat \ {0, 1} /\ Distances(t) = 0..n
  BY ShapedFacts DEF Distances
<1>2. \A x \in 0..n : Stored(t, key, x) \in Nat /\ Wanted(key, x) \in Nat
  BY HereFacts
<1>3. \A x \in 0..n : ~Hit(t, key, x)
  BY HitFacts
<1>4. Wanted(key, n) > Stored(t, key, n)
  BY PathEnds
<1>5. \E d \in 0..n :
          /\ GoesAt(t, key, d)
          /\ ~Hit(t, key, d)
          /\ d = Min({x \in Distances(t) : Hit(t, key, x) \/ Wanted(key, x) > Stored(t, key, x)})
  <2> DEFINE S == {x \in Distances(t) : Hit(t, key, x) \/ Wanted(key, x) > Stored(t, key, x)}
             d == Min(S)
  <2>1. S \subseteq Nat /\ n \in S
    BY <1>1, <1>4
  <2>2. d \in S /\ \A y \in S : d =< y
    <3> HIDE DEF S
    <3> QED  BY <2>1, MinFacts
  <2> HIDE DEF d
  <2>3. d \in 0..n /\ Wanted(key, d) > Stored(t, key, d)
    BY <1>1, <1>3, <2>2
  <2>4. ASSUME d > 0 PROVE Stored(t, key, d - 1) >= Wanted(key, d - 1)
    <3>1. d - 1 \in 0..n /\ ~(d =< d - 1)
      BY <1>1, <2>3, <2>4
    <3>2. d - 1 \notin S
      BY <2>2, <3>1
    <3>3. ~(Wanted(key, d - 1) > Stored(t, key, d - 1))
      BY <1>1, <3>1, <3>2
    <3> QED  BY <1>2, <3>1, <3>3
  <2>5. Wanted(key, d) >= Stored(t, key, d)
    BY <1>2, <2>3
  <2>6. GoesAt(t, key, d)
    BY <2>3, <2>4, <2>5 DEF GoesAt
  <2> QED  BY <1>3, <2>3, <2>6 DEF d
<1>6. \E d \in 0..n :
          /\ GoesAt(t, key, d)
          /\ d = Min({x \in Distances(t) : Wanted(key, x) >= Stored(t, key, x)})
  <2> DEFINE S == {x \in Distances(t) : Wanted(key, x) >= Stored(t, key, x)}
             d == Min(S)
  <2>1. S \subseteq Nat /\ n \in S
    BY <1>1, <1>2, <1>4
  <2>2. d \in S /\ \A y \in S : d =< y
    <3> HIDE DEF S
    <3> QED  BY <2>1, MinFacts
  <2> HIDE DEF d
  <2>3. d \in 0..n /\ Wanted(key, d) >= Stored(t, key, d)
    BY <1>1, <1>3, <2>2
  <2>4. ASSUME d > 0 PROVE Stored(t, key, d - 1) >= Wanted(key, d - 1)
    <3>1. d - 1 \in 0..n /\ ~(d =< d - 1)
      BY <1>1, <2>3, <2>4
    <3>2. d - 1 \notin S
      BY <2>2, <3>1
    <3>3. ~(Wanted(key, d - 1) >= Stored(t, key, d - 1))
      BY <1>1, <3>1, <3>2
    <3> QED  BY <1>2, <3>1, <3>3
  <2>6. GoesAt(t, key, d)
    BY <2>3, <2>4 DEF GoesAt
  <2> QED  BY <2>3, <2>6 DEF d
<1>7. do_find(t, key) = end(t)
  <2> DEFINE S == {x \in 0..(bucket_count(t) + 2) :
                      Hit(t, key, x) \/ (x >= 2 /\ Wanted(key, x) > Stored(t, key, x))}
  <2>1. S \subseteq Nat /\ n \in S
    BY <1>1, <1>4
  <2>2. Min(S) \in S /\ Min(S) =< n
    <3> HIDE DEF S
    <3> QED  BY <2>1, MinFacts
  <2>3. Min(S) \in 0..n
    BY <1>1, <2>1, <2>2
  <2>4. ~Hit(t, key, Min(S))
    <3> HIDE DEF S
    <3> QED  BY <1>3, <2>3
  <2> QED  BY <2>4 DEF do_find
<1>8. EraseAt(t, key) = -1
  <2> DEFINE F == {x \in Distances(t) : Wanted(key, x) >= Stored(t, key, x)}
             first == Min(F)
             S == {x \in first..(bucket_count(t) + 1) :
                     Wanted(key, x) # Stored(t, key, x) \/ SameKey(t, key, x)}
  <2>1. F \subseteq Nat /\ n \in F
    BY <1>1, <1>2, <1>4
  <2>2. first \in F /\ first =< n
    <3> HIDE DEF F
    <3> QED  BY <2>1, MinFacts
  <2>3. first \in Nat /\ first \in 0..n
    BY <1>1, <2>2
  <2> HIDE DEF first
  <2>4. S \subseteq Nat /\ n \in S
    BY <1>1, <1>2, <1>4, <2>3
  <2>5. Min(S) \in S /\ Min(S) =< n
    <3> HIDE DEF S
    <3> QED  BY <2>4, MinFacts
  <2>6. Min(S) \in 0..n
    BY <1>1, <2>4, <2>5
  <2>7. Wanted(key, Min(S)) # Stored(t, key, Min(S))
    <3> SUFFICES ASSUME Wanted(key, Min(S)) = Stored(t, key, Min(S)) PROVE FALSE
      OBVIOUS
    <3>1. SameKey(t, key, Min(S))
      BY <2>5
    <3> HIDE DEF S
    <3> QED  BY <1>3, <2>6, <3>1 DEF Hit
  <2> QED  BY <2>7 DEF EraseAt, first
<1>9. ~Probe(t, key).found
  BY <1>5 DEF Probe
<1>10. \E d \in 0..n :
           /\ GoesAt(t, key, d)
           /\ Probe(t, key).daf = Wanted(key, d)
           /\ Probe(t, key).place = next(t, h, d)
  <2>1. PICK d \in 0..n :
          /\ GoesAt(t, key, d)
          /\ d = Min({x \in Distances(t) : Hit(t, key, x) \/ Wanted(key, x) > Stored(t, key, x)})
    BY <1>5
  <2> QED  BY <2>1 DEF Probe
<1>11. \E d \in 0..n :
           /\ GoesAt(t, key, d)
           /\ next_while_less(t, key).daf = Wanted(key, d)
           /\ next_while_less(t, key).place = next(t, h, d)
  <2>1. PICK d \in 0..n :
          /\ GoesAt(t, key, d)
          /\ d = Min({x \in Distances(t) : Wanted(key, x) >= Stored(t, key, x)})
    BY <1>6
  <2> QED  BY <2>1 DEF next_while_less
<1> QED  BY <1>7, <1>8, <1>9, <1>10, <1>11

(* A key goes before the next empty bucket, or into it.                    *)
LEMMA GoesInside ==
    ASSUME NEW t, NEW I, Shaped(t), Indexed(t, I), NEW key \in DOMAIN Hash,
           NEW e \in Slots(t), Dist(t, e) = 0, NEW d, GoesAt(t, key, d)
    PROVE  d \in Slots(t)
<1> DEFINE n == bucket_count(t)
           h == bucket_idx_from_hash(t, key)
           x == After(t, h, e)
<1>1. n \in Nat /\ h \in Slots(t) /\ x \in Slots(t) /\ Along(t, h, x) = e
  <2>1. n \in Nat /\ h \in Slots(t)
    BY ShapedFacts DEF Shaped
  <2> HIDE DEF h
  <2> QED  BY <2>1, RingFacts
<1>2. x \in 0..n /\ x < n /\ d \in 0..n
  BY <1>1 DEF Slots, GoesAt
<1>3. Stored(t, key, x) = 0
  <2> HIDE DEF x
  <2> QED  BY <1>1, <1>2, HereFacts DEF h
<1>4. Wanted(key, x) > 0
  <2>1. x \in Nat
    BY <1>2
  <2> HIDE DEF x
  <2> QED  BY <2>1, WantedFacts, DenseTableAssumption
<1>5. CASE d =< x
  BY <1>1, <1>2, <1>5 DEF Slots
<1>6. CASE ~(d =< x)
  <2>1. d - 1 \in 0..bucket_count(t) /\ d > 0 /\ x \in 0..(d - 1)
    BY <1>1, <1>2, <1>6
  <2>2. Stored(t, key, d - 1) >= Wanted(key, d - 1)
    BY <2>1 DEF GoesAt
  <2>3. Stored(t, key, x) >= Wanted(key, x)
    <3> HIDE DEF x
    <3> QED  BY <2>1, <2>2, PathDown
  <2>4. Wanted(key, x) \in Nat
    BY <1>2, HereFacts
  <2> QED  BY <1>3, <1>4, <2>3, <2>4
<1> QED  BY <1>5, <1>6

(* Nothing that has its place goes all the way round to an empty bucket.   *)
LEMMA BeforeEmpty ==
    ASSUME NEW t, NEW I, Shaped(t), Indexed(t, I), NEW e \in Slots(t), Dist(t, e) = 0,
           NEW b \in Slots(t), Dist(t, b) # 0
    PROVE  After(t, HomeOf(t, ValueAt(t, b)), b) < bucket_count(t) - 1
<1> DEFINE n == bucket_count(t)
           i == ValueAt(t, b)
           key == key_at(t, i)
           h == bucket_idx_from_hash(t, key)
           d == After(t, h, b)
           x == After(t, h, e)
<1>1. /\ key \in DOMAIN Hash /\ h \in Slots(t) /\ d \in Slots(t)
      /\ Dist(t, b) = Wanted(key, d) /\ Dist(t, b) \in Nat /\ n \in Nat
  BY PlacedFacts, ShapedFacts DEF HomeOf
<1>2. x \in Slots(t) /\ Along(t, h, x) = e /\ Along(t, h, d) = b
  <2> HIDE DEF h
  <2> QED  BY <1>1, RingFacts
<1>3. d \in 0..n /\ x \in 0..n /\ x < n /\ d < n /\ x \in Nat
  BY <1>1, <1>2 DEF Slots
<1> SUFFICES ASSUME d = n - 1 PROVE FALSE
  BY <1>1, <1>3 DEF HomeOf
<1>4. x \in 0..d
  BY <1>1, <1>3
<1>5. Stored(t, key, d) = Dist(t, b) /\ Stored(t, key, x) = Dist(t, e)
  <2> HIDE DEF d, x, key
  <2> QED  BY <1>1, <1>2, <1>3, HereFacts DEF h
<1>6. Stored(t, key, d) >= Wanted(key, d)
  BY <1>1, <1>5
<1>7. Stored(t, key, x) >= Wanted(key, x)
  <2> HIDE DEF d, x, key
  <2> QED  BY <1>1, <1>3, <1>4, <1>6, PathDown
<1>8. Wanted(key, x) \in Nat /\ Wanted(key, x) > 0
  <2> HIDE DEF x, key
  <2> QED  BY <1>1, <1>3, WantedFacts, DenseTableAssumption
<1> QED  BY <1>5, <1>7, <1>8

-----------------------------------------------------------------------------
LoadType == {f \in (Nat \ {0}) \X (Nat \ {0}) : f[1] =< f[2]}

TableType(V) ==
    [values : Seq([key : DOMAIN Hash, val : V]), buckets : Seq(BucketType),
     max_bucket_capacity : Nat, max_load_factor : LoadType, shifts : 0..initial_shifts]

(* u is t but for what its buckets hold.                                   *)
OtherBuckets(t, u) ==
    /\ bucket_count(u) = bucket_count(t) /\ u.buckets \in Seq(BucketType)
    /\ u = [t EXCEPT !.buckets = u.buckets]

LEMMA OtherBucketsFacts ==
    ASSUME NEW V, NEW t \in TableType(V), NEW u, OtherBuckets(t, u)
    PROVE  /\ u \in TableType(V)
           /\ u.values = t.values /\ size(u) = size(t)
           /\ u.shifts = t.shifts
           /\ u.max_bucket_capacity = t.max_bucket_capacity
           /\ u.max_load_factor = t.max_load_factor
           /\ bucket_count(u) = bucket_count(t)
           /\ Slots(u) = Slots(t)
           /\ \A i : key_at(u, i) = key_at(t, i) /\ HomeOf(u, i) = HomeOf(t, i)
           /\ \A key : bucket_idx_from_hash(u, key) = bucket_idx_from_hash(t, key)
           /\ \A a, b : After(u, a, b) = After(t, a, b) /\ Along(u, a, b) = Along(t, a, b)
           /\ \A b : Prev(u, b) = Prev(t, b)
           /\ Shaped(t) => Shaped(u)
<1>1. u = [t EXCEPT !.buckets = u.buckets] /\ u.buckets \in Seq(BucketType)
      /\ bucket_count(u) = bucket_count(t)
  BY DEF OtherBuckets
<1>2. /\ u \in TableType(V)
      /\ u.values = t.values
      /\ u.shifts = t.shifts
      /\ u.max_bucket_capacity = t.max_bucket_capacity
      /\ u.max_load_factor = t.max_load_factor
  BY <1>1 DEF TableType
<1>3. Slots(u) = Slots(t)
  BY <1>1 DEF Slots
<1>4. \A key : bucket_idx_from_hash(u, key) = bucket_idx_from_hash(t, key)
  BY <1>2 DEF bucket_idx_from_hash
<1>5. \A i : key_at(u, i) = key_at(t, i)
  BY <1>2 DEF key_at
<1>6. \A i : HomeOf(u, i) = HomeOf(t, i)
  BY <1>4, <1>5 DEF HomeOf
<1>7. \A a, b : After(u, a, b) = After(t, a, b) /\ Along(u, a, b) = Along(t, a, b)
  BY <1>1 DEF After, Along
<1>8. \A b : Prev(u, b) = Prev(t, b)
  BY <1>1 DEF Prev
<1>9. Shaped(t) => Shaped(u)
  BY <1>1, <1>3, <1>4 DEF Shaped
<1> QED  BY <1>1, <1>2, <1>3, <1>4, <1>5, <1>6, <1>7, <1>8, <1>9 DEF size

(* The buckets from place up to the next empty one, k further on, have     *)
(* moved along, and bucket is at place.                                    *)
ShiftsUp(t, u, bucket, place, k) ==
    /\ k \in Slots(t)
    /\ at(t, Along(t, place, k)) = EmptyBucket
    /\ \A j \in 0..(k - 1) : at(t, Along(t, place, j)) # EmptyBucket
    /\ \A b \in Slots(t) :
           at(u, b) = IF After(t, place, b) = 0 THEN bucket
                      ELSE IF After(t, place, b) =< k
                      THEN Bucket(Dist(t, Prev(t, b)) + DistInc, ValueAt(t, Prev(t, b)))
                      ELSE at(t, b)

LEMMA ShiftUpFacts ==
    ASSUME NEW V, NEW t \in TableType(V), Shaped(t), NEW bucket \in BucketType,
           NEW place \in Slots(t), NEW e \in Slots(t), at(t, e) = EmptyBucket,
           NEW u, u = place_and_shift_up(t, bucket, place)
    PROVE  OtherBuckets(t, u) /\ \E k : ShiftsUp(t, u, bucket, place, k)
<1> DEFINE n == bucket_count(t)
           S == {d \in Distances(t) : at(t, next(t, place, d)) = EmptyBucket}
           k == Min(S)
           x == After(t, place, e)
           moved(d) == LET old == at(t, next(t, place, d - 1))
                       IN  Bucket(old.dist_and_fingerprint + DistInc, old.value_idx)
           new(i) == LET d == (i - 1 - place) % bucket_count(t)
                     IN  IF d = 0 THEN bucket ELSE IF d =< k THEN moved(d) ELSE t.buckets[i]
<1>1. n \in Nat \ {0, 1} /\ DOMAIN t.buckets = 1..n /\ Distances(t) = 0..n
  BY ShapedFacts DEF Distances
<1>2. x \in Slots(t) /\ Along(t, place, x) = e
  BY <1>1, RingFacts
<1>3. x \in 0..n /\ x \in S
  <2>1. x \in 0..n
    BY <1>1, <1>2 DEF Slots
  <2>2. next(t, place, x) = e
    <3> HIDE DEF x
    <3> QED  BY <1>1, <1>2, <2>1, NextAlong
  <2> QED  BY <1>1, <2>1, <2>2
<1>4. k \in S /\ \A y \in S : k =< y
  <2>1. S \subseteq Nat
    BY <1>1
  <2> HIDE DEF S
  <2> QED  BY <1>3, <2>1, MinFacts
<1>5. k \in Slots(t)
  <2>1. k =< x /\ x \in 0..(n - 1)
    BY <1>2, <1>3, <1>4 DEF Slots
  <2>2. k \in Nat
    <3>1. S \subseteq Nat
      BY <1>1
    <3> HIDE DEF S
    <3> QED  BY <1>4, <3>1
  <2> HIDE DEF k, x
  <2> QED  BY <1>1, <2>1, <2>2 DEF Slots
<1>6. \A d \in 0..n : next(t, place, d) = Along(t, place, d)
  BY <1>1, NextAlong
<1>7. u = [t EXCEPT !.buckets = [i \in DOMAIN t.buckets |-> new(i)]]
  BY DEF place_and_shift_up
<1>8. /\ u = [t EXCEPT !.buckets = u.buckets]
      /\ u.buckets = [i \in 1..n |-> new(i)]
  <2> HIDE DEF new, n
  <2> QED  BY <1>1, <1>7 DEF TableType
<1>9. ASSUME NEW b \in Slots(t)
      PROVE  /\ new(b + 1) = IF After(t, place, b) = 0 THEN bucket
                             ELSE IF After(t, place, b) =< k
                             THEN Bucket(Dist(t, Prev(t, b)) + DistInc, ValueAt(t, Prev(t, b)))
                             ELSE at(t, b)
             /\ new(b + 1) \in BucketType
  <2> DEFINE d == After(t, place, b)
  <2>1. ((b + 1) - 1 - place) % bucket_count(t) = d
    <3>1. (b + 1) - 1 = b
      BY DEF Slots
    <3>2. (b - place) % bucket_count(t) = d
      BY <1>1, AfterIs
    <3> QED  BY <3>1, <3>2
  <2>2. d \in Slots(t) /\ Along(t, place, d) = b /\ Prev(t, b) \in Slots(t)
    BY <1>1, RingFacts
  <2>3. d \in 0..n /\ (d # 0 => d > 0 /\ d - 1 \in 0..n)
    BY <1>1, <2>2 DEF Slots
  <2>4. d # 0 => next(t, place, d - 1) = Prev(t, b)
    <3> HAVE d # 0
    <3>1. Prev(t, Along(t, place, d)) = Along(t, place, d - 1)
      <4> HIDE DEF d
      <4> QED  BY <1>1, <2>2, <2>3, AlongFacts
    <3> QED  BY <1>6, <2>2, <2>3, <3>1
  <2>5. d # 0 => moved(d) = Bucket(Dist(t, Prev(t, b)) + DistInc, ValueAt(t, Prev(t, b)))
    BY <2>4 DEF Dist, ValueAt
  <2>6. at(t, b) = t.buckets[b + 1]
    BY DEF at
  <2>7. /\ at(t, b) \in BucketType
        /\ Bucket(Dist(t, Prev(t, b)) + DistInc, ValueAt(t, Prev(t, b))) \in BucketType
    <3>1. /\ at(t, b) \in BucketType
          /\ Dist(t, Prev(t, b)) \in Nat /\ ValueAt(t, Prev(t, b)) \in Nat /\ DistInc \in Nat
      BY <2>2, ShapedFacts, DenseTableAssumption
    <3> QED  BY <3>1 DEF Bucket, BucketType
  <2>8. new(b + 1) = IF d = 0 THEN bucket
                     ELSE IF d =< k
                     THEN Bucket(Dist(t, Prev(t, b)) + DistInc, ValueAt(t, Prev(t, b)))
                     ELSE at(t, b)
    <3> HIDE DEF moved, d, k
    <3> QED  BY <2>1, <2>5, <2>6
  <2> HIDE DEF new, k, moved
  <2> QED  BY <2>7, <2>8
<1>10. \A i \in 1..n : new(i) \in BucketType
  <2> TAKE i \in 1..n
  <2>1. i - 1 \in Slots(t) /\ (i - 1) + 1 = i
    BY <1>1 DEF Slots
  <2>2. new((i - 1) + 1) \in BucketType
    <3> HIDE DEF new
    <3> QED  BY <1>9, <2>1
  <2> HIDE DEF new
  <2> QED  BY <2>1, <2>2
<1>11. u.buckets \in Seq(BucketType) /\ Len(u.buckets) = n
  <2> HIDE DEF new, n
  <2> QED  BY <1>1, <1>8, <1>10
<1>12. OtherBuckets(t, u)
  BY <1>8, <1>11 DEF OtherBuckets, bucket_count
<1>13. \A b \in Slots(t) : at(u, b) = new(b + 1)
  <2> TAKE b \in Slots(t)
  <2>1. b + 1 \in 1..n
    BY <1>1 DEF Slots
  <2> HIDE DEF new
  <2> QED  BY <1>8, <2>1 DEF at
<1>14. at(t, Along(t, place, k)) = EmptyBucket
  <2>1. k \in 0..n /\ at(t, next(t, place, k)) = EmptyBucket
    BY <1>1, <1>4
  <2> HIDE DEF k
  <2> QED  BY <1>6, <2>1
<1>15. \A j \in 0..(k - 1) : at(t, Along(t, place, j)) # EmptyBucket
  <2> TAKE j \in 0..(k - 1)
  <2>1. j \in 0..n /\ ~(k =< j)
    <3> HIDE DEF k
    <3> QED  BY <1>1, <1>5 DEF Slots
  <2>2. j \notin S
    BY <1>4, <2>1
  <2>3. at(t, next(t, place, j)) # EmptyBucket
    BY <1>1, <2>1, <2>2
  <2> QED  BY <1>6, <2>1, <2>3
<1>16. ShiftsUp(t, u, bucket, place, k)
  <2> HIDE DEF k, new
  <2> QED  BY <1>5, <1>9, <1>13, <1>14, <1>15 DEF ShiftsUp
<1> QED  BY <1>12, <1>16

-----------------------------------------------------------------------------
(* A value with a key of its own is put in its place: each value still has *)
(* its bucket, and probing finds what it relies on.                        *)
LEMMA PlacedIndexed ==
    ASSUME NEW V, NEW t \in TableType(V), NEW I, Shaped(t), Indexed(t, I),
           NEW i \in Nat, i \notin I, NEW key \in DOMAIN Hash, key_at(t, i) = key,
           \A j \in I : key_at(t, j) # key,
           NEW e \in Slots(t), Dist(t, e) = 0,
           NEW d, GoesAt(t, key, d), NEW p, p = next(t, bucket_idx_from_hash(t, key), d),
           NEW u, u = place_and_shift_up(t, Bucket(Wanted(key, d), i), p)
    PROVE  OtherBuckets(t, u) /\ Indexed(u, I \cup {i})
<1> DEFINE n == bucket_count(t)
           h == bucket_idx_from_hash(t, key)
           o(b) == After(t, p, b)
<1>1. n \in Nat \ {0, 1} /\ h \in Slots(t) /\ DistInc \in Nat \ {0} /\ d \in Slots(t) /\ d \in 0..n
      /\ d \in Nat
  <2>1. d \in Slots(t)
    BY GoesInside
  <2>2. n \in Nat \ {0, 1} /\ h \in Slots(t) /\ DistInc \in Nat \ {0}
    BY ShapedFacts, DenseTableAssumption DEF Shaped
  <2>3. d \in 0..n /\ d \in Nat
    BY <2>1, <2>2 DEF Slots
  <2> QED  BY <2>1, <2>2, <2>3
<1>2. /\ p \in Slots(t) /\ After(t, h, p) = d
      /\ Stored(t, key, d) = Dist(t, p) /\ Wanted(key, d) \in Nat
      /\ d > 0 => Stored(t, key, d - 1) = Dist(t, Prev(t, p)) /\ Wanted(key, d - 1) \in Nat
  <2>1. /\ p = Along(t, h, d) /\ p \in Slots(t)
        /\ Stored(t, key, d) = Dist(t, p) /\ Wanted(key, d) \in Nat
        /\ d > 0 => Along(t, h, d - 1) = Prev(t, p)
    BY <1>1, HereFacts
  <2>2. After(t, h, p) = d
    <3> HIDE DEF h
    <3> QED  BY <1>1, <2>1, AlongFacts
  <2>3. d > 0 => Stored(t, key, d - 1) = Dist(t, Prev(t, p)) /\ Wanted(key, d - 1) \in Nat
    <3> HAVE d > 0
    <3>1. d - 1 \in 0..bucket_count(t)
      BY <1>1
    <3> QED  BY <2>1, <3>1, HereFacts
  <2> QED  BY <2>1, <2>2, <2>3
<1>3. /\ Wanted(key, d) >= Dist(t, p)
      /\ d > 0 => /\ Dist(t, Prev(t, p)) >= Wanted(key, d - 1)
                  /\ Wanted(key, d) = Wanted(key, d - 1) + DistInc
                  /\ Wanted(key, d - 1) >= DistInc
      /\ Wanted(key, d) >= DistInc
      /\ d = 0 => Wanted(key, d) < 2 * DistInc
  <2>1. ASSUME d > 0 PROVE /\ Wanted(key, d) = Wanted(key, d - 1) + DistInc
                           /\ Wanted(key, d - 1) >= DistInc
    <3>1. d - 1 \in Nat /\ (d - 1) + 1 = d
      BY <1>1, <2>1
    <3> QED  BY <3>1, WantedFacts
  <2>2. d = 0 => Wanted(key, d) < 2 * DistInc
    <3> HAVE d = 0
    <3>1. Wanted(key, 0) \in DistInc..(2 * DistInc - 1)
      BY <1>1, WantedFacts
    <3> QED  BY <1>1, <3>1
  <2> QED  BY <1>1, <1>2, <2>1, <2>2, WantedFacts DEF GoesAt
<1> DEFINE bucket == Bucket(Wanted(key, d), i)
<1>4. OtherBuckets(t, u) /\ \E k : ShiftsUp(t, u, bucket, p, k)
  <2>1. bucket \in BucketType
    BY <1>2 DEF Bucket, BucketType
  <2>2. at(t, e) = EmptyBucket
    BY PlacedFacts
  <2> HIDE DEF bucket
  <2> QED  BY <1>2, <2>1, <2>2, ShiftUpFacts DEF bucket
<1>5. PICK k : ShiftsUp(t, u, bucket, p, k)
  BY <1>4
<1>6. k \in 0..(n - 1) /\ k \in Slots(t) /\ k \in Nat
  BY <1>1, <1>5 DEF ShiftsUp, Slots
<1>7. \A b \in Slots(t) :
          /\ o(b) \in Nat /\ o(b) < n
          /\ Prev(t, b) \in Slots(t)
          /\ Dist(t, b) \in Nat
          /\ o(b) = 0 <=> b = p
          /\ o(b) > 0 => o(Prev(t, b)) = o(b) - 1
          /\ o(b) = 0 => o(Prev(t, b)) = n - 1
  <2> TAKE b \in Slots(t)
  <2>1. /\ o(b) \in Slots(t) /\ Prev(t, b) \in Slots(t)
        /\ o(b) = 0 <=> b = p
        /\ o(b) > 0 => o(Prev(t, b)) = o(b) - 1
        /\ o(b) = 0 => o(Prev(t, b)) = n - 1
    BY <1>1, <1>2, RingFacts
  <2>2. Dist(t, b) \in Nat
    BY ShapedFacts
  <2>3. o(b) \in Nat /\ o(b) < n
    BY <1>1, <2>1 DEF Slots
  <2> QED  BY <2>1, <2>2, <2>3
<1>8. \A b \in Slots(t) :
          /\ o(b) < k => Dist(t, b) # 0
          /\ o(b) = k => Dist(t, b) = 0
  <2> TAKE b \in Slots(t)
  <2>1. Along(t, p, o(b)) = b
    BY <1>1, <1>2, RingFacts
  <2>2. o(b) < k => o(b) \in 0..(k - 1)
    BY <1>6, <1>7
  <2>3. at(t, b) = EmptyBucket <=> Dist(t, b) = 0
    BY PlacedFacts
  <2> HIDE DEF o
  <2> QED  BY <1>5, <2>1, <2>2, <2>3 DEF ShiftsUp
<1>9. \A b \in Slots(t) :
          /\ o(b) = 0 => Dist(u, b) = Wanted(key, d) /\ ValueAt(u, b) = i
          /\ o(b) > 0 /\ o(b) =< k => /\ Dist(u, b) = Dist(t, Prev(t, b)) + DistInc
                                      /\ ValueAt(u, b) = ValueAt(t, Prev(t, b))
                                      /\ Dist(t, Prev(t, b)) # 0
          /\ o(b) > k => /\ at(u, b) = at(t, b)
                         /\ Dist(u, b) = Dist(t, b) /\ ValueAt(u, b) = ValueAt(t, b)
  <2> TAKE b \in Slots(t)
  <2>1. at(u, b) = IF o(b) = 0 THEN bucket
                   ELSE IF o(b) =< k
                   THEN Bucket(Dist(t, Prev(t, b)) + DistInc, ValueAt(t, Prev(t, b)))
                   ELSE at(t, b)
    BY <1>5 DEF ShiftsUp
  <2>2. o(b) > 0 /\ o(b) =< k => Dist(t, Prev(t, b)) # 0
    <3> HAVE o(b) > 0 /\ o(b) =< k
    <3>1. Prev(t, b) \in Slots(t) /\ o(Prev(t, b)) = o(b) - 1 /\ o(b) \in Nat
      BY <1>7
    <3> HIDE DEF o
    <3>2. o(Prev(t, b)) < k
      BY <1>6, <3>1
    <3> QED  BY <1>8, <3>1, <3>2
  <2>3. o(b) = 0 => Dist(u, b) = Wanted(key, d) /\ ValueAt(u, b) = i
    BY <2>1 DEF Dist, ValueAt, Bucket
  <2>4. o(b) > 0 /\ o(b) =< k => /\ Dist(u, b) = Dist(t, Prev(t, b)) + DistInc
                                 /\ ValueAt(u, b) = ValueAt(t, Prev(t, b))
    <3> HAVE o(b) > 0 /\ o(b) =< k
    <3>1. at(u, b) = Bucket(Dist(t, Prev(t, b)) + DistInc, ValueAt(t, Prev(t, b)))
      <4> HIDE DEF o, bucket
      <4> QED  BY <2>1
    <3>2. /\ Dist(u, b) = Bucket(Dist(t, Prev(t, b)) + DistInc, ValueAt(t, Prev(t, b))).dist_and_fingerprint
          /\ ValueAt(u, b) = Bucket(Dist(t, Prev(t, b)) + DistInc, ValueAt(t, Prev(t, b))).value_idx
      BY <3>1 DEF Dist, ValueAt
    <3> QED  BY <3>2 DEF Bucket
  <2>5. o(b) > k => at(u, b) = at(t, b)
    <3> HIDE DEF o, bucket
    <3> QED  BY <1>6, <1>7, <2>1
  <2>6. o(b) > k => Dist(u, b) = Dist(t, b) /\ ValueAt(u, b) = ValueAt(t, b)
    BY <2>5 DEF Dist, ValueAt
  <2> QED  BY <2>2, <2>3, <2>4, <2>5, <2>6
<1> HIDE DEF o, bucket
<1>10. /\ Slots(u) = Slots(t)
       /\ \A j : key_at(u, j) = key_at(t, j) /\ HomeOf(u, j) = HomeOf(t, j)
       /\ \A a, b : After(u, a, b) = After(t, a, b)
       /\ \A b : Prev(u, b) = Prev(t, b)
       /\ Shaped(u)
  BY <1>4, OtherBucketsFacts
<1>11. KeysApart(u, I \cup {i})
  BY <1>10 DEF Indexed, KeysApart
<1>12. AtDistance(u, I \cup {i})
  <2> SUFFICES ASSUME NEW b \in Slots(t)
               PROVE  IF Dist(u, b) = 0 THEN at(u, b) = EmptyBucket
                      ELSE /\ ValueAt(u, b) \in I \cup {i}
                           /\ Dist(u, b) = Wanted(key_at(t, ValueAt(u, b)),
                                                  After(t, HomeOf(t, ValueAt(u, b)), b))
    BY <1>10 DEF AtDistance
  <2>1. CASE o(b) = 0
    <3>1. Dist(u, b) = Wanted(key, d) /\ ValueAt(u, b) = i /\ b = p
      BY <1>7, <1>9, <2>1
    <3>2. HomeOf(t, i) = h
      BY DEF HomeOf
    <3>3. Wanted(key, d) # 0
      BY <1>1, <1>2, <1>3
    <3> QED  BY <1>2, <3>1, <3>2, <3>3
  <2>2. CASE o(b) > 0 /\ o(b) =< k
    <3> DEFINE a == Prev(t, b)
               g == HomeOf(t, ValueAt(t, a))
               m == key_at(t, ValueAt(t, a))
    <3>1. /\ Dist(u, b) = Dist(t, a) + DistInc /\ ValueAt(u, b) = ValueAt(t, a) /\ Dist(t, a) # 0
          /\ a \in Slots(t) /\ Dist(t, a) \in Nat
      BY <1>7, <1>9, <2>2
    <3>2. /\ ValueAt(t, a) \in I /\ m \in DOMAIN Hash /\ g \in Slots(t)
          /\ Dist(t, a) = Wanted(m, After(t, g, a)) /\ After(t, g, a) \in Slots(t)
      <4> HIDE DEF a
      <4> QED  BY <3>1, PlacedFacts
    <3>3. After(t, g, a) < n - 1
      <4> HIDE DEF a
      <4> QED  BY <3>1, BeforeEmpty
    <3>4. After(t, g, b) = After(t, g, a) + 1
      <4>1. /\ After(t, g, b) \in Nat
            /\ After(t, g, b) > 0 => After(t, g, a) = After(t, g, b) - 1
            /\ After(t, g, b) = 0 => After(t, g, a) = n - 1
        <5> HIDE DEF g
        <5>1. After(t, g, b) \in Slots(t)
          BY <1>1, <3>2, RingFacts
        <5>2. After(t, g, b) \in Nat
          BY <5>1 DEF Slots
        <5> QED  BY <1>1, <3>2, <5>2, RingFacts
      <4> HIDE DEF a, g
      <4> QED  BY <1>1, <3>3, <4>1
    <3>5. After(t, g, a) \in Nat
      BY <3>2 DEF Slots
    <3>6. Wanted(m, After(t, g, a) + 1) = Wanted(m, After(t, g, a)) + DistInc
      <4> HIDE DEF m, g, a
      <4> QED  BY <3>2, <3>5, WantedFacts
    <3>7. Dist(u, b) = Wanted(m, After(t, g, b)) /\ Dist(u, b) # 0
      <4> HIDE DEF m, g, a
      <4> QED  BY <1>1, <3>1, <3>2, <3>4, <3>6
    <3> QED  BY <3>1, <3>2, <3>7
  <2>3. CASE o(b) > k
    <3>1. at(u, b) = at(t, b) /\ Dist(u, b) = Dist(t, b) /\ ValueAt(u, b) = ValueAt(t, b)
      BY <1>9, <2>3
    <3> QED  BY <3>1 DEF Indexed, AtDistance
  <2> QED  BY <1>6, <1>7, <2>1, <2>2, <2>3
<1>13. ASSUME NEW b \in Slots(t), Dist(u, b) >= 2 * DistInc
       PROVE  Dist(u, Prev(t, b)) + DistInc >= Dist(u, b)
  <2> DEFINE a == Prev(t, b)
  <2>1. a \in Slots(t) /\ Dist(t, a) \in Nat /\ Dist(t, b) \in Nat
    BY <1>7
  <2>2. Dist(t, b) >= 2 * DistInc => Dist(t, a) + DistInc >= Dist(t, b)
    BY DEF Indexed, NoneAhead
  <2>3. Dist(t, a) >= 2 * DistInc => Dist(t, Prev(t, a)) + DistInc >= Dist(t, a)
    BY <2>1 DEF Indexed, NoneAhead
  <2> HIDE DEF a
  <2>4. CASE o(b) = 0
    <3>1. b = p /\ Dist(u, b) = Wanted(key, d) /\ o(a) = n - 1
      BY <1>7, <1>9, <2>4 DEF a
    <3>2. d > 0
      BY <1>1, <1>2, <1>3, <1>13, <3>1
    <3>3. Dist(t, a) >= Wanted(key, d - 1) /\ Wanted(key, d) = Wanted(key, d - 1) + DistInc
          /\ Wanted(key, d - 1) \in Nat /\ Wanted(key, d - 1) >= DistInc
      BY <1>2, <1>3, <3>1, <3>2 DEF a
    <3>4. Dist(t, a) # 0
      BY <1>1, <2>1, <3>3
    <3>5. o(a) > k
      BY <1>1, <1>6, <1>8, <2>1, <3>1, <3>4
    <3>6. Dist(u, a) = Dist(t, a)
      BY <1>9, <2>1, <3>5
    <3> QED  BY <1>1, <2>1, <3>1, <3>3, <3>6 DEF a
  <2>5. CASE o(b) > 0 /\ o(b) =< k
    <3>1. Dist(u, b) = Dist(t, a) + DistInc /\ Dist(t, a) # 0 /\ o(a) = o(b) - 1
      BY <1>7, <1>9, <2>5 DEF a
    <3>2. CASE o(a) = 0
      <4>1. a = p /\ Dist(u, a) = Wanted(key, d)
        BY <1>7, <1>9, <2>1, <3>2
      <4> QED  BY <1>1, <1>2, <1>3, <2>1, <3>1, <4>1 DEF a
    <3>3. CASE o(a) # 0
      <4> DEFINE c == Prev(t, a)
      <4>1. /\ o(a) > 0 /\ o(a) =< k
        BY <1>6, <1>7, <2>1, <2>5, <3>1, <3>3
      <4>2. c \in Slots(t) /\ Dist(t, c) \in Nat /\ Dist(u, a) = Dist(t, c) + DistInc /\ Dist(t, c) # 0
        BY <1>7, <1>9, <2>1, <4>1
      <4>3. Dist(t, c) >= DistInc
        <5> HIDE DEF c
        <5> QED  BY <4>2, PlacedFacts
      <4> HIDE DEF c
      <4>4. Dist(t, c) + DistInc >= Dist(t, a)
        <5>1. CASE Dist(t, a) >= 2 * DistInc
          BY <2>3, <5>1 DEF c
        <5>2. CASE ~(Dist(t, a) >= 2 * DistInc)
          BY <1>1, <2>1, <4>2, <4>3, <5>2
        <5> QED  BY <5>1, <5>2
      <4> QED  BY <1>1, <2>1, <3>1, <4>2, <4>4 DEF a
    <3> QED  BY <3>2, <3>3
  <2>6. CASE o(b) > k
    <3>1. Dist(u, b) = Dist(t, b)
      BY <1>9, <2>6
    <3>2. o(b) > 0 /\ o(a) = o(b) - 1
      BY <1>6, <1>7, <2>6 DEF a
    <3>3. Dist(t, a) # 0
      BY <1>1, <1>13, <2>1, <2>2, <3>1
    <3>4. o(a) > k
      BY <1>6, <1>7, <1>8, <2>1, <2>6, <3>2, <3>3
    <3>5. Dist(u, a) = Dist(t, a)
      BY <1>9, <2>1, <3>4
    <3> QED  BY <1>13, <2>2, <3>1, <3>5 DEF a
  <2> QED  BY <1>6, <1>7, <2>4, <2>5, <2>6
<1>14. \E b \in Slots(t) : Dist(u, b) < 2 * DistInc
  <2>1. CASE k = n - 1
    <3> DEFINE a == Prev(t, p)
    <3>1. a \in Slots(t) /\ o(a) = n - 1
      BY <1>2, <1>7
    <3>2. Dist(t, a) = 0
      BY <1>8, <2>1, <3>1
    <3>3. d = 0
      BY <1>1, <1>2, <1>3, <3>2
    <3>4. Dist(u, p) = Wanted(key, d)
      BY <1>2, <1>7, <1>9
    <3> QED  BY <1>2, <1>3, <3>3, <3>4
  <2>2. CASE k # n - 1
    <3> DEFINE c == Along(t, p, k + 1)
    <3>1. k + 1 \in Slots(t) /\ k + 1 > 0
      BY <1>1, <1>6, <2>2 DEF Slots
    <3>2. c \in Slots(t) /\ o(c) = k + 1
      BY <1>1, <1>2, <3>1, AlongFacts DEF o
    <3>3. Prev(t, c) \in Slots(t) /\ o(Prev(t, c)) = k /\ Dist(t, c) \in Nat
      <4> HIDE DEF c
      <4> QED  BY <1>6, <1>7, <3>2
    <3>4. Dist(t, Prev(t, c)) = 0
      BY <1>8, <3>3
    <3>5. Dist(t, c) < 2 * DistInc
      <4>1. Dist(t, c) >= 2 * DistInc => Dist(t, Prev(t, c)) + DistInc >= Dist(t, c)
        BY <3>2 DEF Indexed, NoneAhead
      <4> HIDE DEF c
      <4> QED  BY <1>1, <3>3, <3>4, <4>1
    <3>6. Dist(u, c) = Dist(t, c)
      <4> HIDE DEF c
      <4> QED  BY <1>6, <1>9, <3>2
    <3> QED  BY <3>2, <3>5, <3>6
  <2> QED  BY <2>1, <2>2
<1>15. NoneAhead(u)
  BY <1>10, <1>13, <1>14 DEF NoneAhead
<1>16. ASSUME NEW b \in Slots(t), NEW c \in Slots(t), Dist(u, b) # 0, Dist(u, c) # 0,
              ValueAt(u, b) = ValueAt(u, c)
       PROVE  b = c
  <2> DEFINE src(a) == IF o(a) =< k THEN Prev(t, a) ELSE a
  <2>1. \A a \in Slots(t) : o(a) > 0 /\ Dist(u, a) # 0 =>
            /\ src(a) \in Slots(t) /\ Dist(t, src(a)) # 0 /\ ValueAt(u, a) = ValueAt(t, src(a))
            /\ ValueAt(u, a) \in I
            /\ o(a) =< k => o(src(a)) = o(a) - 1
            /\ o(a) > k => src(a) = a
    <3> TAKE a \in Slots(t)
    <3> HAVE o(a) > 0 /\ Dist(u, a) # 0
    <3>1. CASE o(a) =< k
      <4>1. /\ src(a) = Prev(t, a) /\ src(a) \in Slots(t) /\ Dist(t, src(a)) # 0
            /\ ValueAt(u, a) = ValueAt(t, src(a)) /\ o(src(a)) = o(a) - 1
        BY <1>7, <1>9, <3>1
      <4>2. ValueAt(t, src(a)) \in I
        <5> HIDE DEF src
        <5> QED  BY <4>1, PlacedFacts
      <4> HIDE DEF src
      <4> QED  BY <1>6, <1>7, <3>1, <4>1, <4>2
    <3>2. CASE ~(o(a) =< k)
      <4>1. o(a) > k
        BY <1>6, <1>7, <3>2
      <4>2. /\ src(a) = a /\ Dist(t, src(a)) # 0 /\ ValueAt(u, a) = ValueAt(t, src(a))
        BY <1>9, <3>2, <4>1
      <4>3. ValueAt(t, src(a)) \in I
        <5> HIDE DEF src
        <5> QED  BY <4>2, PlacedFacts
      <4> HIDE DEF src
      <4> QED  BY <3>2, <4>2, <4>3
    <3> QED  BY <3>1, <3>2
  <2>2. CASE o(b) = 0
    <3>1. ValueAt(u, c) = i
      BY <1>9, <1>16, <2>2
    <3>2. o(c) = 0
      BY <1>7, <1>16, <2>1, <3>1
    <3> QED  BY <1>7, <2>2, <3>2
  <2>3. CASE o(c) = 0
    <3>1. ValueAt(u, b) = i
      BY <1>9, <1>16, <2>3
    <3>2. o(b) = 0
      BY <1>7, <1>16, <2>1, <3>1
    <3> QED  BY <1>7, <2>3, <3>2
  <2>4. CASE o(b) > 0 /\ o(c) > 0
    <3>1. /\ src(b) \in Slots(t) /\ Dist(t, src(b)) # 0 /\ ValueAt(u, b) = ValueAt(t, src(b))
          /\ o(b) =< k => o(src(b)) = o(b) - 1
          /\ o(b) > k => src(b) = b
      BY <1>16, <2>1, <2>4
    <3>2. /\ src(c) \in Slots(t) /\ Dist(t, src(c)) # 0 /\ ValueAt(u, c) = ValueAt(t, src(c))
          /\ o(c) =< k => o(src(c)) = o(c) - 1
          /\ o(c) > k => src(c) = c
      BY <1>16, <2>1, <2>4
    <3> HIDE DEF src
    <3>3. src(b) = src(c)
      BY <1>16, <3>1, <3>2 DEF Indexed, OneEach
    <3>4. o(b) = o(c)
      BY <1>6, <1>7, <3>1, <3>2, <3>3
    <3> QED  BY <1>1, <1>2, <3>4, AfterSame DEF o
  <2> QED  BY <1>7, <2>2, <2>3, <2>4
<1>17. ASSUME NEW j \in I \cup {i}
       PROVE  \E b \in Slots(t) : Dist(u, b) # 0 /\ ValueAt(u, b) = j
  <2>1. CASE j = i
    <3>1. Dist(u, p) = Wanted(key, d) /\ ValueAt(u, p) = i
      BY <1>2, <1>7, <1>9
    <3> QED  BY <1>1, <1>2, <1>3, <2>1, <3>1
  <2>2. CASE j \in I
    <3>1. PICK b \in Slots(t) : Dist(t, b) # 0 /\ ValueAt(t, b) = j
      BY <2>2 DEF Indexed, OneEach
    <3>2. CASE o(b) > k
      BY <1>9, <3>1, <3>2
    <3>3. CASE ~(o(b) > k)
      <4> DEFINE c == Along(t, p, o(b) + 1)
      <4>1. o(b) < k
        BY <1>6, <1>7, <1>8, <3>1, <3>3
      <4>2. o(b) + 1 \in Slots(t) /\ o(b) + 1 > 0 /\ (o(b) + 1) - 1 = o(b)
        <5>1. o(b) \in Nat
          BY <1>7
        <5> QED  BY <1>1, <1>6, <4>1, <5>1 DEF Slots
      <4>8. \A x \in Slots(t) : /\ Along(t, p, x) \in Slots(t) /\ o(Along(t, p, x)) = x
                                /\ x > 0 => Prev(t, Along(t, p, x)) = Along(t, p, x - 1)
        BY <1>1, <1>2, AlongFacts DEF o
      <4>3. c \in Slots(t) /\ o(c) = o(b) + 1 /\ Prev(t, c) = Along(t, p, o(b))
        BY <4>2, <4>8
      <4>4. Prev(t, c) = b
        <5> HIDE DEF c
        <5> QED  BY <1>1, <1>2, <4>3, RingFacts DEF o
      <4>5. o(c) > 0 /\ o(c) =< k
        <5> HIDE DEF c
        <5> QED  BY <1>6, <1>7, <4>1, <4>3
      <4>6. Dist(u, c) = Dist(t, b) + DistInc /\ ValueAt(u, c) = ValueAt(t, b)
        <5> HIDE DEF c
        <5> QED  BY <1>9, <4>3, <4>4, <4>5
      <4>7. Dist(u, c) # 0
        <5> HIDE DEF c
        <5> QED  BY <1>1, <1>7, <4>6
      <4> QED  BY <3>1, <4>3, <4>6, <4>7
    <3> QED  BY <3>2, <3>3
  <2> QED  BY <2>1, <2>2
<1>18. OneEach(u, I \cup {i})
  BY <1>10, <1>16, <1>17 DEF OneEach
<1> QED  BY <1>4, <1>11, <1>12, <1>15, <1>18 DEF Indexed

-----------------------------------------------------------------------------
(* The buckets after p move back, up to one that is empty or at home, which*)
(* is the next but k, and leave an empty bucket.                           *)
ShiftsDown(t, u, p, k) ==
    /\ k \in Slots(t)
    /\ Dist(t, Along(t, p, k + 1)) < 2 * DistInc
    /\ \A j \in 1..k : Dist(t, Along(t, p, j)) >= 2 * DistInc
    /\ \A b \in Slots(t) :
           LET after == Along(t, p, After(t, p, b) + 1)
           IN  at(u, b) = IF After(t, p, b) < k
                          THEN Bucket(Dist(t, after) - DistInc, ValueAt(t, after))
                          ELSE IF After(t, p, b) = k THEN EmptyBucket
                          ELSE at(t, b)

LEMMA ShiftDownFacts ==
    ASSUME NEW V, NEW t \in TableType(V), NEW I, Shaped(t), Indexed(t, I),
           NEW p \in Slots(t), NEW u, u = shift_down(t, p)
    PROVE  OtherBuckets(t, u) /\ \E k : ShiftsDown(t, u, p, k)
<1> DEFINE n == bucket_count(t)
           S == {d \in Distances(t) \ {0} :
                    at(t, next(t, p, d)).dist_and_fingerprint < 2 * DistInc}
           m == Min(S)
           k == m - 1
           moved(d) == LET old == at(t, next(t, p, d + 1))
                       IN  Bucket(old.dist_and_fingerprint - DistInc, old.value_idx)
           new(i) == LET d == (i - 1 - p) % bucket_count(t)
                     IN  IF d < m - 1 THEN moved(d) ELSE IF d = m - 1 THEN EmptyBucket
                         ELSE t.buckets[i]
<1>1. n \in Nat \ {0, 1} /\ DOMAIN t.buckets = 1..n /\ Distances(t) = 0..n /\ DistInc \in Nat \ {0}
  BY ShapedFacts, DenseTableAssumption DEF Distances
<1>2. \A d \in 0..n : next(t, p, d) = Along(t, p, d)
  BY <1>1, NextAlong
<1>3. S = {d \in 1..n : Dist(t, Along(t, p, d)) < 2 * DistInc}
  <2>1. Distances(t) \ {0} = 1..n
    BY <1>1
  <2>2. \A d \in 1..n : next(t, p, d) = Along(t, p, d)
    BY <1>1, <1>2
  <2> QED  BY <2>1, <2>2 DEF Dist
<1>4. S # {}
  <2>1. PICK c \in Slots(t) : Dist(t, c) < 2 * DistInc
    BY DEF Indexed, NoneAhead
  <2>2. After(t, p, c) \in Slots(t) /\ Along(t, p, After(t, p, c)) = c
        /\ Along(t, p, n) = p /\ (After(t, p, c) = 0 <=> c = p)
    <3>1. n - 1 \in Slots(t)
      BY <1>1 DEF Slots
    <3> QED  BY <1>1, <3>1, RingFacts, AlongFacts
  <2>3. CASE c = p
    <3>1. n \in 1..n
      BY <1>1
    <3> QED  BY <1>3, <2>1, <2>2, <2>3, <3>1
  <2>4. CASE c # p
    <3>1. After(t, p, c) \in 1..n
      BY <1>1, <2>2, <2>4 DEF Slots
    <3> QED  BY <1>3, <2>1, <2>2, <3>1
  <2> QED  BY <2>3, <2>4
<1>5. m \in S /\ \A y \in S : m =< y
  <2>1. S \subseteq Nat
    BY <1>1
  <2> HIDE DEF S
  <2> QED  BY <1>4, <2>1, MinFacts
<1>6. m \in 1..n /\ Dist(t, Along(t, p, m)) < 2 * DistInc
  BY <1>3, <1>5
<1> HIDE DEF m
<1>7. k \in Slots(t) /\ k + 1 = m /\ k \in Nat /\ k < n
  BY <1>1, <1>6 DEF Slots
<1>8. \A j \in 1..k : Dist(t, Along(t, p, j)) >= 2 * DistInc
  <2> TAKE j \in 1..k
  <2>1. j \in 1..n /\ ~(m =< j) /\ j \in Slots(t)
    BY <1>1, <1>7 DEF Slots
  <2>2. ~(Dist(t, Along(t, p, j)) < 2 * DistInc)
    BY <1>3, <1>5, <2>1
  <2>3. Dist(t, Along(t, p, j)) \in Nat
    <3>1. Along(t, p, j) \in Slots(t)
      BY <1>1, <2>1, AlongFacts
    <3> QED  BY <3>1, ShapedFacts
  <2> QED  BY <1>1, <2>2, <2>3
<1>9. u = [t EXCEPT !.buckets = [i \in DOMAIN t.buckets |-> new(i)]]
  BY DEF shift_down, m
<1>10. /\ u = [t EXCEPT !.buckets = u.buckets]
       /\ u.buckets = [i \in 1..n |-> new(i)]
  <2> HIDE DEF new, n
  <2> QED  BY <1>1, <1>9 DEF TableType
<1>11. ASSUME NEW b \in Slots(t)
       PROVE  /\ new(b + 1) = IF After(t, p, b) < k
                              THEN Bucket(Dist(t, Along(t, p, After(t, p, b) + 1)) - DistInc,
                                          ValueAt(t, Along(t, p, After(t, p, b) + 1)))
                              ELSE IF After(t, p, b) = k THEN EmptyBucket
                              ELSE at(t, b)
              /\ new(b + 1) \in BucketType
  <2> DEFINE d == After(t, p, b)
             c == Along(t, p, d + 1)
  <2>1. ((b + 1) - 1 - p) % bucket_count(t) = d
    <3>1. (b + 1) - 1 = b
      BY DEF Slots
    <3>2. (b - p) % bucket_count(t) = d
      BY <1>1, AfterIs
    <3> QED  BY <3>1, <3>2
  <2>2. d \in Slots(t) /\ d \in Nat /\ d < n
    <3>1. d \in Slots(t)
      BY <1>1, RingFacts
    <3> QED  BY <1>1, <3>1 DEF Slots
  <2>3. d < k => /\ next(t, p, d + 1) = c
                 /\ c \in Slots(t) /\ Dist(t, c) >= 2 * DistInc /\ Dist(t, c) \in Nat
    <3> HAVE d < k
    <3>1. d + 1 \in 1..k /\ d + 1 \in 0..n /\ d + 1 \in Slots(t)
      <4> HIDE DEF d
      <4> QED  BY <1>1, <1>7, <2>2 DEF Slots
    <3>2. c \in Slots(t)
      <4> HIDE DEF d
      <4> QED  BY <1>1, <3>1, AlongFacts
    <3>3. Dist(t, c) \in Nat
      <4> HIDE DEF c
      <4> QED  BY <3>2, ShapedFacts
    <3> HIDE DEF d
    <3> QED  BY <1>2, <1>8, <3>1, <3>2, <3>3
  <2>4. d < k => moved(d) = Bucket(Dist(t, c) - DistInc, ValueAt(t, c))
    BY <2>3 DEF Dist, ValueAt
  <2>5. at(t, b) = t.buckets[b + 1]
    BY DEF at
  <2>6. /\ at(t, b) \in BucketType /\ EmptyBucket \in BucketType
        /\ d < k => Bucket(Dist(t, c) - DistInc, ValueAt(t, c)) \in BucketType
    <3>1. at(t, b) \in BucketType /\ EmptyBucket \in BucketType
      BY ShapedFacts DEF EmptyBucket, Bucket, BucketType
    <3>2. ASSUME d < k PROVE Bucket(Dist(t, c) - DistInc, ValueAt(t, c)) \in BucketType
      <4>1. Dist(t, c) - DistInc \in Nat /\ ValueAt(t, c) \in Nat
        <5> HIDE DEF c, d
        <5> QED  BY <1>1, <2>3, <3>2, ShapedFacts
      <4> HIDE DEF c
      <4> QED  BY <4>1 DEF Bucket, BucketType
    <3> QED  BY <3>1, <3>2
  <2>7. new(b + 1) = IF d < k THEN Bucket(Dist(t, c) - DistInc, ValueAt(t, c))
                     ELSE IF d = k THEN EmptyBucket ELSE at(t, b)
    <3> HIDE DEF moved, d, c
    <3> QED  BY <2>1, <2>4, <2>5
  <2> HIDE DEF new, k, moved
  <2> QED  BY <2>6, <2>7
<1>12. \A i \in 1..n : new(i) \in BucketType
  <2> TAKE i \in 1..n
  <2>1. i - 1 \in Slots(t) /\ (i - 1) + 1 = i
    BY <1>1 DEF Slots
  <2>2. new((i - 1) + 1) \in BucketType
    <3> HIDE DEF new
    <3> QED  BY <1>11, <2>1
  <2> HIDE DEF new
  <2> QED  BY <2>1, <2>2
<1>13. u.buckets \in Seq(BucketType) /\ Len(u.buckets) = n
  <2> HIDE DEF new, n
  <2> QED  BY <1>1, <1>10, <1>12
<1>14. OtherBuckets(t, u)
  BY <1>10, <1>13 DEF OtherBuckets, bucket_count
<1>15. \A b \in Slots(t) : at(u, b) = new(b + 1)
  <2> TAKE b \in Slots(t)
  <2>1. b + 1 \in 1..n
    BY <1>1 DEF Slots
  <2> HIDE DEF new
  <2> QED  BY <1>10, <2>1 DEF at
<1>16. ShiftsDown(t, u, p, k)
  <2> HIDE DEF k, new
  <2> QED  BY <1>6, <1>7, <1>8, <1>11, <1>15 DEF ShiftsDown
<1> QED  BY <1>14, <1>16

(* A bucket is taken out: each value but its own still has one.            *)
LEMMA RemovedIndexed ==
    ASSUME NEW V, NEW t \in TableType(V), NEW I, Shaped(t), Indexed(t, I),
           NEW p \in Slots(t), Dist(t, p) # 0, NEW i, i = ValueAt(t, p),
           NEW u, u = shift_down(t, p)
    PROVE  OtherBuckets(t, u) /\ Indexed(u, I \ {i})
<1> DEFINE n == bucket_count(t)
           o(b) == After(t, p, b)
           next_of(b) == Along(t, p, o(b) + 1)
<1>1. n \in Nat \ {0, 1} /\ DistInc \in Nat \ {0}
  BY ShapedFacts, DenseTableAssumption
<1>2. OtherBuckets(t, u) /\ \E k : ShiftsDown(t, u, p, k)
  BY ShiftDownFacts
<1>3. PICK k : ShiftsDown(t, u, p, k)
  BY <1>2
<1>4. k \in Slots(t) /\ k \in Nat /\ k < n
  BY <1>1, <1>3 DEF ShiftsDown, Slots
<1>5. \A b \in Slots(t) :
          /\ o(b) \in Nat /\ o(b) < n /\ o(b) \in Slots(t) /\ Along(t, p, o(b)) = b
          /\ Prev(t, b) \in Slots(t)
          /\ Dist(t, b) \in Nat /\ ValueAt(t, b) \in Nat
          /\ o(b) = 0 <=> b = p
          /\ o(b) > 0 => o(Prev(t, b)) = o(b) - 1
          /\ o(b) = 0 => o(Prev(t, b)) = n - 1
  <2> TAKE b \in Slots(t)
  <2>1. /\ o(b) \in Slots(t) /\ Prev(t, b) \in Slots(t) /\ Along(t, p, o(b)) = b
        /\ o(b) = 0 <=> b = p
        /\ o(b) > 0 => o(Prev(t, b)) = o(b) - 1
        /\ o(b) = 0 => o(Prev(t, b)) = n - 1
    BY <1>1, RingFacts
  <2>2. Dist(t, b) \in Nat /\ ValueAt(t, b) \in Nat
    BY ShapedFacts
  <2>3. o(b) \in Nat /\ o(b) < n
    BY <1>1, <2>1 DEF Slots
  <2> QED  BY <2>1, <2>2, <2>3
<1>6. \A b \in Slots(t) : o(b) < n - 1 =>
          /\ next_of(b) \in Slots(t) /\ o(next_of(b)) = o(b) + 1 /\ Prev(t, next_of(b)) = b
  <2> TAKE b \in Slots(t)
  <2> HAVE o(b) < n - 1
  <2>1. o(b) + 1 \in Slots(t) /\ o(b) + 1 > 0 /\ (o(b) + 1) - 1 = o(b)
    <3>1. o(b) \in Nat
      BY <1>5
    <3> HIDE DEF o
    <3> QED  BY <1>1, <3>1 DEF Slots
  <2>2. \A x \in Slots(t) : /\ Along(t, p, x) \in Slots(t) /\ o(Along(t, p, x)) = x
                            /\ x > 0 => Prev(t, Along(t, p, x)) = Along(t, p, x - 1)
    BY <1>1, AlongFacts
  <2>3. Along(t, p, o(b)) = b
    BY <1>5
  <2> HIDE DEF o
  <2> QED  BY <2>1, <2>2, <2>3
<1>7. \A b \in Slots(t) : o(b) > 0 /\ o(b) =< k => Dist(t, b) >= 2 * DistInc
  <2> TAKE b \in Slots(t)
  <2> HAVE o(b) > 0 /\ o(b) =< k
  <2>1. o(b) \in 1..k /\ Along(t, p, o(b)) = b
    <3>1. o(b) \in Nat /\ Along(t, p, o(b)) = b
      BY <1>5
    <3> HIDE DEF o
    <3> QED  BY <1>4, <3>1
  <2> HIDE DEF o
  <2> QED  BY <1>3, <2>1 DEF ShiftsDown
<1>8. \A b \in Slots(t) :
          /\ o(b) < k => /\ Dist(u, b) = Dist(t, next_of(b)) - DistInc
                         /\ ValueAt(u, b) = ValueAt(t, next_of(b))
                         /\ next_of(b) \in Slots(t) /\ Prev(t, next_of(b)) = b
                         /\ o(next_of(b)) = o(b) + 1
                         /\ Dist(t, next_of(b)) >= 2 * DistInc
          /\ o(b) = k => at(u, b) = EmptyBucket /\ Dist(u, b) = 0
          /\ o(b) > k => /\ at(u, b) = at(t, b)
                         /\ Dist(u, b) = Dist(t, b) /\ ValueAt(u, b) = ValueAt(t, b)
  <2> TAKE b \in Slots(t)
  <2>1. at(u, b) = IF o(b) < k
                   THEN Bucket(Dist(t, next_of(b)) - DistInc, ValueAt(t, next_of(b)))
                   ELSE IF o(b) = k THEN EmptyBucket ELSE at(t, b)
    BY <1>3 DEF ShiftsDown
  <2>2. o(b) \in Nat
    BY <1>5
  <2>3. ASSUME o(b) < k
        PROVE  /\ Dist(u, b) = Dist(t, next_of(b)) - DistInc
               /\ ValueAt(u, b) = ValueAt(t, next_of(b))
               /\ next_of(b) \in Slots(t) /\ Prev(t, next_of(b)) = b
               /\ o(next_of(b)) = o(b) + 1
               /\ Dist(t, next_of(b)) >= 2 * DistInc
    <3>1. at(u, b) = Bucket(Dist(t, next_of(b)) - DistInc, ValueAt(t, next_of(b)))
      <4> HIDE DEF o, next_of
      <4> QED  BY <2>1, <2>3
    <3>2. /\ Dist(u, b) = Bucket(Dist(t, next_of(b)) - DistInc, ValueAt(t, next_of(b))).dist_and_fingerprint
          /\ ValueAt(u, b) = Bucket(Dist(t, next_of(b)) - DistInc, ValueAt(t, next_of(b))).value_idx
      <4> HIDE DEF next_of
      <4> QED  BY <3>1 DEF Dist, ValueAt
    <3>3. /\ Dist(u, b) = Dist(t, next_of(b)) - DistInc
          /\ ValueAt(u, b) = ValueAt(t, next_of(b))
      <4> HIDE DEF next_of
      <4> QED  BY <3>2 DEF Bucket
    <3>4. o(b) < n - 1
      <4> HIDE DEF o
      <4> QED  BY <1>1, <1>4, <2>2, <2>3
    <3>5. next_of(b) \in Slots(t) /\ o(next_of(b)) = o(b) + 1 /\ Prev(t, next_of(b)) = b
      BY <1>6, <3>4
    <3>6. Dist(t, next_of(b)) >= 2 * DistInc
      <4>1. o(next_of(b)) > 0 /\ o(next_of(b)) =< k
        <5> HIDE DEF o, next_of
        <5> QED  BY <1>4, <2>2, <2>3, <3>5
      <4> HIDE DEF o, next_of
      <4> QED  BY <1>7, <3>5, <4>1
    <3> QED  BY <3>3, <3>5, <3>6
  <2>4. o(b) = k => at(u, b) = EmptyBucket /\ Dist(u, b) = 0
    <3> HAVE o(b) = k
    <3>1. at(u, b) = EmptyBucket
      <4> HIDE DEF o, next_of
      <4> QED  BY <1>4, <2>1
    <3> QED  BY <3>1 DEF EmptyBucket, Bucket, Dist
  <2>5. o(b) > k => at(u, b) = at(t, b)
    <3> HIDE DEF o, next_of
    <3> QED  BY <1>4, <2>1, <2>2
  <2>6. o(b) > k => Dist(u, b) = Dist(t, b) /\ ValueAt(u, b) = ValueAt(t, b)
    BY <2>5 DEF Dist, ValueAt
  <2> QED  BY <2>3, <2>4, <2>5, <2>6
<1> HIDE DEF o, next_of
<1>9. /\ Slots(u) = Slots(t)
      /\ \A j : key_at(u, j) = key_at(t, j) /\ HomeOf(u, j) = HomeOf(t, j)
      /\ \A a, b : After(u, a, b) = After(t, a, b)
      /\ \A b : Prev(u, b) = Prev(t, b)
  BY <1>2, OtherBucketsFacts
<1>10. KeysApart(u, I \ {i})
  BY <1>9 DEF Indexed, KeysApart
(* Where what is in a bucket now has been.                                 *)
<1> DEFINE src(b) == IF o(b) < k THEN next_of(b) ELSE b
<1>11. \A b \in Slots(t) : Dist(u, b) # 0 =>
          /\ src(b) \in Slots(t) /\ Dist(t, src(b)) # 0 /\ ValueAt(u, b) = ValueAt(t, src(b))
          /\ ValueAt(u, b) \in I \ {i}
          /\ o(b) < k => o(src(b)) = o(b) + 1
          /\ o(b) >= k => o(b) > k /\ src(b) = b
  <2> TAKE b \in Slots(t)
  <2> HAVE Dist(u, b) # 0
  <2>1. o(b) \in Nat
    BY <1>5
  <2>2. /\ src(b) \in Slots(t) /\ Dist(t, src(b)) # 0 /\ ValueAt(u, b) = ValueAt(t, src(b))
        /\ o(b) < k => o(src(b)) = o(b) + 1
        /\ o(b) >= k => o(b) > k /\ src(b) = b
    <3>1. CASE o(b) < k
      <4>1. /\ src(b) = next_of(b) /\ src(b) \in Slots(t) /\ ValueAt(u, b) = ValueAt(t, src(b))
            /\ o(src(b)) = o(b) + 1 /\ Dist(t, src(b)) >= 2 * DistInc
        BY <1>8, <3>1
      <4> HIDE DEF src
      <4> QED  BY <1>1, <1>4, <2>1, <3>1, <4>1
    <3>2. CASE ~(o(b) < k)
      <4>1. o(b) > k
        BY <1>4, <1>8, <2>1, <3>2
      <4>2. src(b) = b
        BY <3>2
      <4> HIDE DEF src
      <4> QED  BY <1>8, <3>2, <4>1, <4>2
    <3> QED  BY <3>1, <3>2
  <2> HIDE DEF src
  <2>3. ValueAt(t, src(b)) \in I
    BY <2>2, PlacedFacts
  <2>4. ValueAt(t, src(b)) # i
    <3> SUFFICES ASSUME ValueAt(t, src(b)) = i PROVE FALSE
      OBVIOUS
    <3>1. src(b) = p
      BY <2>2 DEF Indexed, OneEach
    <3>2. o(src(b)) = 0
      BY <1>5, <3>1
    <3> QED  BY <1>4, <2>1, <2>2, <3>2
  <2> QED  BY <2>2, <2>3, <2>4
<1>12. AtDistance(u, I \ {i})
  <2> SUFFICES ASSUME NEW b \in Slots(t)
               PROVE  IF Dist(u, b) = 0 THEN at(u, b) = EmptyBucket
                      ELSE /\ ValueAt(u, b) \in I \ {i}
                           /\ Dist(u, b) = Wanted(key_at(t, ValueAt(u, b)),
                                                  After(t, HomeOf(t, ValueAt(u, b)), b))
    BY <1>9 DEF AtDistance
  <2>1. CASE o(b) < k
    <3> DEFINE a == next_of(b)
               g == HomeOf(t, ValueAt(t, a))
               m == key_at(t, ValueAt(t, a))
    <3>1. /\ Dist(u, b) = Dist(t, a) - DistInc /\ ValueAt(u, b) = ValueAt(t, a)
          /\ a \in Slots(t) /\ Prev(t, a) = b /\ Dist(t, a) >= 2 * DistInc
      BY <1>8, <2>1
    <3>2. Dist(t, a) \in Nat
      <4> HIDE DEF a
      <4> QED  BY <1>5, <3>1
    <3>3. Dist(u, b) # 0
      <4> HIDE DEF a
      <4> QED  BY <1>1, <3>1, <3>2
    <3>4. Dist(t, a) # 0
      <4> HIDE DEF a
      <4> QED  BY <1>1, <3>1, <3>2
    <3>5. /\ m \in DOMAIN Hash /\ g \in Slots(t)
          /\ Dist(t, a) = Wanted(m, After(t, g, a)) /\ After(t, g, a) \in Slots(t)
          /\ After(t, g, a) > 0
      <4> HIDE DEF a
      <4> QED  BY <3>1, <3>4, PlacedFacts
    <3>6. After(t, g, b) = After(t, g, a) - 1
      <4> HIDE DEF a, g
      <4> QED  BY <1>1, <3>1, <3>5, RingFacts
    <3>7. After(t, g, a) - 1 \in Nat /\ (After(t, g, a) - 1) + 1 = After(t, g, a)
      <4> HIDE DEF a, g
      <4> QED  BY <1>1, <3>5 DEF Slots
    <3>8. /\ Wanted(m, (After(t, g, a) - 1) + 1) = Wanted(m, After(t, g, a) - 1) + DistInc
          /\ Wanted(m, After(t, g, a) - 1) \in Nat
      <4> HIDE DEF m, g, a
      <4> QED  BY <3>5, <3>7, WantedFacts
    <3>9. Dist(u, b) = Wanted(m, After(t, g, b))
      <4> HIDE DEF m, g, a
      <4> QED  BY <1>1, <3>1, <3>5, <3>6, <3>7, <3>8
    <3>10. ValueAt(u, b) \in I \ {i}
      BY <1>11, <3>3
    <3> QED  BY <3>1, <3>3, <3>9, <3>10
  <2>2. CASE o(b) = k
    BY <1>8, <2>2
  <2>3. CASE o(b) > k
    <3>1. at(u, b) = at(t, b) /\ Dist(u, b) = Dist(t, b) /\ ValueAt(u, b) = ValueAt(t, b)
      BY <1>8, <2>3
    <3>2. Dist(u, b) # 0 => ValueAt(u, b) \in I \ {i}
      BY <1>11
    <3> QED  BY <3>1, <3>2 DEF Indexed, AtDistance
  <2> QED  BY <1>4, <1>5, <2>1, <2>2, <2>3
<1>13. ASSUME NEW b \in Slots(t), Dist(u, b) >= 2 * DistInc
       PROVE  Dist(u, Prev(t, b)) + DistInc >= Dist(u, b)
  <2> DEFINE a == Prev(t, b)
             c == next_of(b)
  <2>1. a \in Slots(t) /\ Dist(t, a) \in Nat /\ Dist(t, b) \in Nat /\ o(b) \in Nat /\ o(a) \in Nat
    BY <1>5
  <2>2. Dist(t, b) >= 2 * DistInc => Dist(t, a) + DistInc >= Dist(t, b)
    BY DEF Indexed, NoneAhead
  <2>3. CASE o(b) < k
    <3>1. /\ Dist(u, b) = Dist(t, c) - DistInc /\ c \in Slots(t) /\ Prev(t, c) = b
          /\ Dist(t, c) >= 2 * DistInc
      BY <1>8, <2>3
    <3>2. Dist(t, b) + DistInc >= Dist(t, c)
      <4> HIDE DEF c
      <4> QED  BY <3>1 DEF Indexed, NoneAhead
    <3>3. Dist(t, c) \in Nat
      <4> HIDE DEF c
      <4> QED  BY <1>5, <3>1
    <3>4. Dist(t, b) >= 2 * DistInc
      <4> HIDE DEF c
      <4> QED  BY <1>1, <1>13, <2>1, <3>1, <3>2, <3>3
    <3>5. Dist(t, a) + DistInc >= Dist(t, b)
      BY <2>2, <3>4
    <3>6. CASE o(b) > 0
      <4>1. o(a) = o(b) - 1 /\ o(a) < k
        <5>1. o(a) = o(b) - 1
          BY <1>5, <3>6
        <5> HIDE DEF a
        <5> QED  BY <1>4, <2>1, <2>3, <5>1
      <4>2. Dist(u, a) = Dist(t, next_of(a)) - DistInc /\ next_of(a) \in Slots(t) /\ Prev(t, next_of(a)) = a
        <5> HIDE DEF a
        <5> QED  BY <1>8, <2>1, <4>1
      <4>3. next_of(a) = b
        <5> HIDE DEF a
        <5> QED  BY <1>1, <4>2, PrevSame DEF a
      <4> HIDE DEF a, c
      <4> QED  BY <1>1, <2>1, <3>1, <3>2, <3>3, <4>2, <4>3 DEF a
    <3>7. CASE o(b) = 0
      <4>1. o(a) = n - 1
        BY <1>5, <3>7
      <4>2. o(a) > k
        <5> SUFFICES ASSUME ~(o(a) > k) PROVE FALSE
          OBVIOUS
        <5>1. k + 1 = n
          BY <1>1, <1>4, <4>1
        <5>2. Dist(t, Along(t, p, k + 1)) < 2 * DistInc
          BY <1>3 DEF ShiftsDown
        <5>3. Along(t, p, n) = p
          <6>1. n - 1 \in Slots(t)
            BY <1>1 DEF Slots
          <6> QED  BY <1>1, <6>1, AlongFacts
        <5>4. b = p
          BY <1>5, <3>7
        <5>5. Dist(t, b) < 2 * DistInc
          BY <5>1, <5>2, <5>3, <5>4
        <5> QED  BY <1>1, <2>1, <3>4, <5>5
      <4>3. Dist(u, a) = Dist(t, a)
        <5> HIDE DEF a
        <5> QED  BY <1>8, <2>1, <4>2
      <4> HIDE DEF a, c
      <4> QED  BY <1>1, <2>1, <3>1, <3>2, <3>3, <3>5, <4>3 DEF a
    <3> QED  BY <2>1, <3>6, <3>7
  <2>4. CASE o(b) = k
    <3>1. Dist(u, b) = 0
      BY <1>8, <2>4
    <3> QED  BY <1>1, <1>13, <3>1
  <2>5. CASE o(b) > k
    <3>1. Dist(u, b) = Dist(t, b) /\ o(b) > 0 /\ o(a) = o(b) - 1
      BY <1>4, <1>5, <1>8, <2>5
    <3>2. CASE o(a) = k
      <4>1. o(b) = k + 1
        <5> HIDE DEF a
        <5> QED  BY <1>4, <2>1, <3>1, <3>2
      <4>2. Dist(t, b) < 2 * DistInc
        <5>1. Along(t, p, o(b)) = b
          BY <1>5
        <5> QED  BY <1>3, <4>1, <5>1 DEF ShiftsDown
      <4> QED  BY <1>1, <1>13, <2>1, <3>1, <4>2
    <3>3. CASE o(a) # k
      <4>1. o(a) > k
        <5> HIDE DEF a
        <5> QED  BY <1>4, <2>1, <2>5, <3>1, <3>3
      <4>2. Dist(u, a) = Dist(t, a)
        <5> HIDE DEF a
        <5> QED  BY <1>8, <2>1, <4>1
      <4> QED  BY <1>13, <2>2, <3>1, <4>2
    <3> QED  BY <3>2, <3>3
  <2> QED  BY <1>4, <2>1, <2>3, <2>4, <2>5
<1>14. \E b \in Slots(t) : Dist(u, b) < 2 * DistInc
  <2>1. Along(t, p, k) \in Slots(t) /\ o(Along(t, p, k)) = k
    BY <1>1, <1>4, AlongFacts DEF o
  <2>2. Dist(u, Along(t, p, k)) = 0
    BY <1>8, <2>1
  <2> QED  BY <1>1, <2>1, <2>2
<1>15. NoneAhead(u)
  BY <1>9, <1>13, <1>14 DEF NoneAhead
<1>16. ASSUME NEW b \in Slots(t), NEW c \in Slots(t), Dist(u, b) # 0, Dist(u, c) # 0,
              ValueAt(u, b) = ValueAt(u, c)
       PROVE  b = c
  <2> HIDE DEF src
  <2>1. src(b) = src(c)
    BY <1>11, <1>16 DEF Indexed, OneEach
  <2>2. o(b) \in Nat /\ o(c) \in Nat
    BY <1>5
  <2>3. /\ o(b) < k => o(src(b)) = o(b) + 1
        /\ o(b) >= k => o(b) > k /\ src(b) = b
        /\ o(c) < k => o(src(c)) = o(c) + 1
        /\ o(c) >= k => o(c) > k /\ src(c) = c
    BY <1>11, <1>16
  <2>4. o(b) = o(c)
    BY <1>4, <2>1, <2>2, <2>3
  <2> QED  BY <1>1, <2>4, AfterSame DEF o
<1>17. ASSUME NEW j \in I \ {i}
       PROVE  \E b \in Slots(t) : Dist(u, b) # 0 /\ ValueAt(u, b) = j
  <2>1. PICK b \in Slots(t) : Dist(t, b) # 0 /\ ValueAt(t, b) = j
    BY DEF Indexed, OneEach
  <2>2. b # p /\ o(b) > 0 /\ o(b) \in Nat
    BY <1>5, <2>1
  <2>3. CASE o(b) > k
    BY <1>8, <2>1, <2>3
  <2>4. CASE ~(o(b) > k)
    <3> DEFINE a == Prev(t, b)
    <3>1. a \in Slots(t) /\ o(a) = o(b) - 1 /\ o(a) < k
      <4>1. a \in Slots(t) /\ o(a) = o(b) - 1
        BY <1>5, <2>2
      <4> HIDE DEF a
      <4> QED  BY <1>4, <2>2, <2>4, <4>1
    <3>2. /\ Dist(u, a) = Dist(t, next_of(a)) - DistInc /\ ValueAt(u, a) = ValueAt(t, next_of(a))
          /\ next_of(a) \in Slots(t) /\ Prev(t, next_of(a)) = a /\ Dist(t, next_of(a)) >= 2 * DistInc
      <4> HIDE DEF a
      <4> QED  BY <1>8, <3>1
    <3>3. next_of(a) = b
      <4> HIDE DEF a
      <4> QED  BY <1>1, <3>2, PrevSame DEF a
    <3>4. Dist(u, a) # 0
      <4>1. Dist(t, b) \in Nat
        BY <1>5
      <4> HIDE DEF a
      <4> QED  BY <1>1, <3>2, <3>3, <4>1
    <3> QED  BY <2>1, <3>1, <3>2, <3>3, <3>4
  <2> QED  BY <2>3, <2>4
<1>18. OneEach(u, I \ {i})
  BY <1>9, <1>16, <1>17 DEF OneEach
<1> QED  BY <1>2, <1>10, <1>12, <1>15, <1>18 DEF Indexed

-----------------------------------------------------------------------------
(* How many buckets there are for a number of shifts: a power of two, more *)
(* of them the fewer shifts there are.                                     *)
LEMMA CountFacts ==
    ASSUME NEW s \in 0..initial_shifts
    PROVE  /\ max_bucket_count \in Nat \ {0, 1}
           /\ HashBits - s \in 1..HashBits /\ 2^(HashBits - s) \in Nat \ {0, 1}
           /\ calc_num_buckets(s) = IF max_bucket_count =< 2^(HashBits - s)
                                    THEN max_bucket_count ELSE 2^(HashBits - s)
           /\ calc_num_buckets(s) \in Nat \ {0, 1} /\ calc_num_buckets(s) =< max_bucket_count
           /\ calc_num_buckets(s) < max_bucket_count =>
                  s - 1 \in 0..initial_shifts /\ calc_num_buckets(s - 1) > calc_num_buckets(s)
<1>1. /\ HashBits \in Nat \ {0} /\ InitialBits \in Nat \ {0} /\ IndexBits \in Nat \ {0}
      /\ InitialBits < HashBits /\ IndexBits =< HashBits
      /\ \A x \in 0..HashBits : 2^x \in Nat \ {0}
      /\ \A x, y \in 0..HashBits : x < y => 2 * 2^x =< 2^y
  BY DenseTableAssumption
<1>2. \A x \in 1..HashBits : 2^x \in Nat \ {0, 1}
  <2> TAKE x \in 1..HashBits
  <2>1. 0 \in 0..HashBits /\ x \in 0..HashBits /\ 0 < x
    BY <1>1
  <2>2. 2 * 2^0 =< 2^x /\ 2^0 \in Nat \ {0} /\ 2^x \in Nat \ {0}
    BY <1>1, <2>1
  <2> QED  BY <2>2
<1>3. max_bucket_count \in Nat \ {0, 1} /\ max_bucket_count = 2^IndexBits
      /\ IndexBits \in 1..HashBits
  BY <1>1, <1>2 DEF max_bucket_count
<1> DEFINE num(x) == calc_num_buckets(x)
<1>4. \A x \in 0..initial_shifts :
          /\ HashBits - x \in 1..HashBits /\ 2^(HashBits - x) \in Nat \ {0, 1}
          /\ num(x) = IF max_bucket_count =< 2^(HashBits - x)
                      THEN max_bucket_count ELSE 2^(HashBits - x)
  <2> TAKE x \in 0..initial_shifts
  <2>1. HashBits - x \in 1..HashBits
    BY <1>1 DEF initial_shifts
  <2>2. 2^(HashBits - x) \in Nat \ {0, 1}
    BY <1>2, <2>1
  <2> QED  BY <1>3, <2>1, <2>2, MinOfTwo DEF calc_num_buckets
<1>5. s \in Nat /\ s =< initial_shifts /\ initial_shifts \in Nat
  BY <1>1 DEF initial_shifts
<1>6. num(s) \in Nat \ {0, 1} /\ num(s) =< max_bucket_count
  <2>1. /\ 2^(HashBits - s) \in Nat \ {0, 1}
        /\ num(s) = IF max_bucket_count =< 2^(HashBits - s)
                    THEN max_bucket_count ELSE 2^(HashBits - s)
    BY <1>4
  <2> HIDE DEF num
  <2> QED  BY <1>3, <2>1
<1>7. ASSUME num(s) < max_bucket_count
      PROVE  s - 1 \in 0..initial_shifts /\ num(s - 1) > num(s)
  <2> HIDE DEF num
  <2>1. num(s) = 2^(HashBits - s) /\ 2^(HashBits - s) \in Nat \ {0, 1} /\ HashBits - s \in 1..HashBits
    BY <1>3, <1>4, <1>7
  <2>2. HashBits - s < IndexBits
    <3> SUFFICES ASSUME ~(HashBits - s < IndexBits) PROVE FALSE
      OBVIOUS
    <3>1. CASE HashBits - s = IndexBits
      BY <1>3, <1>7, <2>1, <3>1
    <3>2. CASE HashBits - s # IndexBits
      <4>1. IndexBits < HashBits - s /\ IndexBits \in 0..HashBits /\ HashBits - s \in 0..HashBits
        BY <1>3, <2>1, <3>2
      <4>2. 2 * 2^IndexBits =< 2^(HashBits - s)
        BY <1>1, <4>1
      <4> QED  BY <1>3, <1>7, <2>1, <4>2
    <3> QED  BY <3>1, <3>2
  <2>3. s # 0
    BY <1>1, <1>3, <2>2
  <2>4. s - 1 \in 0..initial_shifts
    BY <1>5, <2>3
  <2>5. /\ 2^(HashBits - (s - 1)) \in Nat \ {0, 1} /\ HashBits - (s - 1) \in 1..HashBits
        /\ num(s - 1) = IF max_bucket_count =< 2^(HashBits - (s - 1))
                        THEN max_bucket_count ELSE 2^(HashBits - (s - 1))
    BY <1>4, <2>4
  <2>6. /\ HashBits - s < HashBits - (s - 1)
        /\ HashBits - s \in 0..HashBits /\ HashBits - (s - 1) \in 0..HashBits
    BY <1>1, <1>5, <2>1, <2>5
  <2>7. 2 * 2^(HashBits - s) =< 2^(HashBits - (s - 1))
    BY <1>1, <2>6
  <2>8. num(s - 1) > num(s)
    <3>1. \A a, b, c \in Nat \ {0, 1} : a < b /\ 2 * a =< c => (IF b =< c THEN b ELSE c) > a
      OBVIOUS
    <3> QED  BY <1>3, <1>7, <2>1, <2>5, <2>7, <3>1
  <2> QED  BY <2>4, <2>8
<1> QED  BY <1>3, <1>4, <1>6, <1>7

LEMMA CountMore ==
    ASSUME NEW s \in 0..initial_shifts, NEW r \in 0..initial_shifts, r =< s
    PROVE  calc_num_buckets(r) >= calc_num_buckets(s)
<1>1. HashBits \in Nat /\ initial_shifts \in Nat
  BY DenseTableAssumption DEF initial_shifts
<1>2. CASE r = s
  BY <1>2, CountFacts
<1>3. CASE r # s
  <2>1. /\ HashBits - s \in 0..HashBits /\ HashBits - r \in 0..HashBits
        /\ HashBits - s < HashBits - r
    <3>1. HashBits - s \in 1..HashBits /\ HashBits - r \in 1..HashBits
      BY CountFacts
    <3> QED  BY <1>1, <1>3, <3>1
  <2>2. 2 * 2^(HashBits - s) =< 2^(HashBits - r)
    BY <2>1, DenseTableAssumption
  <2>3. /\ 2^(HashBits - s) \in Nat /\ 2^(HashBits - r) \in Nat /\ max_bucket_count \in Nat
        /\ calc_num_buckets(s) = IF max_bucket_count =< 2^(HashBits - s)
                                 THEN max_bucket_count ELSE 2^(HashBits - s)
        /\ calc_num_buckets(r) = IF max_bucket_count =< 2^(HashBits - r)
                                 THEN max_bucket_count ELSE 2^(HashBits - r)
    BY CountFacts
  <2>4. \A a, b, m \in Nat : 2 * a =< b => (IF m =< b THEN m ELSE b) >= (IF m =< a THEN m ELSE a)
    OBVIOUS
  <2> QED  BY <2>2, <2>3, <2>4
<1> QED  BY <1>2, <1>3

(* With as many buckets as its shifts say, every key has its home in one.  *)
LEMMA CountShaped ==
    ASSUME NEW V, NEW t \in TableType(V), bucket_count(t) = calc_num_buckets(t.shifts)
    PROVE  Shaped(t)
<1> DEFINE s == t.shifts
<1>1. s \in 0..initial_shifts /\ t.buckets \in Seq(BucketType)
  BY DEF TableType
<1>2. bucket_count(t) \in Nat \ {0, 1}
  <2> HIDE DEF s
  <2>1. calc_num_buckets(s) \in Nat \ {0, 1}
    BY <1>1, CountFacts
  <2> QED  BY <2>1 DEF s
<1>3. bucket_count(t) > 1
  BY <1>2
<1> DEFINE p == 2^s
           q == 2^(HashBits - s)
<1>4. p \in Nat \ {0} /\ q \in Nat \ {0, 1} /\ 2^HashBits = p * q
  <2>1. s \in 0..HashBits
    <3>1. HashBits \in Nat /\ InitialBits \in Nat
      BY DenseTableAssumption
    <3> HIDE DEF s
    <3> QED  BY <1>1, <3>1 DEF initial_shifts
  <2>2. q \in Nat \ {0, 1}
    <3> HIDE DEF s
    <3> QED  BY <1>1, CountFacts
  <2> HIDE DEF s
  <2> QED  BY <2>1, <2>2, DenseTableAssumption
<1>5. ASSUME NEW key \in DOMAIN Hash PROVE bucket_idx_from_hash(t, key) \in Slots(t)
  <2>1. Hash[key] \in Nat /\ Hash[key] < p * q
    <3>1. Hash[key] \in 0..(2^HashBits - 1)
      BY DenseTableAssumption
    <3>2. 2^HashBits \in Nat
      BY DenseTableAssumption
    <3> HIDE DEF p, q
    <3>3. \A a, h \in Nat : h \in 0..(a - 1) => h < a
      OBVIOUS
    <3>4. Hash[key] \in Nat
      BY <3>1
    <3>5. Hash[key] < 2^HashBits
      BY <3>1, <3>2, <3>3, <3>4
    <3> QED  BY <1>4, <3>4, <3>5
  <2>2. Hash[key] \div p \in 0..(q - 1)
    <3> HIDE DEF p, q
    <3>1. q \in Nat \ {0}
      BY <1>4
    <3> QED  BY <1>4, <2>1, <3>1, DivLess
  <2> DEFINE a == Hash[key] \div p
             m == max_bucket_count
  <2>3. bucket_idx_from_hash(t, key) = a % m
    BY DEF bucket_idx_from_hash, mixed_hash
  <2>4. /\ m \in Nat \ {0, 1}
        /\ calc_num_buckets(s) = IF m =< q THEN m ELSE q
    <3> HIDE DEF s
    <3> QED  BY <1>1, CountFacts DEF q
  <2>5. a % m \in 0..(calc_num_buckets(s) - 1)
    <3> HIDE DEF p, q, a, m
    <3>1. CASE m =< q
      <4>1. a % m \in 0..(m - 1)
        BY <1>4, <2>2, <2>4 DEF a
      <4> QED  BY <2>4, <3>1, <4>1
    <3>2. CASE ~(m =< q)
      <4>1. a \in 0..(m - 1)
        BY <1>4, <2>2, <2>4, <3>2 DEF a
      <4>2. a % m = a
        BY <2>4, <4>1, ModSmall
      <4> QED  BY <2>2, <2>4, <3>2, <4>2 DEF a
    <3> QED  BY <3>1, <3>2
  <2> QED  BY <2>3, <2>5 DEF Slots
<1> QED  BY <1>1, <1>3, <1>5 DEF Shaped

(* While there are fewer values than buckets, one of these is empty.       *)
LEMMA EmptyLeft ==
    ASSUME NEW t, NEW m \in Nat, m < bucket_count(t), Shaped(t), Indexed(t, 0..(m - 1))
    PROVE  \E e \in Slots(t) : Dist(t, e) = 0 /\ at(t, e) = EmptyBucket
<1> DEFINE n == bucket_count(t)
           I == 0..(m - 1)
<1>1. n \in Nat \ {0, 1}
  BY ShapedFacts
<1>2. \E e \in Slots(t) : Dist(t, e) = 0
  <2> SUFFICES ASSUME \A e \in Slots(t) : Dist(t, e) # 0 PROVE FALSE
    OBVIOUS
  <2> DEFINE f == [b \in Slots(t) |-> ValueAt(t, b)]
  <2>1. \A b \in Slots(t) : ValueAt(t, b) \in I
    BY PlacedFacts
  <2>2. f \in [Slots(t) -> I]
    BY <2>1
  <2>3. /\ IsFiniteSet(Slots(t)) /\ Cardinality(Slots(t)) = n
        /\ IsFiniteSet(I) /\ Cardinality(I) = m
    <3>1. \A a \in Nat : IsFiniteSet(0..(a - 1)) /\ Cardinality(0..(a - 1)) = a
      <4> TAKE a \in Nat
      <4> DEFINE c == a - 1
      <4>1. 0 \in Int /\ c \in Int
        OBVIOUS
      <4> HIDE DEF c
      <4>2. IsFiniteSet(0..c) /\ Cardinality(0..c) = IF 0 > c THEN 0 ELSE c - 0 + 1
        BY <4>1, FS_Interval
      <4> QED  BY <4>2 DEF c
    <3> QED  BY <1>1, <3>1 DEF Slots
  <2>4. Cardinality(I) < Cardinality(Slots(t))
    BY <2>3
  <2> HIDE DEF f, I
  <2>5. \E x, y \in Slots(t) : x # y /\ f[x] = f[y]
    BY <2>2, <2>3, <2>4, FS_PigeonHole
  <2> QED  BY <2>5 DEF f, Indexed, OneEach
<1> QED  BY <1>2, PlacedFacts

-----------------------------------------------------------------------------
Places(t) == 0..(size(t) - 1)

(* All the buckets are empty.                                              *)
AllEmpty(t) == \A b \in Slots(t) : at(t, b) = EmptyBucket

LEMMA EmptyIndexed ==
    ASSUME NEW t, Shaped(t), AllEmpty(t)
    PROVE  Indexed(t, {})
<1>1. \A b \in Slots(t) : Dist(t, b) = 0 /\ at(t, b) = EmptyBucket
  BY DEF AllEmpty, EmptyBucket, Bucket, Dist
<1>2. 0 \in Slots(t) /\ DistInc \in Nat \ {0}
  BY ShapedFacts, DenseTableAssumption DEF Slots
<1>3. KeysApart(t, {})
  BY DEF KeysApart
<1>4. AtDistance(t, {})
  BY <1>1 DEF AtDistance
<1>5. NoneAhead(t)
  <2>1. 0 < 2 * DistInc /\ ~(0 >= 2 * DistInc)
    BY <1>2
  <2> QED  BY <1>1, <1>2, <2>1 DEF NoneAhead
<1>6. OneEach(t, {})
  BY <1>1 DEF OneEach
<1> QED  BY <1>3, <1>4, <1>5, <1>6 DEF Indexed

LEMMA LoadFacts ==
    ASSUME NEW n \in Nat, NEW load \in LoadType
    PROVE  LoadOf(n, load) \in 0..n
<1>1. load[1] \in Nat /\ load[2] \in Nat \ {0} /\ load[1] =< load[2]
  BY DEF LoadType
<1> DEFINE a == load[1]
           b == load[2]
<1>2. a \in Nat /\ b \in Nat \ {0} /\ a =< b /\ LoadOf(n, load) = (n * a) \div b
  BY <1>1 DEF LoadOf
<1> HIDE DEF a, b
<1>3. n * a \in Nat /\ n * b \in Nat /\ n * a = a * n /\ n * b = b * n
  BY <1>2
<1>4. a * n =< b * n
  BY <1>2, ProductFacts
<1>5. (n + 1) * b = n * b + b /\ (n + 1) * b = b * (n + 1)
  BY <1>2, ProductFacts
<1>6. n * a < b * (n + 1)
  BY <1>2, <1>3, <1>4, <1>5
<1>7. (n * a) \div b \in 0..((n + 1) - 1)
  BY <1>2, <1>3, <1>6, DivLess
<1> QED  BY <1>2, <1>7

LEMMA CapacityFacts ==
    ASSUME NEW n \in Nat, NEW load \in LoadType
    PROVE  /\ Capacity(n, load) \in 0..n
           /\ n = max_bucket_count => Capacity(n, load) = n
BY LoadFacts DEF Capacity

(* A table may hold as many values as its index has room for.              *)
Sized(t) ==
    IF bucket_count(t) = 0 THEN t.max_bucket_capacity = 0
    ELSE /\ bucket_count(t) = calc_num_buckets(t.shifts)
         /\ t.max_bucket_capacity =< bucket_count(t)
         /\ bucket_count(t) = max_bucket_count => t.max_bucket_capacity = max_bucket_count

LEMMA AllocateFacts ==
    ASSUME NEW V, NEW t \in TableType(V), NEW u, u = allocate_buckets_from_shift(t)
    PROVE  /\ u \in TableType(V) /\ Sized(u) /\ Shaped(u) /\ AllEmpty(u)
           /\ u.values = t.values /\ u.shifts = t.shifts
           /\ u.max_load_factor = t.max_load_factor
           /\ bucket_count(u) = calc_num_buckets(t.shifts)
<1> DEFINE n == calc_num_buckets(t.shifts)
<1>1. t.shifts \in 0..initial_shifts /\ t.max_load_factor \in LoadType
  BY DEF TableType
<1>2. n \in Nat \ {0, 1}
  BY <1>1, CountFacts
<1> HIDE DEF n
<1>3. u = [t EXCEPT !.buckets = [i \in 1..n |-> EmptyBucket],
                    !.max_bucket_capacity = Capacity(n, t.max_load_factor)]
  BY DEF allocate_buckets_from_shift, n
<1>4. EmptyBucket \in BucketType
  BY DEF EmptyBucket, Bucket, BucketType
<1>5. [i \in 1..n |-> EmptyBucket] \in Seq(BucketType) /\ Len([i \in 1..n |-> EmptyBucket]) = n
  BY <1>2, <1>4
<1>6. Capacity(n, t.max_load_factor) \in 0..n
      /\ (n = max_bucket_count => Capacity(n, t.max_load_factor) = n)
  BY <1>1, <1>2, CapacityFacts
<1>7. /\ u.buckets = [i \in 1..n |-> EmptyBucket]
      /\ u.max_bucket_capacity = Capacity(n, t.max_load_factor)
      /\ u.values = t.values /\ u.shifts = t.shifts /\ u.max_load_factor = t.max_load_factor
  BY <1>3 DEF TableType
<1>8. Capacity(n, t.max_load_factor) \in Nat
  BY <1>2, <1>6
<1>9. u \in TableType(V)
  BY <1>3, <1>5, <1>8 DEF TableType
<1>10. bucket_count(u) = n
  BY <1>5, <1>7 DEF bucket_count
<1>11. Sized(u)
  BY <1>2, <1>6, <1>7, <1>10 DEF Sized, n
<1>12. AllEmpty(u)
  <2> SUFFICES ASSUME NEW b \in Slots(u) PROVE at(u, b) = EmptyBucket
    BY DEF AllEmpty
  <2>1. b + 1 \in 1..n
    BY <1>2, <1>10 DEF Slots
  <2> QED  BY <1>7, <2>1 DEF at
<1>13. Shaped(u)
  BY <1>7, <1>9, <1>10, CountShaped DEF n
<1> QED  BY <1>7, <1>9, <1>10, <1>11, <1>12, <1>13 DEF n

LEMMA ClearFacts ==
    ASSUME NEW V, NEW t \in TableType(V), NEW u, u = clear_buckets(t)
    PROVE  OtherBuckets(t, u) /\ AllEmpty(u)
<1> DEFINE n == bucket_count(t)
<1>1. t.buckets \in Seq(BucketType)
  BY DEF TableType
<1>2. n \in Nat /\ DOMAIN t.buckets = 1..n
  BY ONLY <1>1 DEF bucket_count
<1>3. u = [t EXCEPT !.buckets = [i \in 1..n |-> EmptyBucket]]
  BY <1>2 DEF clear_buckets
<1>4. u.buckets = [i \in 1..n |-> EmptyBucket]
  BY <1>3 DEF TableType
<1>5. EmptyBucket \in BucketType
  BY DEF EmptyBucket, Bucket, BucketType
<1> HIDE DEF n
<1>6. u.buckets \in Seq(BucketType) /\ Len(u.buckets) = n
  BY <1>2, <1>4, <1>5
<1>7. OtherBuckets(t, u)
  BY <1>3, <1>4, <1>6 DEF OtherBuckets, bucket_count, n
<1>8. AllEmpty(u)
  <2> SUFFICES ASSUME NEW b \in Slots(u) PROVE at(u, b) = EmptyBucket
    BY DEF AllEmpty
  <2>1. b + 1 \in 1..n
    BY <1>2, <1>6 DEF Slots, bucket_count
  <2> QED  BY <1>4, <2>1 DEF at
<1> QED  BY <1>7, <1>8

(* The recursive function behind clear_and_fill_buckets_from_values.       *)
LEMMA FillFunction ==
    ASSUME NEW t, size(t) \in Nat
    PROVE  \E f : /\ f[0] = clear_buckets(t)
                  /\ \A k \in 1..size(t) : f[k] = Index(f[k - 1], k - 1)
                  /\ clear_and_fill_buckets_from_values(t) = f[size(t)]
<1> DEFINE Upto(g, m) == g = [k \in 0..m |-> IF k = 0 THEN clear_buckets(t) ELSE Index(g[k - 1], k - 1)]
           Exist == {m \in Nat : \E g : Upto(g, m)}
<1>1. 0 \in Exist
  <2> DEFINE g == [k \in 0..0 |-> clear_buckets(t)]
  <2>1. Upto(g, 0)
    OBVIOUS
  <2> QED  BY <2>1
<1>2. ASSUME NEW m \in Nat, m \in Exist PROVE m + 1 \in Exist
  <2>1. PICK g : Upto(g, m)
    BY <1>2
  <2> DEFINE h == [k \in 0..(m + 1) |->
                      IF k = m + 1 THEN Index(g[k - 1], k - 1) ELSE g[k]]
  <2>2. ASSUME NEW k \in 0..(m + 1)
        PROVE  h[k] = IF k = 0 THEN clear_buckets(t) ELSE Index(h[k - 1], k - 1)
    <3>1. k # 0 => k - 1 \in 0..m /\ h[k - 1] = g[k - 1]
      OBVIOUS
    <3>2. CASE k = m + 1
      BY <3>1, <3>2
    <3>3. CASE k # m + 1
      <4>1. k \in 0..m /\ h[k] = g[k]
        BY <3>3
      <4>2. g[k] = IF k = 0 THEN clear_buckets(t) ELSE Index(g[k - 1], k - 1)
        BY <2>1, <4>1
      <4> QED  BY <3>1, <4>1, <4>2
    <3> QED  BY <3>2, <3>3
  <2>3. h = [k \in 0..(m + 1) |-> h[k]]
    OBVIOUS
  <2>4. Upto(h, m + 1)
    <3> HIDE DEF h
    <3> QED  BY <2>2, <2>3
  <2> HIDE DEF h, Upto
  <2>5. m + 1 \in Nat /\ \E g2 : Upto(g2, m + 1)
    BY <2>4
  <2> QED  BY <2>5
<1>3. \E g : Upto(g, size(t))
  <2>1. Nat \subseteq Exist
    <3> HIDE DEF Exist
    <3> QED  BY <1>1, <1>2, NatSetInduction
  <2> QED  BY <2>1
<1> DEFINE f == CHOOSE g : Upto(g, size(t))
<1>4. Upto(f, size(t))
  BY <1>3
<1>5. clear_and_fill_buckets_from_values(t) = f[size(t)]
  BY DEF clear_and_fill_buckets_from_values
<1> HIDE DEF f
<1>6. \A k \in 0..size(t) : f[k] = IF k = 0 THEN clear_buckets(t) ELSE Index(f[k - 1], k - 1)
  BY <1>4
<1>7. f[0] = clear_buckets(t) /\ \A k \in 1..size(t) : f[k] = Index(f[k - 1], k - 1)
  BY <1>6
<1> QED  BY <1>5, <1>7

(* The values have keys of their own.                                      *)
Distinct(t) == \A i, j \in Places(t) : key_at(t, i) = key_at(t, j) => i = j

LEMMA ValueFacts ==
    ASSUME NEW V, NEW t \in TableType(V)
    PROVE  /\ size(t) \in Nat /\ DOMAIN t.values = 1..size(t)
           /\ \A i \in Places(t) : /\ i + 1 \in 1..size(t)
                                   /\ t.values[i + 1] \in [key : DOMAIN Hash, val : V]
                                   /\ key_at(t, i) \in DOMAIN Hash
<1>1. t.values \in Seq([key : DOMAIN Hash, val : V])
  BY DEF TableType
<1>2. size(t) \in Nat /\ DOMAIN t.values = 1..size(t)
  BY ONLY <1>1 DEF size
<1>3. \A i \in Places(t) : i + 1 \in 1..size(t)
  BY <1>2 DEF Places
<1>4. \A i \in 1..size(t) : t.values[i] \in [key : DOMAIN Hash, val : V]
  <2> DEFINE E == [key : DOMAIN Hash, val : V]
  <2> HIDE DEF E
  <2>1. t.values \in Seq(E)
    BY <1>1 DEF E
  <2>2. \A i \in 1..size(t) : t.values[i] \in E
    BY ONLY <2>1 DEF size
  <2> QED  BY <2>2 DEF E
<1> QED  BY <1>2, <1>3, <1>4 DEF key_at

LEMMA OtherBucketsTrans ==
    ASSUME NEW V, NEW t \in TableType(V), NEW u, OtherBuckets(t, u), NEW w, OtherBuckets(u, w)
    PROVE  OtherBuckets(t, w)
<1>1. u = [t EXCEPT !.buckets = u.buckets] /\ w = [u EXCEPT !.buckets = w.buckets]
  BY DEF OtherBuckets
<1>2. w = [t EXCEPT !.buckets = w.buckets]
  BY <1>1 DEF TableType
<1> QED  BY <1>2 DEF OtherBuckets

(* One turn of the loop: the value at place i gets its bucket.             *)
LEMMA IndexOne ==
    ASSUME NEW V, NEW t \in TableType(V), Shaped(t), NEW m \in Places(t), Indexed(t, 0..(m - 1)),
           m < bucket_count(t),
           \A j \in 0..(m - 1) : key_at(t, j) # key_at(t, m)
    PROVE  OtherBuckets(t, Index(t, m)) /\ Indexed(Index(t, m), 0..m)
<1> DEFINE key == key_at(t, m)
           I == 0..(m - 1)
<1>1. key \in DOMAIN Hash /\ m \in Nat /\ m \notin I
  BY ValueFacts DEF Places
<1>2. PICK e \in Slots(t) : Dist(t, e) = 0
  BY <1>1, EmptyLeft
<1>3. PICK d \in 0..bucket_count(t) :
          /\ GoesAt(t, key, d)
          /\ next_while_less(t, key).daf = Wanted(key, d)
          /\ next_while_less(t, key).place = next(t, bucket_idx_from_hash(t, key), d)
  BY <1>1, AbsentFacts
<1>4. Index(t, m) = place_and_shift_up(t, Bucket(Wanted(key, d), m),
                                       next(t, bucket_idx_from_hash(t, key), d))
  BY <1>3 DEF Index
<1>5. OtherBuckets(t, Index(t, m)) /\ Indexed(Index(t, m), I \cup {m})
  BY <1>1, <1>2, <1>3, <1>4, PlacedIndexed
<1>6. I \cup {m} = 0..m
  BY <1>1
<1> QED  BY <1>5, <1>6

LEMMA FillFacts ==
    ASSUME NEW V, NEW t \in TableType(V), Shaped(t), Distinct(t), size(t) =< bucket_count(t),
           NEW u, u = clear_and_fill_buckets_from_values(t)
    PROVE  OtherBuckets(t, u) /\ Indexed(u, Places(u))
<1> DEFINE n == size(t)
<1>1. n \in Nat
  BY ValueFacts
<1>2. PICK f : /\ f[0] = clear_buckets(t)
               /\ \A k \in 1..n : f[k] = Index(f[k - 1], k - 1)
               /\ u = f[n]
  BY <1>1, FillFunction
<1> DEFINE Done == {k \in 0..n : OtherBuckets(t, f[k]) /\ Indexed(f[k], 0..(k - 1))}
<1>3. 0 \in Done
  <2>1. OtherBuckets(t, f[0]) /\ AllEmpty(f[0])
    BY <1>2, ClearFacts
  <2>2. Shaped(f[0])
    BY <2>1, OtherBucketsFacts
  <2>3. Indexed(f[0], {})
    BY <2>1, <2>2, EmptyIndexed
  <2>4. 0..(0 - 1) = {} /\ 0 \in 0..n
    BY <1>1
  <2> QED  BY <2>1, <2>3, <2>4
<1>4. ASSUME NEW k \in 0..(n - 1), k \in Done PROVE k + 1 \in Done
  <2> DEFINE g == f[k]
  <2>1. /\ k + 1 \in 1..n /\ k + 1 \in 0..n /\ (k + 1) - 1 = k /\ k \in Places(t) /\ k < n
        /\ k \in Nat
    BY <1>1 DEF Places
  <2>2. OtherBuckets(t, g) /\ Indexed(g, 0..(k - 1))
    BY <1>4
  <2>3. /\ g \in TableType(V) /\ Shaped(g) /\ size(g) = n /\ bucket_count(g) = bucket_count(t)
        /\ \A i : key_at(g, i) = key_at(t, i)
    <3> HIDE DEF g
    <3> QED  BY <2>2, OtherBucketsFacts
  <2>4. k \in Places(g) /\ k < bucket_count(g)
    <3>1. bucket_count(t) \in Nat
      BY ShapedFacts
    <3> HIDE DEF g
    <3> QED  BY <1>1, <2>1, <2>3, <3>1 DEF Places
  <2>5. \A j \in 0..(k - 1) : key_at(g, j) # key_at(g, k)
    <3> TAKE j \in 0..(k - 1)
    <3>1. j \in Places(t) /\ j # k
      BY <1>1, <2>1 DEF Places
    <3> QED  BY <2>1, <2>3, <3>1 DEF Distinct
  <2>6. OtherBuckets(g, Index(g, k)) /\ Indexed(Index(g, k), 0..k)
    <3> HIDE DEF g
    <3> QED  BY <2>2, <2>3, <2>4, <2>5, IndexOne
  <2>7. f[k + 1] = Index(g, k)
    BY <1>2, <2>1
  <2>8. OtherBuckets(t, f[k + 1])
    <3> HIDE DEF g
    <3> QED  BY <2>2, <2>6, <2>7, OtherBucketsTrans
  <2> HIDE DEF g
  <2> QED  BY <2>1, <2>6, <2>7, <2>8
<1>5. 0..n \subseteq Done
  <2> HIDE DEF Done
  <2> QED  BY <1>1, <1>3, <1>4, UpToInduction
<1>6. OtherBuckets(t, u) /\ Indexed(u, 0..(n - 1))
  <2>1. n \in Done
    BY <1>1, <1>5
  <2> QED  BY <1>2, <2>1
<1>7. size(u) = n
  BY <1>6, OtherBucketsFacts
<1> QED  BY <1>6, <1>7 DEF Places

-----------------------------------------------------------------------------
(* A table that its calls have made, and one whose index is there as well. *)
Consistent(V, t) == t \in TableType(V) /\ Sized(t) /\ Distinct(t)
Ready(V, t) ==
    /\ Consistent(V, t) /\ bucket_count(t) > 0 /\ size(t) =< bucket_count(t)
    /\ Indexed(t, Places(t))

LEMMA ReadyShaped == ASSUME NEW V, NEW t, Ready(V, t) PROVE Shaped(t)
<1>1. t \in TableType(V) /\ Sized(t) /\ bucket_count(t) > 0
  BY DEF Ready, Consistent
<1>2. bucket_count(t) # 0
  <2>1. bucket_count(t) \in Nat
    <3>1. t.buckets \in Seq(BucketType)
      BY <1>1 DEF TableType
    <3> QED  BY ONLY <3>1 DEF bucket_count
  <2> QED  BY <1>1, <2>1
<1> QED  BY <1>1, <1>2, CountShaped DEF Sized

(* The index of a table says nothing of the values it does not lead to.    *)
LEMMA SameIndex ==
    ASSUME NEW t, NEW I, Shaped(t), Indexed(t, I),
           NEW u, u.buckets = t.buckets, u.shifts = t.shifts,
           \A i \in I : key_at(u, i) = key_at(t, i)
    PROVE  /\ Shaped(u) /\ Indexed(u, I)
           /\ bucket_count(u) = bucket_count(t) /\ Slots(u) = Slots(t)
           /\ \A b : at(u, b) = at(t, b) /\ Dist(u, b) = Dist(t, b) /\ ValueAt(u, b) = ValueAt(t, b)
           /\ \A key, d : GoesAt(t, key, d) => GoesAt(u, key, d)
           /\ \A key, d : next(u, bucket_idx_from_hash(u, key), d) = next(t, bucket_idx_from_hash(t, key), d)
<1>1. /\ bucket_count(u) = bucket_count(t) /\ Slots(u) = Slots(t)
      /\ \A b : at(u, b) = at(t, b) /\ Prev(u, b) = Prev(t, b)
      /\ \A key : bucket_idx_from_hash(u, key) = bucket_idx_from_hash(t, key)
  BY DEF bucket_count, Slots, at, Prev, bucket_idx_from_hash
<1>2. \A b : Dist(u, b) = Dist(t, b) /\ ValueAt(u, b) = ValueAt(t, b)
  BY <1>1 DEF Dist, ValueAt
<1>3. \A a, b : After(u, a, b) = After(t, a, b)
  BY <1>1 DEF After
<1>4. \A i \in I : HomeOf(u, i) = HomeOf(t, i)
  BY <1>1 DEF HomeOf
<1>5. Shaped(u)
  BY <1>1 DEF Shaped
<1>6. KeysApart(u, I)
  BY DEF Indexed, KeysApart
<1>7. AtDistance(u, I)
  <2> SUFFICES ASSUME NEW b \in Slots(t)
               PROVE  IF Dist(t, b) = 0 THEN at(t, b) = EmptyBucket
                      ELSE /\ ValueAt(t, b) \in I
                           /\ Dist(t, b) = Wanted(key_at(u, ValueAt(t, b)),
                                                  After(t, HomeOf(u, ValueAt(t, b)), b))
    BY <1>1, <1>2, <1>3 DEF AtDistance
  <2>1. IF Dist(t, b) = 0 THEN at(t, b) = EmptyBucket
        ELSE /\ ValueAt(t, b) \in I
             /\ Dist(t, b) = Wanted(key_at(t, ValueAt(t, b)), After(t, HomeOf(t, ValueAt(t, b)), b))
    BY DEF Indexed, AtDistance
  <2>2. CASE Dist(t, b) = 0
    BY <2>1, <2>2
  <2>3. CASE Dist(t, b) # 0
    <3>1. ValueAt(t, b) \in I
      BY <2>1, <2>3
    <3>2. key_at(u, ValueAt(t, b)) = key_at(t, ValueAt(t, b)) /\ HomeOf(u, ValueAt(t, b)) = HomeOf(t, ValueAt(t, b))
      BY <1>4, <3>1
    <3> QED  BY <2>1, <2>3, <3>2
  <2> QED  BY <2>2, <2>3
<1>8. NoneAhead(u)
  BY <1>1, <1>2 DEF Indexed, NoneAhead
<1>9. OneEach(u, I)
  BY <1>1, <1>2 DEF Indexed, OneEach
<1>10. \A key, d : next(u, bucket_idx_from_hash(u, key), d) = next(t, bucket_idx_from_hash(t, key), d)
  BY <1>1 DEF next
<1>11. \A key, d : Stored(u, key, d) = Stored(t, key, d)
  BY <1>1, <1>10 DEF Stored, Here
<1>12. \A key, d : GoesAt(t, key, d) => GoesAt(u, key, d)
  BY <1>1, <1>11 DEF GoesAt
<1> QED  BY <1>1, <1>2, <1>5, <1>6, <1>7, <1>8, <1>9, <1>10, <1>12 DEF Indexed

LEMMA EmptyPlaces ==
    ASSUME NEW V, NEW t \in TableType(V), size(t) = 0
    PROVE  Places(t) = {} /\ Distinct(t)
BY DEF Places, Distinct

(* A new index for the values, or none.                                    *)
LEMMA ReindexFacts ==
    ASSUME NEW V, NEW t \in TableType(V), Distinct(t), NEW s \in 0..initial_shifts,
           size(t) =< calc_num_buckets(s), NEW e \in Reindexed(t, s)
    PROVE  /\ Consistent(V, e.table) /\ (~e.thrown => Ready(V, e.table))
           /\ e.table.values = t.values /\ e.table.max_load_factor = t.max_load_factor
           /\ e.thrown \in BOOLEAN /\ e = [table |-> e.table, thrown |-> e.thrown]
           /\ e.thrown => bucket_count(e.table) = 0
<1> DEFINE u == deallocate_buckets([t EXCEPT !.shifts = s])
           w == allocate_buckets_from_shift(u)
           x == clear_and_fill_buckets_from_values(w)
<1>1. /\ u \in TableType(V)
      /\ u.values = t.values /\ u.shifts = s /\ u.max_load_factor = t.max_load_factor
      /\ u.buckets = << >> /\ u.max_bucket_capacity = 0
  <2>1. u = [t EXCEPT !.shifts = s, !.buckets = << >>, !.max_bucket_capacity = 0]
    BY DEF deallocate_buckets, TableType
  <2> HIDE DEF u
  <2>2. << >> \in Seq(BucketType) /\ s \in 0..initial_shifts /\ 0 \in Nat
    OBVIOUS
  <2>3. /\ u.values = t.values /\ u.shifts = s /\ u.max_load_factor = t.max_load_factor
        /\ u.buckets = << >> /\ u.max_bucket_capacity = 0
    BY <2>1 DEF TableType
  <2>4. u \in TableType(V)
    <3> DEFINE B == Seq(BucketType)
    <3>1. << >> \in B /\ t.buckets \in B
      BY <2>2 DEF TableType
    <3> HIDE DEF B
    <3> QED  BY <2>1, <2>2, <3>1 DEF TableType, B
  <2> QED  BY <2>3, <2>4
<1>2. bucket_count(u) = 0
  BY <1>1 DEF bucket_count
<1>3. Consistent(V, u)
  <2>1. Distinct(u)
    BY <1>1 DEF Distinct, Places, size, key_at
  <2>2. Sized(u)
    BY <1>1, <1>2 DEF Sized
  <2> QED  BY <1>1, <2>1, <2>2 DEF Consistent
<1>4. e = Throws(u) \/ e = Ends(x)
  BY DEF Reindexed
<1>5. CASE e = Throws(u)
  BY <1>1, <1>2, <1>3, <1>5 DEF Throws
<1>6. CASE e = Ends(x)
  <2> HIDE DEF u
  <2>1. /\ w \in TableType(V) /\ Sized(w) /\ Shaped(w)
        /\ w.values = t.values /\ w.shifts = s
        /\ w.max_load_factor = t.max_load_factor
        /\ bucket_count(w) = calc_num_buckets(s)
    BY <1>1, AllocateFacts
  <2> HIDE DEF w
  <2>2. Distinct(w) /\ size(w) =< bucket_count(w)
    BY <2>1 DEF Distinct, Places, size, key_at
  <2>3. OtherBuckets(w, x) /\ Indexed(x, Places(x))
    BY <2>1, <2>2, FillFacts
  <2> HIDE DEF x
  <2>4. /\ x \in TableType(V) /\ x.values = w.values /\ x.shifts = w.shifts
        /\ x.max_bucket_capacity = w.max_bucket_capacity
        /\ x.max_load_factor = w.max_load_factor
        /\ bucket_count(x) = bucket_count(w) /\ size(x) = size(w)
    BY <2>1, <2>3, OtherBucketsFacts
  <2>5. Sized(x) /\ Distinct(x) /\ size(x) =< bucket_count(x)
    BY <2>1, <2>2, <2>4 DEF Sized, Distinct, Places, key_at
  <2>6. bucket_count(x) > 0
    <3>1. calc_num_buckets(s) \in Nat \ {0, 1}
      BY CountFacts
    <3> QED  BY <2>1, <2>4, <3>1
  <2>7. Ready(V, x)
    BY <2>3, <2>4, <2>5, <2>6 DEF Ready, Consistent
  <2> QED  BY <1>6, <2>1, <2>4, <2>7 DEF Ends, Ready
<1> QED  BY <1>4, <1>5, <1>6

-----------------------------------------------------------------------------
(* Inserting.                                                              *)
EntryType(V) == [key : DOMAIN Hash, val : V]

LEMMA AppendFacts ==
    ASSUME NEW S, NEW s \in Seq(S), NEW e \in S
    PROVE  /\ Append(s, e) \in Seq(S) /\ Len(Append(s, e)) = Len(s) + 1 /\ Len(s) \in Nat
           /\ \A i \in 1..Len(s) : Append(s, e)[i] = s[i]
           /\ Append(s, e)[Len(s) + 1] = e
           /\ SubSeq(Append(s, e), 1, Len(s)) = s
OBVIOUS

LEMMA EmplaceBackFacts ==
    ASSUME NEW V, NEW t \in TableType(V), NEW entry \in EntryType(V),
           NEW u, u = emplace_back(t, entry)
    PROVE  /\ u \in TableType(V) /\ u.values = Append(t.values, entry)
           /\ size(u) = size(t) + 1 /\ size(t) \in Nat
           /\ u.buckets = t.buckets /\ u.shifts = t.shifts
           /\ u.max_bucket_capacity = t.max_bucket_capacity
           /\ u.max_load_factor = t.max_load_factor
           /\ \A i \in Places(t) : key_at(u, i) = key_at(t, i)
           /\ key_at(u, size(t)) = entry.key
           /\ pop_back(u) = t
<1> DEFINE E == [key : DOMAIN Hash, val : V]
           v == Append(t.values, entry)
<1>1. t.values \in Seq(E) /\ entry \in E
  BY DEF TableType, EntryType
<1> HIDE DEF E
<1>2. /\ v \in Seq(E) /\ Len(v) = Len(t.values) + 1 /\ Len(t.values) \in Nat
      /\ \A i \in 1..Len(t.values) : v[i] = t.values[i]
      /\ v[Len(t.values) + 1] = entry
      /\ SubSeq(v, 1, Len(t.values)) = t.values
  BY <1>1, AppendFacts
<1> HIDE DEF v
<1>3. u = [t EXCEPT !.values = v]
  BY DEF emplace_back, v
<1>4. /\ u.values = v /\ u.buckets = t.buckets /\ u.shifts = t.shifts
      /\ u.max_bucket_capacity = t.max_bucket_capacity
      /\ u.max_load_factor = t.max_load_factor
  BY <1>3 DEF TableType
<1>5. u \in TableType(V)
  BY <1>2, <1>3 DEF TableType, E
<1>6. size(u) = size(t) + 1 /\ size(t) \in Nat /\ size(t) = Len(t.values)
  BY <1>2, <1>4 DEF size
<1>7. \A i \in Places(t) : key_at(u, i) = key_at(t, i)
  <2> TAKE i \in Places(t)
  <2>1. i + 1 \in 1..Len(t.values)
    BY <1>6 DEF Places
  <2> QED  BY <1>2, <1>4, <2>1 DEF key_at
<1>8. key_at(u, size(t)) = entry.key
  BY <1>2, <1>4, <1>6 DEF key_at
<1>9. pop_back(u) = t
  <2>1. Len(u.values) - 1 = Len(t.values)
    BY <1>2, <1>4
  <2>2. pop_back(u) = [u EXCEPT !.values = t.values]
    BY <1>2, <1>4, <2>1 DEF pop_back
  <2>3. [[t EXCEPT !.values = v] EXCEPT !.values = t.values] = t
    BY DEF TableType
  <2> QED  BY <1>3, <2>2, <2>3
<1> QED  BY <1>4, <1>5, <1>6, <1>7, <1>8, <1>9 DEF v

(* How the addition of an entry whose key is new may end.                  *)
Lengthened(V, t, entry, e) ==
    /\ Consistent(V, e.table) /\ e.thrown \in BOOLEAN
    /\ e = [table |-> e.table, thrown |-> e.thrown]
    /\ e.table.max_load_factor = t.max_load_factor
    /\ ~e.thrown => Ready(V, e.table) /\ e.table.values = Append(t.values, entry)
    /\ e.thrown => \/ e.table = t
                   \/ e.table.values = Append(t.values, entry) /\ bucket_count(e.table) = 0

(* A new value gets its bucket, or a larger index, or is taken back, or is *)
(* left without an index.                                                  *)
LEMMA PlaceFacts ==
    ASSUME NEW V, NEW t, Ready(V, t), NEW entry \in EntryType(V),
           \A i \in Places(t) : key_at(t, i) # entry.key,
           NEW u, u = emplace_back(t, entry),
           NEW d, GoesAt(u, entry.key, d), NEW daf, daf = Wanted(entry.key, d),
           NEW place, place = next(u, bucket_idx_from_hash(u, entry.key), d),
           NEW e \in Place(u, daf, place)
    PROVE  Lengthened(V, t, entry, e)
<1> DEFINE n == bucket_count(t)
           m == size(t)
           key == entry.key
<1>1. /\ t \in TableType(V) /\ Sized(t) /\ Distinct(t) /\ n > 0 /\ m =< n
      /\ Indexed(t, Places(t))
  BY DEF Ready, Consistent
<1>2. Shaped(t)
  BY ReadyShaped
<1>3. /\ u \in TableType(V) /\ u.values = Append(t.values, entry)
      /\ size(u) = m + 1 /\ m \in Nat
      /\ u.buckets = t.buckets /\ u.shifts = t.shifts
      /\ u.max_bucket_capacity = t.max_bucket_capacity
      /\ u.max_load_factor = t.max_load_factor
      /\ \A i \in Places(t) : key_at(u, i) = key_at(t, i)
      /\ key_at(u, m) = key
      /\ pop_back(u) = t
  BY <1>1, EmplaceBackFacts
<1>4. Shaped(u) /\ Indexed(u, Places(t)) /\ bucket_count(u) = n /\ Slots(u) = Slots(t)
  BY <1>1, <1>2, <1>3, SameIndex
<1>5. n \in Nat \ {0, 1} /\ t.max_bucket_capacity \in Nat /\ t.shifts \in 0..initial_shifts
      /\ n = calc_num_buckets(t.shifts) /\ t.max_bucket_capacity =< n
      /\ (n = max_bucket_count => t.max_bucket_capacity = max_bucket_count)
  <2>1. n \in Nat \ {0, 1}
    BY <1>2, ShapedFacts
  <2> QED  BY <1>1, <2>1 DEF Sized, TableType
<1>6. Places(u) = Places(t) \cup {m} /\ m \notin Places(t)
  BY <1>3 DEF Places
<1>7. Distinct(u)
  <2> SUFFICES ASSUME NEW i \in Places(u), NEW j \in Places(u), key_at(u, i) = key_at(u, j)
               PROVE  i = j
    BY DEF Distinct
  <2>1. CASE i \in Places(t) /\ j \in Places(t)
    BY <1>1, <1>3, <2>1 DEF Distinct
  <2>2. CASE i = m /\ j \in Places(t)
    BY <1>3, <2>2
  <2>3. CASE i \in Places(t) /\ j = m
    BY <1>3, <2>3
  <2> QED  BY <1>6, <2>1, <2>2, <2>3
<1>8. CASE ~is_full(u)
  <2> DEFINE w == place_and_shift_up(u, Bucket(daf, size(u) - 1), place)
  <2>1. e = Ends(w)
    BY <1>8 DEF Place
  <2>2. m < n
    BY <1>3, <1>5, <1>8 DEF is_full
  <2>3. PICK x \in Slots(u) : Dist(u, x) = 0
    BY <1>3, <1>4, <2>2, EmptyLeft DEF Places
  <2>4. size(u) - 1 = m /\ key \in DOMAIN Hash
    BY <1>3 DEF EntryType
  <2>5. OtherBuckets(u, w) /\ Indexed(w, Places(t) \cup {m})
    <3>1. \A j \in Places(t) : key_at(u, j) # key
      BY <1>3
    <3>2. w = place_and_shift_up(u, Bucket(Wanted(key, d), m), place)
      BY <2>4
    <3> HIDE DEF w, m, key
    <3> QED  BY <1>3, <1>4, <1>6, <2>3, <2>4, <3>1, <3>2, PlacedIndexed DEF key
  <2> HIDE DEF w
  <2>6. /\ w \in TableType(V) /\ w.values = u.values /\ size(w) = size(u)
        /\ w.shifts = u.shifts
        /\ w.max_bucket_capacity = u.max_bucket_capacity
        /\ w.max_load_factor = u.max_load_factor
        /\ bucket_count(w) = bucket_count(u)
    BY <1>3, <2>5, OtherBucketsFacts
  <2>7. Places(w) = Places(t) \cup {m}
    BY <1>6, <2>6 DEF Places
  <2>8. Distinct(w)
    BY <1>7, <2>6 DEF Distinct, Places, key_at
  <2>9. Sized(w)
    BY <1>3, <1>4, <1>5, <2>6 DEF Sized
  <2>10. Ready(V, w)
    <3>1. size(w) =< bucket_count(w) /\ bucket_count(w) > 0
      BY <1>3, <1>4, <1>5, <2>2, <2>6
    <3> QED  BY <2>5, <2>6, <2>7, <2>8, <2>9, <3>1 DEF Ready, Consistent
  <2>11. e.table = w /\ e.thrown = FALSE /\ e = [table |-> e.table, thrown |-> e.thrown]
    BY <2>1 DEF Ends
  <2> QED  BY <1>3, <2>6, <2>10, <2>11 DEF Ready, Lengthened
<1>9. CASE is_full(u)
  <2>1. e \in increase_size(u)
    BY <1>9 DEF Place
  <2>2. CASE u.max_bucket_capacity = max_bucket_count
    <3>1. e = Throws(t)
      BY <1>3, <2>1, <2>2 DEF increase_size
    <3>2. Consistent(V, t)
      BY <1>1 DEF Consistent
    <3> QED  BY <3>1, <3>2 DEF Throws, Lengthened
  <2>3. CASE u.max_bucket_capacity # max_bucket_count
    <3>1. e \in Reindexed(u, t.shifts - 1)
      BY <1>3, <2>1, <2>3 DEF increase_size
    <3>2. n < max_bucket_count
      <4>1. n =< max_bucket_count /\ max_bucket_count \in Nat
        BY <1>5, CountFacts
      <4> QED  BY <1>3, <1>5, <2>3, <4>1
    <3>3. t.shifts - 1 \in 0..initial_shifts /\ calc_num_buckets(t.shifts - 1) > n
      BY <1>5, <3>2, CountFacts
    <3>4. size(u) =< calc_num_buckets(t.shifts - 1)
      <4>1. calc_num_buckets(t.shifts - 1) \in Nat
        BY <3>3, CountFacts
      <4> QED  BY <1>1, <1>3, <1>5, <3>3, <4>1
    <3>5. /\ Consistent(V, e.table) /\ (~e.thrown => Ready(V, e.table))
          /\ e.table.values = u.values /\ e.table.max_load_factor = u.max_load_factor
          /\ e.thrown \in BOOLEAN /\ e = [table |-> e.table, thrown |-> e.thrown]
          /\ e.thrown => bucket_count(e.table) = 0
      BY <1>3, <1>7, <3>1, <3>3, <3>4, ReindexFacts
    <3> QED  BY <1>3, <3>5 DEF Lengthened
  <2> QED  BY <2>2, <2>3
<1> QED  BY <1>8, <1>9

-----------------------------------------------------------------------------
(* What a call may leave: an index that leads to every value, or none.     *)
Left(V, t) == Consistent(V, t) /\ (bucket_count(t) > 0 => Ready(V, t))

LEMMA ReadyLeft == ASSUME NEW V, NEW t, Ready(V, t) PROVE Left(V, t)
BY DEF Ready, Left

LEMMA ThrownLeft ==
    ASSUME NEW V, NEW t, Consistent(V, t), bucket_count(t) = 0
    PROVE  Left(V, t)
<1>1. ~(bucket_count(t) > 0)
  OBVIOUS
<1> QED  BY <1>1 DEF Left

(* What the insertion r of an entry did to t: found its key, or added it,  *)
(* or failed.                                                              *)
Insertion(V, t, entry, r) ==
    /\ Left(V, r.end.table) /\ r.end.thrown \in BOOLEAN
    /\ r = [end |-> [table |-> r.end.table, thrown |-> r.end.thrown], idx |-> r.idx, is_new |-> r.is_new]
    /\ r.end.table.max_load_factor = t.max_load_factor
    /\ ~r.end.thrown =>
           /\ Ready(V, r.end.table) /\ r.idx \in Places(r.end.table)
           /\ key_at(r.end.table, r.idx) = entry.key
           /\ \/ ~r.is_new /\ r.end.table = t
              \/ /\ r.is_new /\ r.idx = size(t)
                 /\ \A i \in Places(t) : key_at(t, i) # entry.key
                 /\ r.end.table.values = Append(t.values, entry)
    /\ r.end.thrown =>
           /\ r.is_new
           /\ \/ r.end.table = t
              \/ bucket_count(r.end.table) = 0
           /\ \/ r.end.table.values = t.values
              \/ r.end.table.values = Append(t.values, entry)

LEMMA FoundFacts ==
    ASSUME NEW V, NEW t, Ready(V, t), NEW i \in Places(t),
           NEW entry, entry.key = key_at(t, i), NEW r \in Found(t, i)
    PROVE  Insertion(V, t, entry, r)
<1>1. r.end.table = t /\ r.end.thrown = FALSE /\ r.idx = i /\ r.is_new = FALSE
      /\ r = [end |-> [table |-> r.end.table, thrown |-> r.end.thrown], idx |-> r.idx, is_new |-> r.is_new]
  BY DEF Found, Ends
<1> QED  BY <1>1, ReadyLeft DEF Insertion

LEMMA ThrowFacts ==
    ASSUME NEW V, NEW t, Ready(V, t), NEW entry, NEW i, NEW r \in Placed({Throws(t)}, i)
    PROVE  Insertion(V, t, entry, r)
<1>1. r.end.table = t /\ r.end.thrown = TRUE /\ r.is_new = TRUE
      /\ r = [end |-> [table |-> r.end.table, thrown |-> r.end.thrown], idx |-> r.idx, is_new |-> r.is_new]
  BY DEF Placed, Throws
<1> QED  BY <1>1, ReadyLeft DEF Insertion

LEMMA PlaceInserts ==
    ASSUME NEW V, NEW t, Ready(V, t), NEW entry \in EntryType(V),
           \A i \in Places(t) : key_at(t, i) # entry.key,
           NEW u, u = emplace_back(t, entry),
           NEW d, GoesAt(u, entry.key, d), NEW daf, daf = Wanted(entry.key, d),
           NEW place, place = next(u, bucket_idx_from_hash(u, entry.key), d),
           NEW r \in Placed(Place(u, daf, place), size(t))
    PROVE  Insertion(V, t, entry, r)
<1>1. PICK e \in Place(u, daf, place) : r = [end |-> e, idx |-> size(t), is_new |-> TRUE]
  BY DEF Placed
<1>2. r.end = e /\ r.idx = size(t) /\ r.is_new = TRUE
      /\ r = [end |-> e, idx |-> r.idx, is_new |-> r.is_new]
  BY <1>1
<1>3. Lengthened(V, t, entry, e)
  BY PlaceFacts
<1>4. t \in TableType(V)
  BY DEF Ready, Consistent
<1>5. CASE e.thrown
  BY <1>2, <1>3, <1>5, ReadyLeft, ThrownLeft DEF Insertion, Lengthened
<1>6. CASE ~e.thrown
  <2>1. u.values = Append(t.values, entry) /\ key_at(u, size(t)) = entry.key
        /\ size(u) = size(t) + 1 /\ size(t) \in Nat
    BY <1>4, EmplaceBackFacts
  <2>2. /\ Ready(V, e.table) /\ e.table.values = u.values /\ e.thrown = FALSE
        /\ e = [table |-> e.table, thrown |-> e.thrown]
        /\ e.table.max_load_factor = t.max_load_factor
    BY <1>3, <1>6, <2>1 DEF Lengthened
  <2>3. size(t) \in Places(e.table) /\ key_at(e.table, size(t)) = entry.key
    BY <2>1, <2>2 DEF Places, size, key_at
  <2> QED  BY <1>2, <2>1, <2>2, <2>3, ReadyLeft DEF Insertion
<1> QED  BY <1>5, <1>6

LEMMA TryEmplaceFacts ==
    ASSUME NEW V, NEW t, Ready(V, t), NEW entry \in EntryType(V), NEW r \in do_try_emplace(t, entry)
    PROVE  Insertion(V, t, entry, r)
<1> DEFINE key == entry.key
           p == Probe(t, key)
           u == emplace_back(t, entry)
<1>1. Shaped(t) /\ Indexed(t, Places(t)) /\ key \in DOMAIN Hash /\ t \in TableType(V)
  BY ReadyShaped DEF Ready, Consistent, EntryType
<1>2. r \in IF p.found THEN Found(t, p.idx)
            ELSE Placed(do_place_element(t, p.daf, p.place, entry), size(t))
  BY DEF do_try_emplace
<1>3. CASE \E i \in Places(t) : key_at(t, i) = key
  <2>1. PICK i \in Places(t) : key_at(t, i) = key
    BY <1>3
  <2>2. p.found /\ p.idx = i
    <3> HIDE DEF key
    <3> QED  BY <1>1, <2>1, PresentFacts
  <2>3. r \in Found(t, i)
    BY <1>2, <2>2
  <2> QED  BY <2>1, <2>3, FoundFacts
<1>4. CASE \A i \in Places(t) : key_at(t, i) # key
  <2>1. ~p.found
    <3> HIDE DEF key
    <3> QED  BY <1>1, <1>4, AbsentFacts
  <2>2. PICK d \in 0..bucket_count(t) :
            /\ GoesAt(t, key, d) /\ p.daf = Wanted(key, d)
            /\ p.place = next(t, bucket_idx_from_hash(t, key), d)
    <3> HIDE DEF key
    <3> QED  BY <1>1, <1>4, AbsentFacts
  <2>3. /\ u.buckets = t.buckets /\ u.shifts = t.shifts
        /\ \A i \in Places(t) : key_at(u, i) = key_at(t, i)
    BY <1>1, EmplaceBackFacts
  <2>4. GoesAt(u, key, d) /\ p.place = next(u, bucket_idx_from_hash(u, key), d)
    <3> HIDE DEF u, key
    <3> QED  BY <1>1, <2>2, <2>3, SameIndex
  <2>5. r \in Placed({Throws(t)} \cup Place(u, p.daf, p.place), size(t))
    BY <1>2, <2>1 DEF do_place_element
  <2>6. r \in Placed({Throws(t)}, size(t)) \/ r \in Placed(Place(u, p.daf, p.place), size(t))
    BY <2>5 DEF Placed
  <2>7. CASE r \in Placed({Throws(t)}, size(t))
    BY <2>7, ThrowFacts
  <2>8. CASE r \in Placed(Place(u, p.daf, p.place), size(t))
    <3> HIDE DEF p
    <3> QED  BY <1>4, <2>2, <2>4, <2>8, PlaceInserts
  <2> QED  BY <2>6, <2>7, <2>8
<1> QED  BY <1>3, <1>4

LEMMA EmplaceFacts ==
    ASSUME NEW V, NEW t, Ready(V, t), NEW entry \in EntryType(V), NEW r \in emplace(t, entry)
    PROVE  Insertion(V, t, entry, r)
<1> DEFINE key == entry.key
           u == emplace_back(t, entry)
           p == Probe(u, key)
<1>1. Shaped(t) /\ Indexed(t, Places(t)) /\ key \in DOMAIN Hash /\ t \in TableType(V)
  BY ReadyShaped DEF Ready, Consistent, EntryType
<1>2. /\ u.buckets = t.buckets /\ u.shifts = t.shifts /\ pop_back(u) = t
      /\ \A i \in Places(t) : key_at(u, i) = key_at(t, i)
  BY <1>1, EmplaceBackFacts
<1>3. Shaped(u) /\ Indexed(u, Places(t))
  <2> HIDE DEF u
  <2> QED  BY <1>1, <1>2, SameIndex
<1>4. \/ r \in Placed({Throws(t)}, size(t))
      \/ r \in IF p.found THEN Found(pop_back(u), p.idx) ELSE Placed(Place(u, p.daf, p.place), size(t))
  BY DEF emplace
<1>5. CASE r \in Placed({Throws(t)}, size(t))
  BY <1>5, ThrowFacts
<1>6. CASE r \in IF p.found THEN Found(t, p.idx) ELSE Placed(Place(u, p.daf, p.place), size(t))
  <2>1. CASE \E i \in Places(t) : key_at(t, i) = key
    <3>1. PICK i \in Places(t) : key_at(t, i) = key
      BY <2>1
    <3>2. p.found /\ p.idx = i
      <4>1. key = key_at(u, i)
        BY <1>2, <3>1
      <4> HIDE DEF key, u
      <4> QED  BY <1>3, <4>1, PresentFacts
    <3>3. r \in Found(t, i)
      BY <1>6, <3>2
    <3> QED  BY <3>1, <3>3, FoundFacts
  <2>2. CASE \A i \in Places(t) : key_at(t, i) # key
    <3>1. \A i \in Places(t) : key_at(u, i) # key
      BY <1>2, <2>2
    <3>2. ~p.found
      <4> HIDE DEF key, u
      <4> QED  BY <1>1, <1>3, <3>1, AbsentFacts
    <3>3. PICK d \in 0..bucket_count(u) :
              /\ GoesAt(u, key, d) /\ p.daf = Wanted(key, d)
              /\ p.place = next(u, bucket_idx_from_hash(u, key), d)
      <4> HIDE DEF key, u
      <4> QED  BY <1>1, <1>3, <3>1, AbsentFacts
    <3>4. r \in Placed(Place(u, p.daf, p.place), size(t))
      BY <1>6, <3>2
    <3> HIDE DEF p
    <3> QED  BY <2>2, <3>3, <3>4, PlaceInserts
  <2> QED  BY <2>1, <2>2
<1> QED  BY <1>2, <1>4, <1>5, <1>6

LEMMA AssignFacts ==
    ASSUME NEW V, NEW t, Ready(V, t), NEW i \in Places(t), NEW val \in V,
           NEW u, u = assign(t, i, val)
    PROVE  /\ Ready(V, u) /\ Places(u) = Places(t) /\ u.max_load_factor = t.max_load_factor
           /\ \A j \in Places(t) : key_at(u, j) = key_at(t, j)
<1> DEFINE E == [key : DOMAIN Hash, val : V]
           v == [t.values EXCEPT ![i + 1] = [t.values[i + 1] EXCEPT !.val = val]]
<1>1. t \in TableType(V) /\ Sized(t) /\ Distinct(t) /\ Indexed(t, Places(t)) /\ Shaped(t)
      /\ bucket_count(t) > 0 /\ size(t) =< bucket_count(t)
  BY ReadyShaped DEF Ready, Consistent
<1>2. size(t) \in Nat /\ DOMAIN t.values = 1..size(t) /\ i + 1 \in 1..size(t)
      /\ t.values[i + 1] \in E
  BY <1>1, ValueFacts
<1>3. t.values \in Seq(E)
  BY <1>1 DEF TableType
<1>4. [t.values[i + 1] EXCEPT !.val = val] \in E
  BY <1>2
<1>5. \A j \in Places(t) : j + 1 \in 1..size(t)
  BY <1>2 DEF Places
<1>6. v \in Seq(E) /\ Len(v) = size(t) /\ \A j \in Places(t) : v[j + 1].key = t.values[j + 1].key
  <2> DEFINE e == [t.values[i + 1] EXCEPT !.val = val]
  <2>1. e.key = t.values[i + 1].key
    BY <1>2
  <2>2. e \in E
    BY <1>4
  <2>3. v \in Seq(E) /\ Len(v) = Len(t.values)
    <3>1. v = [t.values EXCEPT ![i + 1] = e]
      OBVIOUS
    <3> HIDE DEF E, e, v
    <3> QED  BY <1>2, <1>3, <2>2, <3>1
  <2>4. \A j \in 1..size(t) : v[j] = IF j = i + 1 THEN e ELSE t.values[j]
    <3> HIDE DEF e
    <3> QED  BY <1>2 DEF e
  <2>5. \A j \in Places(t) : v[j + 1].key = t.values[j + 1].key
    BY <1>5, <2>1, <2>4
  <2> QED  BY <2>3, <2>5 DEF size
<1> HIDE DEF v, E
<1>7. u = [t EXCEPT !.values = v]
  <2>1. u = [t EXCEPT !.values = [t.values EXCEPT ![i + 1] = [t.values[i + 1] EXCEPT !.val = val]]]
    BY DEF assign
  <2> QED  BY <2>1 DEF v
<1>8. /\ u.values = v /\ u.buckets = t.buckets /\ u.shifts = t.shifts
      /\ u.max_bucket_capacity = t.max_bucket_capacity /\ u.max_load_factor = t.max_load_factor
  BY <1>1, <1>7 DEF TableType
<1>9. u \in TableType(V)
  BY <1>1, <1>6, <1>7 DEF TableType, E
<1>10. size(u) = size(t) /\ Places(u) = Places(t) /\ bucket_count(u) = bucket_count(t)
  BY <1>6, <1>8 DEF size, Places, bucket_count
<1>11. \A j \in Places(t) : key_at(u, j) = key_at(t, j)
  BY <1>6, <1>8 DEF key_at
<1>12. Sized(u) /\ Distinct(u)
  BY <1>1, <1>8, <1>10, <1>11 DEF Sized, Distinct
<1>13. Indexed(u, Places(t))
  BY <1>1, <1>8, <1>11, SameIndex
<1> QED  BY <1>1, <1>8, <1>9, <1>10, <1>11, <1>12, <1>13 DEF Ready, Consistent

-----------------------------------------------------------------------------
(* How a call that may fail ends.                                          *)
Ended(V, e) == Left(V, e.table) /\ e.thrown \in BOOLEAN /\ (~e.thrown => Ready(V, e.table))

(* One turn of the loop of insert_range.                                   *)
Turns(ends, entry) ==
    UNION {IF e.thrown THEN {e} ELSE {r.end : r \in emplace(e.table, entry)} : e \in ends}

(* The recursive function behind insert_range.                             *)
LEMMA InsertRangeFunction ==
    ASSUME NEW t, NEW entries, Len(entries) \in Nat
    PROVE  \E f : /\ f[0] = {Ends(t)}
                  /\ \A k \in 1..Len(entries) : f[k] = Turns(f[k - 1], entries[k])
                  /\ insert_range(t, entries) = f[Len(entries)]
<1> DEFINE Upto(g, m) == g = [k \in 0..m |-> IF k = 0 THEN {Ends(t)} ELSE Turns(g[k - 1], entries[k])]
           Exist == {m \in Nat : \E g : Upto(g, m)}
<1>1. 0 \in Exist
  <2> DEFINE g == [k \in 0..0 |-> {Ends(t)}]
  <2>1. Upto(g, 0)
    OBVIOUS
  <2> QED  BY <2>1
<1>2. ASSUME NEW m \in Nat, m \in Exist PROVE m + 1 \in Exist
  <2>1. PICK g : Upto(g, m)
    BY <1>2
  <2> DEFINE h == [k \in 0..(m + 1) |->
                      IF k = m + 1 THEN Turns(g[k - 1], entries[k]) ELSE g[k]]
  <2>2. ASSUME NEW k \in 0..(m + 1)
        PROVE  h[k] = IF k = 0 THEN {Ends(t)} ELSE Turns(h[k - 1], entries[k])
    <3>1. k # 0 => k - 1 \in 0..m /\ h[k - 1] = g[k - 1]
      OBVIOUS
    <3>2. CASE k = m + 1
      BY <3>1, <3>2
    <3>3. CASE k # m + 1
      <4>1. k \in 0..m /\ h[k] = g[k]
        BY <3>3
      <4>2. g[k] = IF k = 0 THEN {Ends(t)} ELSE Turns(g[k - 1], entries[k])
        BY <2>1, <4>1
      <4> QED  BY <3>1, <4>1, <4>2
    <3> QED  BY <3>2, <3>3
  <2>3. h = [k \in 0..(m + 1) |-> h[k]]
    OBVIOUS
  <2>4. Upto(h, m + 1)
    <3> HIDE DEF h
    <3> QED  BY <2>2, <2>3
  <2> HIDE DEF h, Upto
  <2>5. m + 1 \in Nat /\ \E g2 : Upto(g2, m + 1)
    BY <2>4
  <2> QED  BY <2>5
<1>3. \E g : Upto(g, Len(entries))
  <2>1. Nat \subseteq Exist
    <3> HIDE DEF Exist
    <3> QED  BY <1>1, <1>2, NatSetInduction
  <2> QED  BY <2>1
<1> DEFINE f == CHOOSE g : Upto(g, Len(entries))
<1>4. Upto(f, Len(entries))
  BY <1>3
<1>5. insert_range(t, entries) = f[Len(entries)]
  BY DEF insert_range, Turns
<1> HIDE DEF f
<1>6. \A k \in 0..Len(entries) : f[k] = IF k = 0 THEN {Ends(t)} ELSE Turns(f[k - 1], entries[k])
  BY <1>4
<1>7. f[0] = {Ends(t)} /\ \A k \in 1..Len(entries) : f[k] = Turns(f[k - 1], entries[k])
  BY <1>6
<1> QED  BY <1>5, <1>7

LEMMA InsertRangeFacts ==
    ASSUME NEW V, NEW t, Ready(V, t), NEW entries \in Seq(EntryType(V)),
           NEW e \in insert_range(t, entries)
    PROVE  Ended(V, e)
<1> DEFINE n == Len(entries)
<1>1. n \in Nat /\ \A k \in 1..n : entries[k] \in EntryType(V)
  <2> DEFINE E == EntryType(V)
  <2>1. entries \in Seq(E)
    OBVIOUS
  <2> HIDE DEF E
  <2>2. n \in Nat /\ \A k \in 1..n : entries[k] \in E
    BY ONLY <2>1
  <2> QED  BY <2>2 DEF E
<1>2. PICK f : /\ f[0] = {Ends(t)}
               /\ \A k \in 1..n : f[k] = Turns(f[k - 1], entries[k])
               /\ insert_range(t, entries) = f[n]
  BY <1>1, InsertRangeFunction
<1> DEFINE Done == {k \in 0..n : \A x \in f[k] : Ended(V, x)}
<1>3. 0 \in Done
  <2>1. Ended(V, Ends(t))
    BY ReadyLeft DEF Ended, Ends
  <2> QED  BY <1>1, <1>2, <2>1
<1>4. ASSUME NEW k \in 0..(n - 1), k \in Done PROVE k + 1 \in Done
  <2>1. k + 1 \in 1..n /\ k + 1 \in 0..n /\ (k + 1) - 1 = k
    BY <1>1
  <2>2. ASSUME NEW y \in f[k + 1] PROVE Ended(V, y)
    <3>1. PICK x \in f[k] : y \in IF x.thrown THEN {x}
                                   ELSE {r.end : r \in emplace(x.table, entries[k + 1])}
      <4>1. y \in Turns(f[k], entries[k + 1])
        BY <1>2, <2>1
      <4> QED  BY <4>1 DEF Turns
    <3>2. Ended(V, x)
      BY <1>4
    <3>3. CASE x.thrown
      BY <3>1, <3>2, <3>3
    <3>4. CASE ~x.thrown
      <4>1. PICK r \in emplace(x.table, entries[k + 1]) : y = r.end
        BY <3>1, <3>4
      <4>2. Ready(V, x.table)
        BY <3>2, <3>4 DEF Ended
      <4>3. Insertion(V, x.table, entries[k + 1], r)
        BY <1>1, <2>1, <4>2, EmplaceFacts
      <4> QED  BY <4>1, <4>3 DEF Insertion, Ended
    <3> QED  BY <3>3, <3>4
  <2> QED  BY <2>1, <2>2
<1>5. 0..n \subseteq Done
  <2> HIDE DEF Done
  <2> QED  BY <1>1, <1>3, <1>4, UpToInduction
<1> QED  BY <1>1, <1>2, <1>5

-----------------------------------------------------------------------------
(* Erasing.                                                                *)

(* The value at place k is found at place i from now on.                   *)
LEMMA RenumberFacts ==
    ASSUME NEW t, NEW I, Shaped(t), Indexed(t, I), NEW k \in I, NEW i \in Nat, i \notin I,
           NEW m \in Slots(t), Dist(t, m) # 0, ValueAt(t, m) = k,
           NEW u, u.shifts = t.shifts, bucket_count(u) = bucket_count(t),
           u.buckets \in Seq(BucketType),
           \A c \in Slots(t) : at(u, c) = IF c = m THEN Bucket(Dist(t, m), i) ELSE at(t, c),
           \A j \in I \ {k} : key_at(u, j) = key_at(t, j),
           key_at(u, i) = key_at(t, k)
    PROVE  Shaped(u) /\ Indexed(u, (I \ {k}) \cup {i})
<1> DEFINE J == (I \ {k}) \cup {i}
<1>1. /\ Slots(u) = Slots(t)
      /\ \A b : Prev(u, b) = Prev(t, b)
      /\ \A key : bucket_idx_from_hash(u, key) = bucket_idx_from_hash(t, key)
      /\ \A a, b : After(u, a, b) = After(t, a, b)
  BY DEF Slots, Prev, bucket_idx_from_hash, After
<1>2. /\ \A c \in Slots(t) : Dist(u, c) = Dist(t, c)
      /\ \A c \in Slots(t) : c # m => at(u, c) = at(t, c) /\ ValueAt(u, c) = ValueAt(t, c)
      /\ ValueAt(u, m) = i
  BY DEF Dist, ValueAt, Bucket
<1>3. /\ \A j \in I \ {k} : HomeOf(u, j) = HomeOf(t, j)
      /\ HomeOf(u, i) = HomeOf(t, k)
  BY <1>1 DEF HomeOf
<1>4. /\ \A b \in Slots(t) : Dist(t, b) # 0 => ValueAt(t, b) \in I
      /\ \A b \in Slots(t) : Dist(t, b) # 0 /\ b # m => ValueAt(t, b) \in I \ {k}
      /\ \A b \in Slots(t) : Dist(t, b) = 0 => at(t, b) = EmptyBucket
  <2>1. \A b \in Slots(t) : /\ Dist(t, b) # 0 => ValueAt(t, b) \in I
                            /\ Dist(t, b) = 0 => at(t, b) = EmptyBucket
    BY DEF Indexed, AtDistance
  <2>2. \A b \in Slots(t) : Dist(t, b) # 0 /\ ValueAt(t, b) = k => b = m
    BY DEF Indexed, OneEach
  <2> QED  BY <2>1, <2>2
<1>5. Shaped(u)
  BY <1>1 DEF Shaped
<1>6. KeysApart(u, J)
  <2>1. /\ \A j \in I : j \in Nat /\ key_at(t, j) \in DOMAIN Hash
        /\ \A j, l \in I : key_at(t, j) = key_at(t, l) => j = l
    BY DEF Indexed, KeysApart
  <2> QED  BY <2>1 DEF KeysApart
<1>7. AtDistance(u, J)
  <2> SUFFICES ASSUME NEW b \in Slots(t)
               PROVE  IF Dist(u, b) = 0 THEN at(u, b) = EmptyBucket
                      ELSE /\ ValueAt(u, b) \in J
                           /\ Dist(u, b) = Wanted(key_at(u, ValueAt(u, b)),
                                                  After(t, HomeOf(u, ValueAt(u, b)), b))
    BY <1>1 DEF AtDistance
  <2>1. CASE Dist(t, b) = 0
    BY <1>2, <1>4, <2>1
  <2>2. CASE Dist(t, b) # 0
    <3>1. Dist(t, b) = Wanted(key_at(t, ValueAt(t, b)), After(t, HomeOf(t, ValueAt(t, b)), b))
      BY <2>2 DEF Indexed, AtDistance
    <3>2. CASE b = m
      BY <1>2, <1>3, <2>2, <3>1, <3>2
    <3>3. CASE b # m
      <4>1. ValueAt(t, b) \in I \ {k} /\ ValueAt(u, b) = ValueAt(t, b)
        BY <1>2, <1>4, <2>2, <3>3
      <4>2. key_at(u, ValueAt(u, b)) = key_at(t, ValueAt(t, b))
            /\ HomeOf(u, ValueAt(u, b)) = HomeOf(t, ValueAt(t, b))
        BY <1>3, <4>1
      <4> QED  BY <1>2, <2>2, <3>1, <4>1, <4>2
    <3> QED  BY <3>2, <3>3
  <2> QED  BY <2>1, <2>2
<1>8. NoneAhead(u)
  <2>1. \A b \in Slots(t) : Prev(t, b) \in Slots(t)
    BY ShapedFacts, RingFacts
  <2> QED  BY <1>1, <1>2, <2>1 DEF Indexed, NoneAhead
<1>9. OneEach(u, J)
  <2>1. ASSUME NEW b \in Slots(t), NEW c \in Slots(t), Dist(u, b) # 0, Dist(u, c) # 0,
               ValueAt(u, b) = ValueAt(u, c)
        PROVE  b = c
    <3>1. Dist(t, b) # 0 /\ Dist(t, c) # 0
      BY <1>2, <2>1
    <3>2. CASE b = m \/ c = m
      BY <1>2, <1>4, <2>1, <3>1, <3>2
    <3>3. CASE b # m /\ c # m
      <4>1. ValueAt(t, b) = ValueAt(t, c)
        BY <1>2, <2>1, <3>3
      <4> QED  BY <3>1, <4>1 DEF Indexed, OneEach
    <3> QED  BY <3>2, <3>3
  <2>2. ASSUME NEW j \in I \ {k} PROVE \E b \in Slots(t) : Dist(u, b) # 0 /\ ValueAt(u, b) = j
    <3>1. PICK b \in Slots(t) : Dist(t, b) # 0 /\ ValueAt(t, b) = j
      BY DEF Indexed, OneEach
    <3> QED  BY <1>2, <3>1
  <2>3. \E b \in Slots(t) : Dist(u, b) # 0 /\ ValueAt(u, b) = i
    BY <1>2
  <2> QED  BY <1>1, <2>1, <2>2, <2>3 DEF OneEach
<1> QED  BY <1>5, <1>6, <1>7, <1>8, <1>9 DEF Indexed

LEMMA ExceptFacts ==
    ASSUME NEW S, NEW s \in Seq(S), NEW i \in 1..Len(s), NEW e \in S
    PROVE  [s EXCEPT ![i] = e] \in Seq(S) /\ Len([s EXCEPT ![i] = e]) = Len(s)
OBVIOUS

(* The last value in the place of another.                                 *)
LEMMA FillGap ==
    ASSUME NEW S, NEW v \in Seq(S), NEW i \in 1..Len(v),
           NEW w, w = SubSeq([v EXCEPT ![i] = v[Len(v)]], 1, Len(v) - 1)
    PROVE  /\ w \in Seq(S) /\ Len(w) = Len(v) - 1 /\ Len(v) \in Nat
           /\ \A j \in 1..(Len(v) - 1) : w[j] = IF j = i THEN v[Len(v)] ELSE v[j]
<1> DEFINE n == Len(v)
           x == [v EXCEPT ![i] = v[n]]
<1>1. n \in Nat /\ n \in 1..n /\ v[n] \in S
  OBVIOUS
<1>2. x \in Seq(S) /\ Len(x) = n
  BY <1>1
<1>3. \A j \in 1..n : x[j] = IF j = i THEN v[n] ELSE v[j]
  OBVIOUS
<1> HIDE DEF x
<1>4. w \in Seq(S) /\ Len(w) = n - 1 /\ \A j \in 1..(n - 1) : w[j] = x[j]
  <2>1. w = SubSeq(x, 1, n - 1)
    BY DEF x
  <2> HIDE DEF n
  <2> QED  BY <1>1, <1>2, <2>1
<1>5. \A j \in 1..(n - 1) : j \in 1..n
  BY <1>1
<1> QED  BY <1>1, <1>3, <1>4, <1>5

(* The value at place i is gone, and the last one has its place.           *)
Erased(V, t, i, u) ==
    /\ Ready(V, u) /\ u.max_load_factor = t.max_load_factor
    /\ u.values = SubSeq([t.values EXCEPT ![i + 1] = t.values[size(t)]], 1, size(t) - 1)
    /\ size(u) = size(t) - 1

LEMMA EraseFacts ==
    ASSUME NEW V, NEW t, Ready(V, t), NEW b \in Slots(t), Dist(t, b) # 0,
           NEW i, i = ValueAt(t, b), NEW u, u = do_erase(t, b)
    PROVE  Erased(V, t, i, u) /\ i \in Places(t)
<1> DEFINE E == [key : DOMAIN Hash, val : V]
           back == size(t) - 1
           w == shift_down(t, b)
           v == SubSeq([t.values EXCEPT ![i + 1] = t.values[size(t)]], 1, back)
           moves_to == bucket_of(w, key_at(t, back), back)
<1>1. t \in TableType(V) /\ Sized(t) /\ Indexed(t, Places(t)) /\ Shaped(t)
      /\ bucket_count(t) > 0 /\ size(t) =< bucket_count(t)
  BY ReadyShaped DEF Ready, Consistent
<1>2. i \in Places(t)
  BY <1>1 DEF Indexed, AtDistance
<1>3. size(t) \in Nat /\ back \in Places(t) /\ back \in Nat /\ back + 1 = size(t)
      /\ i + 1 \in 1..size(t) /\ i \in Nat
  <2>1. size(t) \in Nat
    BY <1>1, ValueFacts
  <2> QED  BY <1>2, <2>1 DEF Places
<1>4. t.values \in Seq(E) /\ Len(t.values) = size(t)
  BY <1>1 DEF TableType, size
<1>5. /\ v \in Seq(E) /\ Len(v) = back
      /\ \A j \in 1..back : v[j] = IF j = i + 1 THEN t.values[size(t)] ELSE t.values[j]
  <2> HIDE DEF E
  <2> QED  BY <1>3, <1>4, FillGap
<1>6. OtherBuckets(t, w) /\ Indexed(w, Places(t) \ {i})
  BY <1>1, RemovedIndexed
<1> HIDE DEF w
<1>7. /\ w \in TableType(V) /\ w.values = t.values /\ size(w) = size(t)
      /\ w.shifts = t.shifts
      /\ w.max_bucket_capacity = t.max_bucket_capacity
      /\ w.max_load_factor = t.max_load_factor
      /\ bucket_count(w) = bucket_count(t) /\ Slots(w) = Slots(t)
      /\ \A j : key_at(w, j) = key_at(t, j)
      /\ Shaped(w)
  BY <1>1, <1>6, OtherBucketsFacts
<1> HIDE DEF v
<1>8. ASSUME u \in TableType(V), u.values = v, u.shifts = t.shifts,
             u.max_bucket_capacity = t.max_bucket_capacity,
             u.max_load_factor = t.max_load_factor, bucket_count(u) = bucket_count(t),
             Indexed(u, 0..(back - 1))
      PROVE  Erased(V, t, i, u)
  <2>1. size(u) = size(t) - 1 /\ Places(u) = 0..(back - 1)
    BY <1>3, <1>5, <1>8 DEF size, Places
  <2>2. Sized(u) /\ Distinct(u)
    BY <1>1, <1>8, <2>1 DEF Sized, Distinct, Indexed, KeysApart
  <2>3. bucket_count(u) > 0 /\ size(u) =< bucket_count(u)
    <3>1. bucket_count(t) \in Nat
      BY <1>1, ShapedFacts
    <3> QED  BY <1>1, <1>3, <1>8, <2>1, <3>1
  <2>4. Ready(V, u)
    BY <1>8, <2>1, <2>2, <2>3 DEF Ready, Consistent
  <2> QED  BY <1>8, <2>1, <2>4 DEF Erased, v
<1>9. \A j \in 0..(back - 1) : j + 1 \in 1..back /\ j \in Places(t) /\ j # back
  BY <1>3 DEF Places
<1>10. CASE i = back
  <2>1. u = pop_back(w)
    BY <1>10 DEF do_erase, w, ValueAt
  <2>2. v = SubSeq(t.values, 1, back)
    <3>1. [t.values EXCEPT ![i + 1] = t.values[size(t)]] = t.values
      <4>1. i + 1 = size(t)
        BY <1>3, <1>10
      <4> HIDE DEF E
      <4> QED  BY <1>4, <4>1
    <3> QED  BY <3>1 DEF v
  <2>3. u = [w EXCEPT !.values = v]
    BY <1>4, <1>7, <2>1, <2>2 DEF pop_back
  <2>4. /\ u.values = v /\ u.shifts = w.shifts /\ u.buckets = w.buckets
        /\ u.max_bucket_capacity = w.max_bucket_capacity
        /\ u.max_load_factor = w.max_load_factor
    BY <1>7, <2>3 DEF TableType
  <2>5. u \in TableType(V)
    BY <1>5, <1>7, <2>3 DEF TableType
  <2>6. Places(t) \ {i} = 0..(back - 1)
    BY <1>3, <1>10 DEF Places
  <2>7. \A j \in 0..(back - 1) : key_at(u, j) = key_at(w, j)
    BY <1>3, <1>5, <1>7, <1>9, <1>10, <2>4 DEF key_at
  <2>8. Indexed(u, 0..(back - 1)) /\ bucket_count(u) = bucket_count(w)
    <3> DEFINE I == 0..(back - 1)
    <3>1. Indexed(w, I)
      BY <1>6, <2>6
    <3> HIDE DEF I
    <3>2. \A j \in I : key_at(u, j) = key_at(w, j)
      BY <2>7 DEF I
    <3>3. Indexed(u, I) /\ bucket_count(u) = bucket_count(w)
      BY <1>7, <2>4, <3>1, <3>2, SameIndex
    <3> QED  BY <3>3 DEF I
  <2> QED  BY <1>2, <1>7, <1>8, <2>4, <2>5, <2>8
<1>11. CASE i # back
  <2> DEFINE m == moves_to
             B == [w.buckets EXCEPT ![m + 1] = [w.buckets[m + 1] EXCEPT !.value_idx = i]]
  <2>1. back \in Places(t) \ {i} /\ key_at(w, back) = key_at(t, back)
    BY <1>3, <1>7, <1>11
  <2>2. m \in Slots(w) /\ ValueAt(w, m) = back /\ Dist(w, m) # 0
    <3> HIDE DEF back
    <3> QED  BY <1>6, <1>7, <2>1, PresentFacts
  <2> HIDE DEF m
  <2>3. u = pop_back([w EXCEPT !.values[i + 1] = t.values[back + 1],
                               !.buckets[m + 1].value_idx = i])
    BY <1>11 DEF do_erase, w, ValueAt, m
  <2>4. u = [w EXCEPT !.values = v, !.buckets = B]
    <3> DEFINE x == [w EXCEPT !.values[i + 1] = t.values[back + 1],
                              !.buckets[m + 1].value_idx = i]
    <3>1. x = [w EXCEPT !.values = [w.values EXCEPT ![i + 1] = t.values[back + 1]], !.buckets = B]
      OBVIOUS
    <3>2. x.values = [t.values EXCEPT ![i + 1] = t.values[size(t)]]
      BY <1>3, <1>7, <3>1 DEF TableType
    <3>3. Len(x.values) - 1 = back
      <4>1. DOMAIN x.values = DOMAIN t.values
        BY <3>2
      <4>2. x.values \in Seq(E)
        <5>1. t.values[size(t)] \in E
          <6> HIDE DEF E
          <6> QED  BY <1>3, <1>4
        <5> HIDE DEF E, x
        <5>2. i + 1 \in 1..Len(t.values)
          BY <1>3, <1>4
        <5>3. [t.values EXCEPT ![i + 1] = t.values[size(t)]] \in Seq(E)
          BY <1>4, <5>1, <5>2, ExceptFacts
        <5> QED  BY <3>2, <5>3
      <4>3. Len(x.values) = Len(t.values)
        <5> HIDE DEF E, x
        <5> QED  BY <1>4, <4>1, <4>2
      <4> QED  BY <1>4, <4>3
    <3>4. u = [x EXCEPT !.values = v]
      BY <2>3, <3>2, <3>3 DEF pop_back, v
    <3> HIDE DEF B
    <3> QED  BY <1>7, <3>1, <3>4 DEF TableType
  <2>5. w.buckets \in Seq(BucketType)
    BY <1>7 DEF TableType
  <2>6. bucket_count(w) \in Nat /\ DOMAIN w.buckets = 1..bucket_count(w) /\ m + 1 \in 1..bucket_count(w)
        /\ at(w, m) \in BucketType
    BY <1>7, <2>2, ShapedFacts DEF Slots
  <2>7. [w.buckets[m + 1] EXCEPT !.value_idx = i] = Bucket(Dist(w, m), i)
        /\ Bucket(Dist(w, m), i) \in BucketType
    BY <1>3, <2>6 DEF at, Dist, Bucket, BucketType
  <2>8. /\ B \in Seq(BucketType) /\ Len(B) = bucket_count(w)
        /\ \A c \in 1..bucket_count(w) : B[c] = IF c = m + 1 THEN Bucket(Dist(w, m), i) ELSE w.buckets[c]
    <3> DEFINE new == Bucket(Dist(w, m), i)
    <3>1. B = [w.buckets EXCEPT ![m + 1] = new] /\ new \in BucketType
      BY <2>7
    <3> HIDE DEF new, B
    <3>2. B \in Seq(BucketType) /\ Len(B) = Len(w.buckets)
      <4> DEFINE S == BucketType
      <4>1. w.buckets \in Seq(S) /\ new \in S
        BY <2>5, <3>1
      <4> HIDE DEF S
      <4>2. m + 1 \in 1..Len(w.buckets)
        BY <2>6 DEF bucket_count
      <4>3. [w.buckets EXCEPT ![m + 1] = new] \in Seq(S)
            /\ Len([w.buckets EXCEPT ![m + 1] = new]) = Len(w.buckets)
        BY <4>1, <4>2, ExceptFacts
      <4> QED  BY <3>1, <4>3 DEF S
    <3> QED  BY <2>6, <3>1, <3>2 DEF bucket_count, new
  <2> HIDE DEF B
  <2>9. /\ u.values = v /\ u.shifts = w.shifts /\ u.buckets = B
        /\ u.max_bucket_capacity = w.max_bucket_capacity
        /\ u.max_load_factor = w.max_load_factor
    BY <1>7, <2>4 DEF TableType
  <2>10. u \in TableType(V)
    BY <1>5, <1>7, <2>4, <2>8 DEF TableType
  <2>11. bucket_count(u) = bucket_count(w)
    BY <2>8, <2>9 DEF bucket_count
  <2>12. \A c \in Slots(w) : at(u, c) = IF c = m THEN Bucket(Dist(w, m), i) ELSE at(w, c)
    <3> TAKE c \in Slots(w)
    <3>1. c + 1 \in 1..bucket_count(w) /\ (c + 1 = m + 1 <=> c = m)
      BY <2>2, <2>6 DEF Slots
    <3> QED  BY <2>8, <2>9, <3>1 DEF at
  <2>13. \A j \in (Places(t) \ {i}) \ {back} : key_at(u, j) = key_at(w, j)
    <3> TAKE j \in (Places(t) \ {i}) \ {back}
    <3>1. j + 1 \in 1..back /\ j + 1 # i + 1
      BY <1>3 DEF Places
    <3> QED  BY <1>5, <1>7, <2>9, <3>1 DEF key_at
  <2>14. key_at(u, i) = key_at(w, back)
    <3>1. i + 1 \in 1..back /\ back + 1 = size(t)
      BY <1>2, <1>3, <1>11 DEF Places
    <3> QED  BY <1>5, <1>7, <2>9, <3>1 DEF key_at
  <2>15. ((Places(t) \ {i}) \ {back}) \cup {i} = 0..(back - 1)
    BY <1>2, <1>3, <1>11 DEF Places
  <2>16. Indexed(u, ((Places(t) \ {i}) \ {back}) \cup {i})
    <3> DEFINE I == Places(t) \ {i}
    <3>1. i \notin I
      OBVIOUS
    <3>2. u.buckets \in Seq(BucketType)
      BY <2>8, <2>9
    <3> HIDE DEF I, back
    <3>3. Indexed(w, I) /\ back \in I
      BY <1>6, <2>1 DEF I
    <3>4. \A j \in I \ {back} : key_at(u, j) = key_at(w, j)
      BY <2>13 DEF I
    <3>5. Indexed(u, (I \ {back}) \cup {i})
      BY <1>3, <1>7, <2>2, <2>9, <2>11, <2>12, <2>14, <3>1, <3>2, <3>3, <3>4, RenumberFacts
    <3> QED  BY <3>5 DEF I
  <2>17. Indexed(u, 0..(back - 1))
    BY <2>15, <2>16
  <2> QED  BY <1>2, <1>7, <1>8, <2>9, <2>10, <2>11, <2>17
<1> QED  BY <1>2, <1>10, <1>11

-----------------------------------------------------------------------------
LEMMA EraseItFacts ==
    ASSUME NEW V, NEW t, Ready(V, t), NEW i \in Places(t), NEW u, u = erase_it(t, i)
    PROVE  Erased(V, t, i, u)
<1> DEFINE b == bucket_of(t, key_at(t, i), i)
<1>1. Indexed(t, Places(t)) /\ Shaped(t)
  BY ReadyShaped DEF Ready
<1>2. b \in Slots(t) /\ ValueAt(t, b) = i /\ Dist(t, b) # 0
  BY <1>1, PresentFacts
<1>3. u = do_erase(t, b)
  BY DEF erase_it
<1> HIDE DEF b
<1> QED  BY <1>2, <1>3, EraseFacts

LEMMA EraseKeyFacts ==
    ASSUME NEW V, NEW t, Ready(V, t), NEW key \in DOMAIN Hash, NEW u, u = do_erase_key(t, key)
    PROVE  \/ /\ u = t
              /\ \A i \in Places(t) : key_at(t, i) # key
           \/ /\ t.values # << >> /\ EraseAt(t, key) # -1
              /\ at(t, EraseAt(t, key)).value_idx \in Places(t)
              /\ key_at(t, at(t, EraseAt(t, key)).value_idx) = key
              /\ Erased(V, t, at(t, EraseAt(t, key)).value_idx, u)
<1>1. Indexed(t, Places(t)) /\ Shaped(t) /\ t \in TableType(V)
  BY ReadyShaped DEF Ready, Consistent
<1>2. CASE \A i \in Places(t) : key_at(t, i) # key
  <2>1. EraseAt(t, key) = -1
    BY <1>1, <1>2, AbsentFacts
  <2> QED  BY <1>2, <2>1 DEF do_erase_key
<1>3. CASE \E i \in Places(t) : key_at(t, i) = key
  <2>1. PICK i \in Places(t) : key_at(t, i) = key
    BY <1>3
  <2> DEFINE b == EraseAt(t, key)
  <2>2. b \in Slots(t) /\ ValueAt(t, b) = i /\ Dist(t, b) # 0
    BY <1>1, <2>1, PresentFacts
  <2>3. b # -1
    BY <2>2 DEF Slots
  <2>4. t.values # << >>
    <3>1. size(t) # 0
      <4>1. size(t) \in Nat
        BY <1>1, ValueFacts
      <4> QED  BY <4>1, <2>1 DEF Places
    <3> QED  BY <3>1 DEF size
  <2>5. u = do_erase(t, b)
    BY <2>3, <2>4 DEF do_erase_key
  <2>6. Erased(V, t, i, u)
    <3> HIDE DEF b
    <3> QED  BY <2>2, <2>5, EraseFacts
  <2> QED  BY <2>1, <2>2, <2>3, <2>4, <2>6 DEF ValueAt
<1> QED  BY <1>2, <1>3

(* The place that erase_range erases in turn n.                            *)
Turn(t, first, last, n) ==
    LET mid == first + Min({last - first, size(t) - last})
    IN  IF first + n < mid THEN first + n ELSE last - 1 - (n - (mid - first))

(* The recursive function behind erase_range.                              *)
LEMMA EraseRangeFunction ==
    ASSUME NEW t, NEW first, NEW last, last - first \in Nat
    PROVE  \E f : /\ f[0] = t
                  /\ \A k \in 1..(last - first) : f[k] = erase_it(f[k - 1], Turn(t, first, last, k - 1))
                  /\ erase_range(t, first, last) = f[last - first]
<1> DEFINE Upto(g, m) == g = [k \in 0..m |-> IF k = 0 THEN t ELSE erase_it(g[k - 1], Turn(t, first, last, k - 1))]
           Exist == {m \in Nat : \E g : Upto(g, m)}
<1>1. 0 \in Exist
  <2> DEFINE g == [k \in 0..0 |-> t]
  <2>1. Upto(g, 0)
    OBVIOUS
  <2> QED  BY <2>1
<1>2. ASSUME NEW m \in Nat, m \in Exist PROVE m + 1 \in Exist
  <2>1. PICK g : Upto(g, m)
    BY <1>2
  <2> DEFINE h == [k \in 0..(m + 1) |->
                      IF k = m + 1 THEN erase_it(g[k - 1], Turn(t, first, last, k - 1)) ELSE g[k]]
  <2>2. ASSUME NEW k \in 0..(m + 1)
        PROVE  h[k] = IF k = 0 THEN t ELSE erase_it(h[k - 1], Turn(t, first, last, k - 1))
    <3>1. k # 0 => k - 1 \in 0..m /\ h[k - 1] = g[k - 1]
      OBVIOUS
    <3>2. CASE k = m + 1
      BY <3>1, <3>2
    <3>3. CASE k # m + 1
      <4>1. k \in 0..m /\ h[k] = g[k]
        BY <3>3
      <4>2. g[k] = IF k = 0 THEN t ELSE erase_it(g[k - 1], Turn(t, first, last, k - 1))
        BY <2>1, <4>1
      <4> QED  BY <3>1, <4>1, <4>2
    <3> QED  BY <3>2, <3>3
  <2>3. h = [k \in 0..(m + 1) |-> h[k]]
    OBVIOUS
  <2>4. Upto(h, m + 1)
    <3> HIDE DEF h
    <3> QED  BY <2>2, <2>3
  <2> HIDE DEF h, Upto
  <2>5. m + 1 \in Nat /\ \E g2 : Upto(g2, m + 1)
    BY <2>4
  <2> QED  BY <2>5
<1>3. \E g : Upto(g, (last - first))
  <2>1. Nat \subseteq Exist
    <3> HIDE DEF Exist
    <3> QED  BY <1>1, <1>2, NatSetInduction
  <2> QED  BY <2>1
<1> DEFINE f == CHOOSE g : Upto(g, (last - first))
<1>4. Upto(f, (last - first))
  BY <1>3
<1>5. erase_range(t, first, last) = f[last - first]
  BY DEF erase_range, Turn
<1> HIDE DEF f
<1>6. \A k \in 0..(last - first) : f[k] = IF k = 0 THEN t ELSE erase_it(f[k - 1], Turn(t, first, last, k - 1))
  BY <1>4
<1>7. f[0] = t /\ \A k \in 1..(last - first) : f[k] = erase_it(f[k - 1], Turn(t, first, last, k - 1))
  BY <1>6
<1> QED  BY <1>5, <1>7

(* The places that erase_range erases are there when their turn comes.     *)
LEMMA TurnFacts ==
    ASSUME NEW t, size(t) \in Nat, NEW first \in Nat, NEW last \in Nat,
           first =< last, last =< size(t), NEW n \in 0..(last - first - 1)
    PROVE  Turn(t, first, last, n) \in 0..(size(t) - n - 1)
<1> DEFINE s == size(t)
           m == Min({last - first, s - last})
           mid == first + m
<1>1. s \in Nat /\ last - first \in Nat /\ s - last \in Nat /\ last =< s /\ first =< last
      /\ n \in Nat /\ n < last - first
  OBVIOUS
<1>2. m = IF last - first =< s - last THEN last - first ELSE s - last
  <2> HIDE DEF s
  <2> QED  BY <1>1, MinOfTwo
<1>3. Turn(t, first, last, n) =
          IF first + n < mid THEN first + n ELSE last - 1 - (n - (mid - first))
  BY Zenon DEF Turn
<1> HIDE DEF m, s
<1>4. Turn(t, first, last, n) \in 0..(s - n - 1)
  BY <1>1, <1>2, <1>3
<1> QED  BY <1>4 DEF s

LEMMA EraseRangeFacts ==
    ASSUME NEW V, NEW t, Ready(V, t), NEW first \in Nat, NEW last \in Nat,
           first =< last, last =< size(t), NEW u, u = erase_range(t, first, last)
    PROVE  Ready(V, u)
<1> DEFINE n == last - first
<1>1. n \in Nat /\ size(t) \in Nat
  BY ValueFacts DEF Ready, Consistent
<1>2. PICK f : /\ f[0] = t
               /\ \A k \in 1..n : f[k] = erase_it(f[k - 1], Turn(t, first, last, k - 1))
               /\ u = f[n]
  BY <1>1, EraseRangeFunction
<1> DEFINE Done == {k \in 0..n : Ready(V, f[k]) /\ size(f[k]) = size(t) - k}
<1>3. 0 \in Done
  BY <1>1, <1>2
<1>4. ASSUME NEW k \in 0..(n - 1), k \in Done PROVE k + 1 \in Done
  <2>1. k + 1 \in 1..n /\ k + 1 \in 0..n /\ (k + 1) - 1 = k /\ k \in Nat
    BY <1>1
  <2> DEFINE i == Turn(t, first, last, k)
  <2>2. i \in 0..(size(t) - k - 1)
    BY <1>1, TurnFacts
  <2>3. f[k + 1] = erase_it(f[k], i)
    BY <1>2, <2>1
  <2> HIDE DEF i, n
  <2>4. Ready(V, f[k]) /\ size(f[k]) = size(t) - k
    BY <1>4
  <2>5. i \in Places(f[k])
    BY <2>2, <2>4 DEF Places
  <2>6. Erased(V, f[k], i, f[k + 1])
    BY <2>3, <2>4, <2>5, EraseItFacts
  <2>7. Ready(V, f[k + 1]) /\ size(f[k + 1]) = size(t) - (k + 1)
    BY <1>1, <2>1, <2>4, <2>6 DEF Erased
  <2> QED  BY <2>1, <2>7
<1>5. 0..n \subseteq Done
  <2> HIDE DEF Done
  <2> QED  BY <1>1, <1>3, <1>4, UpToInduction
<1>6. n \in Done
  BY <1>1, <1>5
<1> QED  BY <1>2, <1>6

(* One turn of the loop of erase_if.                                       *)
IfGone(u, i, gone) == IF key_at(u, i) \in gone THEN erase_it(u, i) ELSE u

(* The recursive function behind erase_if.                                 *)
LEMMA EraseIfFunction ==
    ASSUME NEW t, NEW gone, size(t) \in Nat
    PROVE  \E f : /\ f[0] = t
                  /\ \A k \in 1..size(t) : f[k] = IfGone(f[k - 1], size(t) - k, gone)
                  /\ erase_if(t, gone) = f[size(t)]
<1> DEFINE Upto(g, m) == g = [k \in 0..m |-> IF k = 0 THEN t ELSE IfGone(g[k - 1], size(t) - k, gone)]
           Exist == {m \in Nat : \E g : Upto(g, m)}
<1>1. 0 \in Exist
  <2> DEFINE g == [k \in 0..0 |-> t]
  <2>1. Upto(g, 0)
    OBVIOUS
  <2> QED  BY <2>1
<1>2. ASSUME NEW m \in Nat, m \in Exist PROVE m + 1 \in Exist
  <2>1. PICK g : Upto(g, m)
    BY <1>2
  <2> DEFINE h == [k \in 0..(m + 1) |->
                      IF k = m + 1 THEN IfGone(g[k - 1], size(t) - k, gone) ELSE g[k]]
  <2>2. ASSUME NEW k \in 0..(m + 1)
        PROVE  h[k] = IF k = 0 THEN t ELSE IfGone(h[k - 1], size(t) - k, gone)
    <3>1. k # 0 => k - 1 \in 0..m /\ h[k - 1] = g[k - 1]
      OBVIOUS
    <3>2. CASE k = m + 1
      BY <3>1, <3>2
    <3>3. CASE k # m + 1
      <4>1. k \in 0..m /\ h[k] = g[k]
        BY <3>3
      <4>2. g[k] = IF k = 0 THEN t ELSE IfGone(g[k - 1], size(t) - k, gone)
        BY <2>1, <4>1
      <4> QED  BY <3>1, <4>1, <4>2
    <3> QED  BY <3>2, <3>3
  <2>3. h = [k \in 0..(m + 1) |-> h[k]]
    OBVIOUS
  <2>4. Upto(h, m + 1)
    <3> HIDE DEF h
    <3> QED  BY <2>2, <2>3
  <2> HIDE DEF h, Upto
  <2>5. m + 1 \in Nat /\ \E g2 : Upto(g2, m + 1)
    BY <2>4
  <2> QED  BY <2>5
<1>3. \E g : Upto(g, size(t))
  <2>1. Nat \subseteq Exist
    <3> HIDE DEF Exist
    <3> QED  BY <1>1, <1>2, NatSetInduction
  <2> QED  BY <2>1
<1> DEFINE f == CHOOSE g : Upto(g, size(t))
<1>4. Upto(f, size(t))
  BY <1>3
<1>5. erase_if(t, gone) = f[size(t)]
  BY DEF erase_if, IfGone
<1> HIDE DEF f
<1>6. \A k \in 0..size(t) : f[k] = IF k = 0 THEN t ELSE IfGone(f[k - 1], size(t) - k, gone)
  BY <1>4
<1>7. f[0] = t /\ \A k \in 1..size(t) : f[k] = IfGone(f[k - 1], size(t) - k, gone)
  BY <1>6
<1> QED  BY <1>5, <1>7

LEMMA EraseIfFacts ==
    ASSUME NEW V, NEW t, Ready(V, t), NEW gone, NEW u, u = erase_if(t, gone)
    PROVE  Ready(V, u)
<1> DEFINE n == size(t)
<1>1. n \in Nat
  BY ValueFacts DEF Ready, Consistent
<1>2. PICK f : /\ f[0] = t
               /\ \A k \in 1..n : f[k] = IfGone(f[k - 1], n - k, gone)
               /\ u = f[n]
  BY <1>1, EraseIfFunction
<1> DEFINE Done == {k \in 0..n : Ready(V, f[k]) /\ size(f[k]) \in Nat /\ size(f[k]) >= n - k}
<1>3. 0 \in Done
  BY <1>1, <1>2
<1>4. ASSUME NEW k \in 0..(n - 1), k \in Done PROVE k + 1 \in Done
  <2> DEFINE i == n - (k + 1)
  <2>1. /\ k + 1 \in 1..n /\ k + 1 \in 0..n /\ (k + 1) - 1 = k /\ k \in Nat
        /\ i \in 0..(n - k - 1)
    BY <1>1
  <2>2. f[k + 1] = IfGone(f[k], i, gone)
    BY <1>2, <2>1
  <2>3. Ready(V, f[k]) /\ size(f[k]) \in Nat /\ size(f[k]) >= n - k
    BY <1>4
  <2>4. i \in Places(f[k])
    <3> HIDE DEF i, n
    <3> QED  BY <1>1, <2>1, <2>3 DEF Places
  <2>5. f[k + 1] = f[k] \/ Erased(V, f[k], i, f[k + 1])
    <3> HIDE DEF i
    <3> QED  BY <2>2, <2>3, <2>4, EraseItFacts DEF IfGone
  <2>6. Ready(V, f[k + 1]) /\ size(f[k + 1]) \in Nat /\ size(f[k + 1]) >= n - (k + 1)
    <3>1. size(f[k]) # 0
      BY <2>1, <2>3, <2>4 DEF Places
    <3>2. size(f[k]) - 1 \in Nat /\ size(f[k]) - 1 >= n - (k + 1) /\ size(f[k]) >= n - (k + 1)
      <4> HIDE DEF n
      <4> QED  BY <1>1, <2>1, <2>3, <3>1
    <3> HIDE DEF n
    <3> QED  BY <2>3, <2>5, <3>2 DEF Erased
  <2> QED  BY <2>1, <2>6
<1>5. 0..n \subseteq Done
  <2> HIDE DEF Done
  <2> QED  BY <1>1, <1>3, <1>4, UpToInduction
<1>6. n \in Done
  BY <1>1, <1>5
<1> QED  BY <1>2, <1>6

LEMMA EmptiedFacts ==
    ASSUME NEW V, NEW t \in TableType(V), Sized(t), NEW w, w = [t EXCEPT !.values = << >>]
    PROVE  /\ w \in TableType(V) /\ Sized(w) /\ w.values = << >> /\ size(w) = 0
           /\ w.buckets = t.buckets /\ w.shifts = t.shifts
           /\ bucket_count(w) = bucket_count(t)
           /\ w.max_bucket_capacity = t.max_bucket_capacity
           /\ w.max_load_factor = t.max_load_factor
<1>1. /\ w.values = << >> /\ w.buckets = t.buckets /\ w.shifts = t.shifts
      /\ w.max_bucket_capacity = t.max_bucket_capacity
      /\ w.max_load_factor = t.max_load_factor
  BY DEF TableType
<1>2. w \in TableType(V)
  <2> DEFINE E == Seq([key : DOMAIN Hash, val : V])
  <2>1. << >> \in E
    OBVIOUS
  <2>2. t \in [values : E, buckets : Seq(BucketType), max_bucket_capacity : Nat,
               max_load_factor : LoadType, shifts : 0..initial_shifts]
    BY DEF TableType
  <2> HIDE DEF E
  <2>3. w \in [values : E, buckets : Seq(BucketType), max_bucket_capacity : Nat,
               max_load_factor : LoadType, shifts : 0..initial_shifts]
    BY <2>1, <2>2
  <2> QED  BY <2>3 DEF TableType, E
<1>3. bucket_count(w) = bucket_count(t) /\ size(w) = 0
  BY <1>1 DEF bucket_count, size
<1> QED  BY <1>1, <1>2, <1>3 DEF Sized

LEMMA ClearsFacts ==
    ASSUME NEW V, NEW t \in TableType(V), Sized(t), NEW u, u = clear(t)
    PROVE  /\ Left(V, u) /\ u.values = << >>
           /\ bucket_count(u) = bucket_count(t)
<1> DEFINE w == [t EXCEPT !.values = << >>]
<1>1. /\ w.values = << >> /\ w.shifts = t.shifts
      /\ w.max_bucket_capacity = t.max_bucket_capacity
      /\ w \in TableType(V)
      /\ bucket_count(w) = bucket_count(t) /\ size(w) = 0
  BY EmptiedFacts
<1>4. u = clear_buckets(w)
  BY DEF clear
<1> HIDE DEF w
<1>5. OtherBuckets(w, u) /\ AllEmpty(u)
  BY <1>1, <1>4, ClearFacts
<1>6. /\ u \in TableType(V) /\ u.values = << >> /\ size(u) = 0
      /\ u.shifts = t.shifts /\ u.max_bucket_capacity = t.max_bucket_capacity
      /\ bucket_count(u) = bucket_count(t)
  BY <1>1, <1>5, OtherBucketsFacts
<1>7. Sized(u) /\ Distinct(u) /\ Places(u) = {}
  BY <1>6, EmptyPlaces DEF Sized
<1>8. ASSUME bucket_count(u) > 0 PROVE Ready(V, u)
  <2>1. bucket_count(u) # 0
    BY <1>8
  <2>2. Shaped(u)
    BY <1>6, <1>7, <2>1, CountShaped DEF Sized
  <2>3. Indexed(u, {})
    BY <1>5, <2>2, EmptyIndexed
  <2>4. size(u) =< bucket_count(u)
    <3>1. bucket_count(u) \in Nat
      BY <2>2, ShapedFacts
    <3> QED  BY <1>6, <3>1
  <2> QED  BY <1>6, <1>7, <1>8, <2>3, <2>4 DEF Ready, Consistent
<1> QED  BY <1>6, <1>7, <1>8 DEF Left, Consistent

-----------------------------------------------------------------------------
(* Whole tables.                                                           *)
LEMMA CalcFacts ==
    ASSUME NEW s \in Nat, NEW load \in LoadType,
           NEW shifts, shifts = calc_shifts_for_size(s, load)
    PROVE  /\ shifts \in 0..initial_shifts
           /\ shifts > 0 \/ s = 0 => s =< calc_num_buckets(shifts)
<1> DEFINE S == {0} \cup {x \in 1..initial_shifts : LoadOf(calc_num_buckets(x), load) >= s}
<1>1. initial_shifts \in Nat
  BY DenseTableAssumption DEF initial_shifts
<1>2. S \subseteq 0..initial_shifts /\ S # {}
  BY <1>1
<1>3. shifts = Max(S)
  BY DEF calc_shifts_for_size
<1>4. shifts \in S
  <2> HIDE DEF S
  <2> QED  BY <1>1, <1>2, <1>3, MaxFacts
<1>5. shifts \in 0..initial_shifts
  BY <1>2, <1>4
<1>6. calc_num_buckets(shifts) \in Nat
  BY <1>5, CountFacts
<1>7. CASE shifts > 0
  <2>1. LoadOf(calc_num_buckets(shifts), load) >= s
    BY <1>4, <1>7
  <2>2. LoadOf(calc_num_buckets(shifts), load) \in 0..calc_num_buckets(shifts)
    BY <1>6, LoadFacts
  <2> QED  BY <1>5, <1>6, <2>1, <2>2
<1>8. CASE ~(shifts > 0)
  BY <1>5, <1>6, <1>8
<1> QED  BY <1>7, <1>8

(* A table that has no values yet, and a new index.                        *)
LEMMA FreshReady ==
    ASSUME NEW V, NEW t \in TableType(V), t.values = << >>,
           NEW u, u = allocate_buckets_from_shift(t)
    PROVE  Ready(V, u) /\ u.values = << >>
<1>1. /\ u \in TableType(V) /\ Sized(u) /\ Shaped(u) /\ AllEmpty(u) /\ u.values = << >>
      /\ bucket_count(u) = calc_num_buckets(t.shifts)
  BY AllocateFacts
<1>2. size(u) = 0 /\ Places(u) = {} /\ Distinct(u)
  <2>1. size(u) = 0
    BY <1>1 DEF size
  <2> QED  BY <1>1, <2>1, EmptyPlaces
<1>3. bucket_count(u) > 0 /\ size(u) =< bucket_count(u)
  <2>1. bucket_count(u) \in Nat \ {0, 1}
    BY <1>1, ShapedFacts
  <2> QED  BY <1>2, <2>1
<1>4. Indexed(u, {})
  BY <1>1, EmptyIndexed
<1> QED  BY <1>1, <1>2, <1>3, <1>4 DEF Ready, Consistent

(* The empty values, or other ones, in a table.                            *)
LEMMA NewTableFacts ==
    ASSUME NEW V
    PROVE  /\ NewTable \in TableType(V) /\ NewTable.values = << >> /\ NewTable.buckets = << >>
           /\ Consistent(V, NewTable) /\ size(NewTable) = 0 /\ bucket_count(NewTable) = 0
           /\ NewTable.shifts = initial_shifts /\ NewTable.max_load_factor = DefaultLoad
<1>1. initial_shifts \in 0..initial_shifts
  BY DenseTableAssumption DEF initial_shifts
<1>2. DefaultLoad \in LoadType
  BY DenseTableAssumption DEF IsLoad, LoadType
<1>3. NewTable \in TableType(V)
  <2> DEFINE E == Seq([key : DOMAIN Hash, val : V])
             B == Seq(BucketType)
  <2>1. << >> \in E /\ << >> \in B
    OBVIOUS
  <2> HIDE DEF E, B
  <2>2. NewTable \in [values : E, buckets : B, max_bucket_capacity : Nat,
                      max_load_factor : LoadType, shifts : 0..initial_shifts]
    BY <1>1, <1>2, <2>1 DEF NewTable
  <2> QED  BY <2>2 DEF TableType, E, B
<1>4. NewTable.values = << >> /\ NewTable.buckets = << >> /\ NewTable.max_bucket_capacity = 0
      /\ NewTable.shifts = initial_shifts /\ NewTable.max_load_factor = DefaultLoad
  BY DEF NewTable
<1>5. size(NewTable) = 0 /\ bucket_count(NewTable) = 0
  BY <1>4 DEF size, bucket_count
<1>6. Sized(NewTable) /\ Distinct(NewTable)
  BY <1>3, <1>4, <1>5, EmptyPlaces DEF Sized
<1> QED  BY <1>3, <1>4, <1>5, <1>6 DEF Consistent

LEMMA ReindexLeft ==
    ASSUME NEW V, NEW t, Consistent(V, t), NEW s \in 0..initial_shifts,
           size(t) =< calc_num_buckets(s), NEW e \in Reindexed(t, s)
    PROVE  Ended(V, e) /\ e.table.values = t.values
<1>1. /\ Consistent(V, e.table) /\ (~e.thrown => Ready(V, e.table))
      /\ e.table.values = t.values
      /\ e.thrown \in BOOLEAN
      /\ e.thrown => bucket_count(e.table) = 0
  BY ReindexFacts DEF Consistent
<1> QED  BY <1>1, ReadyLeft, ThrownLeft DEF Ended

LEMMA EnoughFacts ==
    ASSUME NEW V, NEW t, Consistent(V, t), NEW n \in Nat,
           NEW shifts, shifts = calc_shifts_for_size(Max({n, size(t)}), t.max_load_factor),
           shifts > 0 \/ size(t) = 0
    PROVE  shifts \in 0..initial_shifts /\ size(t) =< calc_num_buckets(shifts)
<1>1. size(t) \in Nat /\ t.max_load_factor \in LoadType
  BY ValueFacts DEF Consistent, TableType
<1> DEFINE m == Max({n, size(t)})
<1>2. m \in Nat /\ m >= size(t)
  BY <1>1, MaxOfTwo
<1> HIDE DEF m
<1>3. /\ shifts \in 0..initial_shifts
      /\ shifts > 0 \/ m = 0 => m =< calc_num_buckets(shifts)
  BY <1>1, <1>2, CalcFacts DEF m
<1>4. calc_num_buckets(shifts) \in Nat
  BY <1>3, CountFacts
<1> QED  BY <1>1, <1>2, <1>3, <1>4

LEMMA ReserveFacts ==
    ASSUME NEW V, NEW t, Consistent(V, t), NEW n \in Nat,
           \/ calc_shifts_for_size(Max({n, size(t)}), t.max_load_factor) > 0
           \/ size(t) = 0,
           NEW e \in reserve(t, n)
    PROVE  /\ e.table.values = t.values
           /\ \/ e = Throws(t)
              \/ e = Ends(t) /\ bucket_count(t) # 0
              \/ Ended(V, e)
<1> DEFINE shifts == calc_shifts_for_size(Max({n, size(t)}), t.max_load_factor)
<1>1. shifts \in 0..initial_shifts /\ size(t) =< calc_num_buckets(shifts)
  <2> HIDE DEF shifts
  <2> QED  BY EnoughFacts DEF shifts
<1>2. \/ e = Throws(t)
      \/ e \in Reindexed(t, shifts)
      \/ e = Ends(t) /\ bucket_count(t) # 0
  BY DEF reserve
<1> HIDE DEF shifts
<1>3. e \in Reindexed(t, shifts) => Ended(V, e) /\ e.table.values = t.values
  BY <1>1, ReindexLeft
<1>4. e \in {Throws(t), Ends(t)} => e.table.values = t.values
  BY DEF Throws, Ends
<1> QED  BY <1>2, <1>3, <1>4

LEMMA RehashFacts ==
    ASSUME NEW V, NEW t, Consistent(V, t), NEW n \in Nat,
           calc_shifts_for_size(Max({n, size(t)}), t.max_load_factor) > 0,
           NEW e \in rehash(t, n)
    PROVE  e.table.values = t.values /\ (e = Ends(t) \/ Ended(V, e))
<1> DEFINE shifts == calc_shifts_for_size(Max({n, size(t)}), t.max_load_factor)
<1>1. shifts \in 0..initial_shifts /\ size(t) =< calc_num_buckets(shifts)
  <2> HIDE DEF shifts
  <2> QED  BY EnoughFacts DEF shifts
<1>2. e \in Reindexed(t, shifts) \/ e = Ends(t)
  BY DEF rehash
<1> HIDE DEF shifts
<1>3. e \in Reindexed(t, shifts) => Ended(V, e) /\ e.table.values = t.values
  BY <1>1, ReindexLeft
<1>4. e = Ends(t) => e.table.values = t.values
  BY DEF Ends
<1> QED  BY <1>2, <1>3, <1>4

LEMMA EndsLeft ==
    ASSUME NEW V, NEW t
    PROVE  /\ Ends(t).table = t /\ Ends(t).thrown = FALSE
           /\ Throws(t).table = t /\ Throws(t).thrown = TRUE
           /\ Ready(V, t) => Ended(V, Ends(t))
           /\ Consistent(V, t) /\ bucket_count(t) = 0 => Ended(V, Throws(t))
<1>1. /\ Ends(t).table = t /\ Ends(t).thrown = FALSE
      /\ Throws(t).table = t /\ Throws(t).thrown = TRUE
  BY DEF Ends, Throws
<1> QED  BY <1>1, ReadyLeft, ThrownLeft DEF Ended

LEMMA ConstructedFacts ==
    ASSUME NEW V, NEW n \in Nat, NEW e \in Constructed(n)
    PROVE  Ended(V, e) /\ e.table.values = << >>
<1>1. /\ NewTable \in TableType(V) /\ NewTable.values = << >>
      /\ Consistent(V, NewTable) /\ size(NewTable) = 0 /\ bucket_count(NewTable) = 0
  BY NewTableFacts
<1>2. Ended(V, Throws(NewTable)) /\ Throws(NewTable).table = NewTable
  BY <1>1, EndsLeft
<1>3. CASE n = 0
  <2> DEFINE u == allocate_buckets_from_shift(NewTable)
  <2>1. e = Ends(u) \/ e = Throws(NewTable)
    BY <1>3 DEF Constructed
  <2> HIDE DEF u
  <2>2. Ready(V, u) /\ u.values = << >>
    BY <1>1, FreshReady DEF u
  <2> QED  BY <1>1, <1>2, <2>1, <2>2, EndsLeft
<1>4. CASE n # 0
  <2>1. e \in reserve(NewTable, n)
    BY <1>4 DEF Constructed
  <2> QED  BY <1>1, <1>2, <2>1, ReserveFacts
<1> QED  BY <1>3, <1>4

LEMMA FilledFacts ==
    ASSUME NEW V, NEW n \in Nat, NEW entries \in Seq(EntryType(V)), NEW e \in Filled(n, entries)
    PROVE  Ended(V, e)
<1>1. PICK x \in Constructed(n) : e \in IF x.thrown THEN {x} ELSE insert_range(x.table, entries)
  BY DEF Filled
<1>2. Ended(V, x)
  BY ConstructedFacts
<1>3. CASE x.thrown
  BY <1>1, <1>2, <1>3
<1>4. CASE ~x.thrown
  BY <1>1, <1>2, <1>4, InsertRangeFacts DEF Ended
<1> QED  BY <1>3, <1>4

LEMMA LoadChange ==
    ASSUME NEW V, NEW t, Consistent(V, t), NEW load \in LoadType, NEW u, u = max_load_factor(t, load)
    PROVE  /\ Consistent(V, u) /\ u.values = t.values /\ (Ready(V, t) => Ready(V, u))
           /\ bucket_count(u) = bucket_count(t)
<1> DEFINE n == bucket_count(t)
           c == IF n # max_bucket_count THEN LoadOf(n, load) ELSE t.max_bucket_capacity
<1>1. t \in TableType(V) /\ Sized(t) /\ Distinct(t)
  BY DEF Consistent
<1>2. n \in Nat
  <2>1. t.buckets \in Seq(BucketType)
    BY <1>1 DEF TableType
  <2> QED  BY ONLY <2>1 DEF bucket_count
<1>3. LoadOf(n, load) \in 0..n
  BY <1>2, LoadFacts
<1>4. c \in Nat
  BY <1>1, <1>2, <1>3 DEF TableType
<1>5. u = [t EXCEPT !.max_load_factor = load, !.max_bucket_capacity = c]
  BY <1>1 DEF max_load_factor, TableType
<1>6. max_bucket_count \in Nat \ {0, 1}
  <2>1. 0 \in 0..initial_shifts
    BY DenseTableAssumption DEF initial_shifts
  <2> QED  BY <2>1, CountFacts
<1>7. Sized(t) => IF n = 0 THEN c = 0
                  ELSE /\ n = calc_num_buckets(t.shifts) /\ c =< n
                       /\ n = max_bucket_count => c = max_bucket_count
  BY <1>2, <1>3, <1>6 DEF Sized
<1> HIDE DEF c
<1>8. /\ u.values = t.values /\ u.buckets = t.buckets /\ u.shifts = t.shifts
      /\ u.max_bucket_capacity = c
  BY <1>1, <1>5 DEF TableType
<1>9. u \in TableType(V)
  BY <1>1, <1>4, <1>5 DEF TableType
<1>10. bucket_count(u) = n /\ size(u) = size(t) /\ Places(u) = Places(t)
       /\ \A i : key_at(u, i) = key_at(t, i)
  BY <1>8 DEF bucket_count, size, Places, key_at
<1>11. Consistent(V, u)
  BY <1>1, <1>7, <1>8, <1>9, <1>10 DEF Consistent, Sized, Distinct
<1>12. ASSUME Ready(V, t) PROVE Ready(V, u)
  <2>1. Shaped(t) /\ Indexed(t, Places(t)) /\ bucket_count(t) > 0 /\ size(t) =< bucket_count(t)
    BY <1>12, ReadyShaped DEF Ready
  <2>2. Indexed(u, Places(t))
    BY <1>8, <1>10, <2>1, SameIndex
  <2> QED  BY <1>10, <1>11, <2>1, <2>2 DEF Ready
<1> QED  BY <1>8, <1>10, <1>11, <1>12

LEMMA MovedFromFacts ==
    ASSUME NEW V, NEW t \in TableType(V), NEW u, u = MovedFrom(t)
    PROVE  Ready(V, u) /\ u.values = << >>
<1> DEFINE w == [t EXCEPT !.values = << >>, !.shifts = initial_shifts,
                          !.max_load_factor = DefaultLoad]
<1>1. initial_shifts \in 0..initial_shifts /\ DefaultLoad \in LoadType
  BY NewTableFacts DEF TableType
<1>2. w \in TableType(V) /\ w.values = << >>
  <2> DEFINE E == Seq([key : DOMAIN Hash, val : V])
             B == Seq(BucketType)
  <2>1. << >> \in E
    OBVIOUS
  <2>2. t \in [values : E, buckets : B, max_bucket_capacity : Nat,
               max_load_factor : LoadType, shifts : 0..initial_shifts]
    BY DEF TableType
  <2> HIDE DEF E, B
  <2>3. w \in [values : E, buckets : B, max_bucket_capacity : Nat,
               max_load_factor : LoadType, shifts : 0..initial_shifts] /\ w.values = << >>
    BY <1>1, <2>1, <2>2
  <2> QED  BY <2>3 DEF TableType, E, B
<1>3. u = allocate_buckets_from_shift(w)
  BY DEF MovedFrom
<1> HIDE DEF w
<1> QED  BY <1>2, <1>3, FreshReady

LEMMA BareFacts ==
    ASSUME NEW V, NEW t \in TableType(V), Distinct(t), NEW u, u = deallocate_buckets(t)
    PROVE  /\ Consistent(V, u) /\ bucket_count(u) = 0
           /\ u.values = t.values /\ u.buckets = << >> /\ u.max_bucket_capacity = 0
<1>1. u = [t EXCEPT !.buckets = << >>, !.max_bucket_capacity = 0]
  BY DEF deallocate_buckets
<1>2. u.values = t.values /\ u.buckets = << >> /\ u.max_bucket_capacity = 0
  BY <1>1 DEF TableType
<1>3. u \in TableType(V)
  <2> DEFINE B == Seq(BucketType)
  <2> DEFINE E == Seq([key : DOMAIN Hash, val : V])
  <2>1. << >> \in B /\ 0 \in Nat
    OBVIOUS
  <2>2. t \in [values : E, buckets : B, max_bucket_capacity : Nat,
               max_load_factor : LoadType, shifts : 0..initial_shifts]
    BY DEF TableType
  <2> HIDE DEF B, E
  <2>3. u \in [values : E, buckets : B, max_bucket_capacity : Nat,
               max_load_factor : LoadType, shifts : 0..initial_shifts]
    BY <1>1, <2>1, <2>2
  <2> QED  BY <2>3 DEF TableType, B, E
<1>4. bucket_count(u) = 0
  BY <1>2 DEF bucket_count
<1>5. Sized(u)
  BY <1>2, <1>4 DEF Sized
<1>6. Distinct(u)
  BY <1>2 DEF Distinct, Places, size, key_at
<1> QED  BY <1>2, <1>3, <1>4, <1>5, <1>6 DEF Consistent

(* The copy w of the values of t, when it gets its index or does not.      *)
LEMMA CopyBucketsFacts ==
    ASSUME NEW V, NEW t, Ready(V, t) \/ (t \in TableType(V) /\ t.values = << >>),
           NEW w \in TableType(V), w.values = t.values, w.buckets = << >>,
           w.max_bucket_capacity = 0, NEW e \in copy_buckets(w, t)
    PROVE  Ended(V, e) /\ e.table.values = t.values
<1>1. bucket_count(w) = 0
  BY DEF bucket_count
<1>2. CASE t.values = << >>
  <2>1. e = Ends(allocate_buckets_from_shift(w)) \/ e = Throws(w)
    BY <1>2 DEF copy_buckets
  <2>2. Ready(V, allocate_buckets_from_shift(w)) /\ allocate_buckets_from_shift(w).values = << >>
    BY <1>2, FreshReady
  <2>3. Consistent(V, w)
    <3>1. Sized(w)
      BY <1>1 DEF Sized
    <3>2. size(w) = 0
      BY <1>2 DEF size
    <3> QED  BY <3>1, <3>2, EmptyPlaces DEF Consistent
  <2> DEFINE y == allocate_buckets_from_shift(w)
  <2> HIDE DEF y
  <2>4. CASE e = Ends(y)
    BY <1>2, <2>2, <2>4, EndsLeft DEF y
  <2>5. CASE e = Throws(w)
    BY <1>1, <2>3, <2>5, EndsLeft
  <2> QED  BY <2>1, <2>4, <2>5 DEF y
<1>3. CASE t.values # << >>
  <2> DEFINE x == [w EXCEPT !.shifts = t.shifts]
             y == allocate_buckets_from_shift(x)
             u == [y EXCEPT !.buckets = t.buckets]
  <2>1. t \in TableType(V) /\ Shaped(t) /\ Sized(t) /\ Indexed(t, Places(t)) /\ Distinct(t)
        /\ bucket_count(t) > 0 /\ size(t) =< bucket_count(t)
    BY <1>3, ReadyShaped DEF Ready, Consistent
  <2>2. e = Ends(u) \/ e = Throws(x)
    BY <1>3 DEF copy_buckets
  <2>3. /\ x \in TableType(V) /\ x.values = t.values /\ x.shifts = t.shifts
        /\ x.buckets = << >> /\ x.max_bucket_capacity = 0
    BY <2>1 DEF TableType
  <2> HIDE DEF x
  <2>4. /\ y \in TableType(V) /\ Sized(y) /\ y.values = t.values /\ y.shifts = t.shifts
        /\ bucket_count(y) = calc_num_buckets(t.shifts)
    <3> HIDE DEF y
    <3> QED  BY <2>3, AllocateFacts DEF y
  <2> HIDE DEF y
  <2>5. bucket_count(t) \in Nat \ {0, 1} /\ bucket_count(t) = calc_num_buckets(t.shifts)
    BY <2>1, ShapedFacts DEF Sized
  <2>6. /\ u \in TableType(V) /\ u.values = t.values /\ u.shifts = t.shifts
        /\ u.buckets = t.buckets /\ u.max_bucket_capacity = y.max_bucket_capacity
    BY <2>1, <2>4 DEF TableType
  <2> HIDE DEF u
  <2>7. \A v : v.values = t.values => /\ size(v) = size(t) /\ Places(v) = Places(t)
                                      /\ \A i : key_at(v, i) = key_at(t, i)
    BY DEF size, Places, key_at
  <2>8. bucket_count(u) = bucket_count(t) /\ bucket_count(x) = 0
    BY <2>3, <2>6 DEF bucket_count
  <2>9. Sized(u) /\ Distinct(u) /\ Sized(x) /\ Distinct(x)
    BY <2>1, <2>3, <2>4, <2>5, <2>6, <2>7, <2>8 DEF Sized, Distinct
  <2>10. Indexed(u, Places(u))
    BY <2>1, <2>6, <2>7, SameIndex
  <2>11. Ready(V, u) /\ Consistent(V, x)
    BY <2>1, <2>3, <2>6, <2>7, <2>8, <2>9, <2>10 DEF Ready, Consistent
  <2>12. CASE e = Ends(u)
    BY <2>6, <2>11, <2>12, EndsLeft
  <2>13. CASE e = Throws(x)
    BY <2>3, <2>8, <2>11, <2>13, EndsLeft
  <2> QED  BY <2>2, <2>12, <2>13 DEF u, x
<1> QED  BY <1>2, <1>3

LEMMA CopiedFacts ==
    ASSUME NEW V, NEW t, Ready(V, t) \/ (t \in TableType(V) /\ t.values = << >>),
           NEW e \in Copied(t), ~e.thrown
    PROVE  Ready(V, e.table) /\ e.table.values = t.values
<1> DEFINE w == [NewTable EXCEPT !.values = t.values, !.max_load_factor = t.max_load_factor]
<1>1. e \in copy_buckets(w, t)
  BY EndsLeft DEF Copied
<1>2. NewTable \in TableType(V) /\ t \in TableType(V)
  BY NewTableFacts DEF Ready, Consistent
<1>3. /\ w \in TableType(V) /\ w.values = t.values /\ w.buckets = << >>
      /\ w.max_bucket_capacity = 0
  BY <1>2 DEF TableType, NewTable
<1> HIDE DEF w
<1> QED  BY <1>1, <1>3, CopyBucketsFacts DEF Ended

LEMMA CopyAssignFacts ==
    ASSUME NEW V, NEW t, Consistent(V, t), NEW other, Ready(V, other),
           NEW e \in copy_assign(t, other)
    PROVE  /\ Ended(V, e)
           /\ e.table.values = other.values \/ (e.thrown /\ e.table.values = t.values)
<1> DEFINE bare == deallocate_buckets(t)
           w == [bare EXCEPT !.values = other.values, !.shifts = initial_shifts,
                             !.max_load_factor = other.max_load_factor]
<1>1. e = Throws(bare) \/ e \in copy_buckets(w, other)
  BY DEF copy_assign
<1> HIDE DEF bare
<1>2. /\ Consistent(V, bare) /\ bucket_count(bare) = 0 /\ bare.values = t.values
      /\ bare.buckets = << >> /\ bare.max_bucket_capacity = 0
  BY BareFacts DEF bare, Consistent
<1>3. bare \in TableType(V) /\ other \in TableType(V) /\ initial_shifts \in 0..initial_shifts
  BY <1>2, NewTableFacts DEF Consistent, Ready, TableType
<1>4. /\ w \in TableType(V) /\ w.values = other.values /\ w.buckets = << >>
      /\ w.max_bucket_capacity = 0
  BY <1>2, <1>3 DEF TableType
<1> HIDE DEF w
<1>5. CASE e = Throws(bare)
  BY <1>2, <1>5, EndsLeft
<1>6. CASE e \in copy_buckets(w, other)
  BY <1>4, <1>6, CopyBucketsFacts
<1> QED  BY <1>1, <1>5, <1>6

-----------------------------------------------------------------------------
(* replace: the duplicates among the values go, and each of the others has *)
(* its bucket.                                                             *)

(* What the loop of replace starts with, when its index is r.              *)
Begins(r, container) == [table |-> [clear_buckets(r) EXCEPT !.values = container], next |-> 0]

EntriesOf(t) == {t.values[i] : i \in DOMAIN t.values}

(* Some of the entries in X, and one for each of their keys.               *)
Holding(t, X) == EntriesOf(t) \subseteq X /\ {e.key : e \in X} \subseteq {e.key : e \in EntriesOf(t)}

(* After n turns: the first next values are in the index, and have keys of *)
(* their own.                                                              *)
Replacing(V, X, count, t, n, s) ==
    /\ Holding(s.table, X)
    /\ s.table \in TableType(V) /\ Sized(s.table) /\ Shaped(s.table)
    /\ s.table.shifts = t.shifts /\ s.table.max_load_factor = t.max_load_factor
    /\ bucket_count(s.table) = bucket_count(t)
    /\ s = [table |-> s.table, next |-> s.next]
    /\ s.next \in Nat /\ s.next =< size(s.table) /\ size(s.table) =< count
    /\ s.next + (count - size(s.table)) = n
    /\ Indexed(s.table, 0..(s.next - 1))

LEMMA ReplaceBegins ==
    ASSUME NEW V, NEW t \in TableType(V), Sized(t), Shaped(t),
           NEW container \in Seq(EntryType(V)), NEW s, s = Begins(t, container)
    PROVE  Replacing(V, {container[i] : i \in DOMAIN container}, Len(container), t, 0, s)
<1> DEFINE w == clear_buckets(t)
           u == [w EXCEPT !.values = container]
<1>1. OtherBuckets(t, w) /\ AllEmpty(w)
  BY ClearFacts
<1>2. s.table = u /\ s.next = 0 /\ s = [table |-> s.table, next |-> s.next]
  BY DEF Begins
<1> HIDE DEF w
<1>3. /\ w \in TableType(V) /\ Shaped(w) /\ bucket_count(w) = bucket_count(t)
      /\ w.shifts = t.shifts /\ w.max_load_factor = t.max_load_factor
      /\ w.max_bucket_capacity = t.max_bucket_capacity
  BY <1>1, OtherBucketsFacts
<1>4. /\ u.values = container /\ u.buckets = w.buckets /\ u.shifts = w.shifts
      /\ u.max_bucket_capacity = w.max_bucket_capacity
      /\ u.max_load_factor = w.max_load_factor
  BY <1>3 DEF TableType
<1>5. u \in TableType(V)
  BY <1>3 DEF TableType, EntryType
<1>6. Len(container) \in Nat
  <2> DEFINE E == EntryType(V)
  <2>1. container \in Seq(E)
    OBVIOUS
  <2> HIDE DEF E
  <2> QED  BY ONLY <2>1
<1> HIDE DEF u
<1>7. size(u) = Len(container) /\ bucket_count(u) = bucket_count(w)
  BY <1>4 DEF size, bucket_count
<1>8. Sized(u)
  BY <1>3, <1>4, <1>7 DEF Sized
<1>9. Indexed(w, {})
  BY <1>1, <1>3, EmptyIndexed
<1>10. Shaped(u) /\ Indexed(u, {})
  BY <1>3, <1>4, <1>9, SameIndex
<1>11. 0..(0 - 1) = {}
  OBVIOUS
<1> DEFINE X == {container[i] : i \in DOMAIN container}
<1>12. Holding(u, X)
  BY <1>4 DEF Holding, EntriesOf
<1> HIDE DEF X
<1>13. Replacing(V, X, Len(container), t, 0, s)
  BY <1>2, <1>3, <1>4, <1>5, <1>6, <1>7, <1>8, <1>10, <1>11, <1>12 DEF Replacing
<1> QED  BY <1>13 DEF X

LEMMA ReplaceTurn ==
    ASSUME NEW V, NEW X, NEW t, NEW count \in Nat, NEW n \in Nat, n < count,
           bucket_count(t) \in Nat, count =< bucket_count(t),
           NEW s, Replacing(V, X, count, t, n, s), NEW r, r = ReplaceStep(s)
    PROVE  Replacing(V, X, count, t, n + 1, r)
<1> DEFINE w == s.table
           m == s.next
           key == key_at(w, m)
           p == Probe(w, key)
           back == w.values[size(w)]
           I == 0..(m - 1)
           E == [key : DOMAIN Hash, val : V]
<1>1. /\ w \in TableType(V) /\ Sized(w) /\ Shaped(w) /\ Indexed(w, I)
      /\ w.shifts = t.shifts /\ w.max_load_factor = t.max_load_factor
      /\ bucket_count(w) = bucket_count(t)
      /\ m \in Nat /\ m =< size(w) /\ size(w) =< count /\ m + (count - size(w)) = n
      /\ Holding(w, X)
  BY DEF Replacing
<1>2. size(w) \in Nat /\ m < size(w) /\ size(w) =< count
  <2>1. size(w) \in Nat
    BY <1>1, ValueFacts
  <2> HIDE DEF w, m
  <2> QED  BY <1>1, <2>1
<1>3. m \in Places(w) /\ key \in DOMAIN Hash /\ m + 1 \in 1..size(w) /\ m \notin I
  <2>1. m \in Places(w)
    BY <1>1, <1>2 DEF Places
  <2> QED  BY <1>1, <2>1, ValueFacts
<1>4. r = IF p.found
          THEN [s EXCEPT !.table = pop_back([w EXCEPT !.values[m + 1] = back])]
          ELSE [table |-> place_and_shift_up(w, Bucket(p.daf, m), p.place), next |-> m + 1]
  BY DEF ReplaceStep
<1>5. CASE \E i \in I : key_at(w, i) = key
  <2>1. PICK i \in I : key_at(w, i) = key
    BY <1>5
  <2>2. p.found
    <3> HIDE DEF w, key, I
    <3> QED  BY <1>1, <2>1, PresentFacts
  <2> DEFINE v == SubSeq([w.values EXCEPT ![m + 1] = w.values[Len(w.values)]], 1, Len(w.values) - 1)
             u == [w EXCEPT !.values = v]
  <2>3. w.values \in Seq(E) /\ Len(w.values) = size(w)
    BY <1>1 DEF TableType, size
  <2>4. /\ v \in Seq(E) /\ Len(v) = size(w) - 1
        /\ \A j \in 1..(size(w) - 1) : v[j] = IF j = m + 1 THEN w.values[size(w)] ELSE w.values[j]
    <3> HIDE DEF E, w, m
    <3> QED  BY <1>3, <2>3, FillGap
  <2>5. r.table = u /\ r.next = m /\ r = [table |-> r.table, next |-> r.next]
    <3> DEFINE x == [w EXCEPT !.values[m + 1] = back]
    <3>1. x.values = [w.values EXCEPT ![m + 1] = back]
      BY <1>1 DEF TableType
    <3>2. Len(x.values) = Len(w.values)
      <4>1. back \in E /\ m + 1 \in 1..Len(w.values)
        <5> HIDE DEF E, w, m
        <5> QED  BY <1>2, <1>3, <2>3
      <4> HIDE DEF E, w, m, back, x
      <4> QED  BY <2>3, <3>1, <4>1, ExceptFacts
    <3>3. pop_back(x) = [x EXCEPT !.values = v]
      BY <2>3, <3>1, <3>2 DEF pop_back
    <3>4. [x EXCEPT !.values = v] = u
      <4> HIDE DEF v
      <4> QED  BY <1>1 DEF TableType
    <3>5. r = [s EXCEPT !.table = pop_back(x)]
      BY <1>4, <2>2
    <3>6. r = [s EXCEPT !.table = u]
      BY <3>3, <3>4, <3>5
    <3> HIDE DEF u
    <3>7. s = [table |-> w, next |-> m]
      BY DEF Replacing
    <3> QED  BY <3>6, <3>7
  <2> HIDE DEF v
  <2>6. /\ u.values = v /\ u.buckets = w.buckets /\ u.shifts = w.shifts
        /\ u.max_bucket_capacity = w.max_bucket_capacity
        /\ u.max_load_factor = w.max_load_factor
    BY <1>1 DEF TableType
  <2>7. u \in TableType(V)
    BY <1>1, <2>4 DEF TableType
  <2> HIDE DEF u
  <2>8. size(u) = size(w) - 1 /\ bucket_count(u) = bucket_count(w)
    BY <2>4, <2>6 DEF size, bucket_count
  <2>9. Sized(u)
    BY <1>1, <2>6, <2>8 DEF Sized
  <2>10. \A j \in I : key_at(u, j) = key_at(w, j)
    <3> TAKE j \in I
    <3>1. j + 1 \in 1..(size(w) - 1) /\ j + 1 # m + 1
      <4> HIDE DEF w
      <4> QED  BY <1>1, <1>2
    <3> QED  BY <2>4, <2>6, <3>1 DEF key_at
  <2>11. Shaped(u) /\ Indexed(u, I)
    <3> HIDE DEF I, w
    <3> QED  BY <1>1, <2>6, <2>10, SameIndex
  <2>12. m =< size(u) /\ size(u) =< count /\ m + (count - size(u)) = n + 1
    <3> HIDE DEF w, m
    <3> QED  BY <1>1, <1>2, <2>8
  <2>13. Holding(u, X)
    <3>1. /\ DOMAIN w.values = 1..size(w) /\ DOMAIN u.values = 1..(size(w) - 1)
          /\ \A j \in 1..(size(w) - 1) : u.values[j] = IF j = m + 1 THEN w.values[size(w)] ELSE w.values[j]
      <4>1. size(u) = size(w) - 1
        BY <2>8
      <4> HIDE DEF w, m
      <4> QED  BY <1>1, <2>4, <2>6, <2>7, <4>1, ValueFacts
    <3>2. i + 1 \in 1..(size(w) - 1) /\ i + 1 # m + 1 /\ w.values[i + 1].key = w.values[m + 1].key
      <4>1. w.values[i + 1].key = w.values[m + 1].key
        BY <2>1 DEF key_at
      <4> HIDE DEF w, m
      <4> QED  BY <1>1, <1>2, <2>1, <4>1
    <3> HIDE DEF w, m
    <3>3. EntriesOf(u) \subseteq EntriesOf(w)
      <4> SUFFICES ASSUME NEW j \in 1..(size(w) - 1) PROVE u.values[j] \in EntriesOf(w)
        BY <3>1 DEF EntriesOf
      <4>1. j \in 1..size(w) /\ size(w) \in 1..size(w)
        BY <1>2
      <4> QED  BY <3>1, <4>1 DEF EntriesOf
    <3>4. ASSUME NEW j \in 1..size(w) PROVE \E k \in 1..(size(w) - 1) : u.values[k].key = w.values[j].key
      <4>1. CASE j = m + 1
        BY <3>1, <3>2, <4>1
      <4>2. CASE j # m + 1 /\ j # size(w)
        <5>1. j \in 1..(size(w) - 1)
          BY <1>2, <4>2
        <5> QED  BY <3>1, <4>2, <5>1
      <4>3. CASE j # m + 1 /\ j = size(w)
        <5>1. m + 1 \in 1..(size(w) - 1)
          BY <1>1, <1>2, <4>3
        <5> QED  BY <3>1, <4>3, <5>1
      <4> QED  BY <4>1, <4>2, <4>3
    <3>5. {e.key : e \in EntriesOf(w)} \subseteq {e.key : e \in EntriesOf(u)}
      BY <3>1, <3>4 DEF EntriesOf
    <3> QED  BY <1>1, <3>3, <3>5 DEF Holding
  <2> QED  BY <1>1, <2>5, <2>6, <2>7, <2>8, <2>9, <2>11, <2>12, <2>13 DEF Replacing
<1>6. CASE \A i \in I : key_at(w, i) # key
  <2>1. ~p.found
    <3> HIDE DEF w, key, I
    <3> QED  BY <1>1, <1>3, <1>6, AbsentFacts
  <2>2. PICK d \in 0..bucket_count(w) :
            /\ GoesAt(w, key, d) /\ p.daf = Wanted(key, d)
            /\ p.place = next(w, bucket_idx_from_hash(w, key), d)
    <3> HIDE DEF w, key, I
    <3> QED  BY <1>1, <1>3, <1>6, AbsentFacts
  <2>3. m < bucket_count(w)
    <3> HIDE DEF w, m
    <3> QED  BY <1>1, <1>2
  <2>4. PICK e \in Slots(w) : Dist(w, e) = 0
    <3> HIDE DEF w, m
    <3> QED  BY <1>1, <2>3, EmptyLeft
  <2> DEFINE u == place_and_shift_up(w, Bucket(p.daf, m), p.place)
  <2>5. r.table = u /\ r.next = m + 1 /\ r = [table |-> r.table, next |-> r.next]
    BY <1>4, <2>1
  <2>6. OtherBuckets(w, u) /\ Indexed(u, I \cup {m})
    <3>1. u = place_and_shift_up(w, Bucket(Wanted(key, d), m),
                                 next(w, bucket_idx_from_hash(w, key), d))
      BY <2>2
    <3>2. key_at(w, m) = key
      OBVIOUS
    <3> HIDE DEF u, w, m, key, I
    <3> QED  BY <1>1, <1>3, <1>6, <2>2, <2>4, <3>1, <3>2, PlacedIndexed
  <2> HIDE DEF u
  <2>7. /\ u \in TableType(V) /\ size(u) = size(w)
        /\ u.shifts = w.shifts /\ u.values = w.values
        /\ u.max_bucket_capacity = w.max_bucket_capacity
        /\ u.max_load_factor = w.max_load_factor
        /\ bucket_count(u) = bucket_count(w) /\ Shaped(u)
    <3> HIDE DEF w
    <3> QED  BY <1>1, <2>6, OtherBucketsFacts
  <2>8. Sized(u)
    BY <1>1, <2>7 DEF Sized
  <2>9. /\ m + 1 \in Nat /\ m + 1 =< size(u) /\ size(u) =< count /\ (m + 1) + (count - size(u)) = n + 1
        /\ I \cup {m} = 0..((m + 1) - 1)
    <3> HIDE DEF w, m
    <3> QED  BY <1>1, <1>2, <2>7
  <2>10. Indexed(u, 0..((m + 1) - 1))
    BY <2>6, <2>9
  <2>11. Holding(u, X)
    BY <1>1, <2>7 DEF Holding, EntriesOf
  <2> QED  BY <1>1, <2>5, <2>7, <2>8, <2>9, <2>10, <2>11 DEF Replacing
<1> QED  BY <1>5, <1>6

LEMMA ReplaceEnds ==
    ASSUME NEW V, NEW X, NEW t, NEW count \in Nat, bucket_count(t) \in Nat \ {0}, count =< bucket_count(t),
           NEW s, Replacing(V, X, count, t, count, s)
    PROVE  Ready(V, s.table) /\ Holding(s.table, X)
<1> DEFINE w == s.table
           m == s.next
<1>1. /\ w \in TableType(V) /\ Sized(w) /\ Shaped(w) /\ Indexed(w, 0..(m - 1))
      /\ bucket_count(w) = bucket_count(t)
      /\ m \in Nat /\ m =< size(w) /\ size(w) =< count /\ m + (count - size(w)) = count
  BY DEF Replacing
<1> HIDE DEF w, m
<1>2. size(w) \in Nat
  BY <1>1, ValueFacts
<1>3. m = size(w) /\ Places(w) = 0..(m - 1)
  BY <1>1, <1>2 DEF Places
<1>4. size(w) =< count
  BY <1>1, <1>2
<1>5. Distinct(w)
  BY <1>1, <1>3 DEF Indexed, KeysApart, Distinct
<1>6. size(w) =< bucket_count(w) /\ bucket_count(w) > 0
  BY <1>1, <1>2, <1>4
<1>7. Ready(V, w)
  BY <1>1, <1>3, <1>5, <1>6 DEF Ready, Consistent
<1>8. Holding(s.table, X)
  BY DEF Replacing
<1> QED  BY <1>7, <1>8 DEF w

(* The index replace begins with.                                          *)
ToFill(t, container) ==
    LET shifts == calc_shifts_for_size(Len(container), t.max_load_factor)
    IN  IF bucket_count(t) = 0 \/ shifts < t.shifts
        THEN allocate_buckets_from_shift(deallocate_buckets([t EXCEPT !.shifts = shifts])) ELSE t

(* How replace fails when it cannot make its index.                        *)
Bare(t, container) ==
    LET shifts == calc_shifts_for_size(Len(container), t.max_load_factor)
    IN  IF bucket_count(t) = 0 \/ shifts < t.shifts
        THEN {Throws(deallocate_buckets([t EXCEPT !.shifts = shifts]))} ELSE {}

(* The recursive function behind replace.                                  *)
LEMMA ReplaceFunction ==
    ASSUME NEW t, NEW container, Len(container) \in Nat, ~(Len(container) > max_bucket_count)
    PROVE  \E f : /\ f[0] = Begins(ToFill(t, container), container)
                  /\ \A k \in 1..Len(container) : f[k] = ReplaceStep(f[k - 1])
                  /\ replace(t, container) = ({Ends(f[Len(container)].table)} \cup Bare(t, container))
<1> DEFINE Upto(g, m) == g = [k \in 0..m |-> IF k = 0 THEN Begins(ToFill(t, container), container) ELSE ReplaceStep(g[k - 1])]
           Exist == {m \in Nat : \E g : Upto(g, m)}
<1>1. 0 \in Exist
  <2> DEFINE g == [k \in 0..0 |-> Begins(ToFill(t, container), container)]
  <2>1. Upto(g, 0)
    OBVIOUS
  <2> QED  BY <2>1
<1>2. ASSUME NEW m \in Nat, m \in Exist PROVE m + 1 \in Exist
  <2>1. PICK g : Upto(g, m)
    BY <1>2
  <2> DEFINE h == [k \in 0..(m + 1) |->
                      IF k = m + 1 THEN ReplaceStep(g[k - 1]) ELSE g[k]]
  <2>2. ASSUME NEW k \in 0..(m + 1)
        PROVE  h[k] = IF k = 0 THEN Begins(ToFill(t, container), container) ELSE ReplaceStep(h[k - 1])
    <3>1. k # 0 => k - 1 \in 0..m /\ h[k - 1] = g[k - 1]
      OBVIOUS
    <3>2. CASE k = m + 1
      BY <3>1, <3>2
    <3>3. CASE k # m + 1
      <4>1. k \in 0..m /\ h[k] = g[k]
        BY <3>3
      <4>2. g[k] = IF k = 0 THEN Begins(ToFill(t, container), container) ELSE ReplaceStep(g[k - 1])
        BY <2>1, <4>1
      <4> QED  BY <3>1, <4>1, <4>2
    <3> QED  BY <3>2, <3>3
  <2>3. h = [k \in 0..(m + 1) |-> h[k]]
    OBVIOUS
  <2>4. Upto(h, m + 1)
    <3> HIDE DEF h
    <3> QED  BY <2>2, <2>3
  <2> HIDE DEF h, Upto
  <2>5. m + 1 \in Nat /\ \E g2 : Upto(g2, m + 1)
    BY <2>4
  <2> QED  BY <2>5
<1>3. \E g : Upto(g, Len(container))
  <2>1. Nat \subseteq Exist
    <3> HIDE DEF Exist
    <3> QED  BY <1>1, <1>2, NatSetInduction
  <2> QED  BY <2>1
<1> DEFINE f == CHOOSE g : Upto(g, Len(container))
<1>4. Upto(f, Len(container))
  BY <1>3
<1>5. replace(t, container) = ({Ends(f[Len(container)].table)} \cup Bare(t, container))
  BY DEF replace, Begins, ToFill, Bare
<1> HIDE DEF f
<1>6. \A k \in 0..Len(container) : f[k] = IF k = 0 THEN Begins(ToFill(t, container), container) ELSE ReplaceStep(f[k - 1])
  BY <1>4
<1>7. f[0] = Begins(ToFill(t, container), container) /\ \A k \in 1..Len(container) : f[k] = ReplaceStep(f[k - 1])
  BY <1>6
<1> QED  BY <1>5, <1>7

LEMMA ReplaceFacts ==
    ASSUME NEW V, NEW t, Consistent(V, t), NEW container \in Seq(EntryType(V)),
           \/ calc_shifts_for_size(Len(container), t.max_load_factor) > 0
           \/ Len(container) > max_bucket_count,
           NEW e \in replace(t, container)
    PROVE  \/ e = Throws(t)
           \/ /\ Ended(V, e)
              /\ IF e.thrown THEN e.table.values = t.values
                 ELSE Holding(e.table, {container[i] : i \in DOMAIN container})
<1> DEFINE n == Len(container)
           X == {container[i] : i \in DOMAIN container}
           shifts == calc_shifts_for_size(n, t.max_load_factor)
           bare == deallocate_buckets([t EXCEPT !.shifts = shifts])
           r == ToFill(t, container)
<1>1. n \in Nat /\ t.max_load_factor \in LoadType /\ t \in TableType(V) /\ Sized(t) /\ Distinct(t)
  <2>1. n \in Nat
    <3> DEFINE E == EntryType(V)
    <3>1. container \in Seq(E)
      OBVIOUS
    <3> HIDE DEF E
    <3> QED  BY ONLY <3>1
  <2> QED  BY <2>1 DEF Consistent, TableType
<1>2. CASE n > max_bucket_count
  BY <1>2 DEF replace
<1>3. CASE ~(n > max_bucket_count)
  <2>1. shifts \in 0..initial_shifts /\ n =< calc_num_buckets(shifts)
    <3> HIDE DEF shifts, n
    <3> QED  BY <1>1, <1>3, CalcFacts DEF shifts, n
  <2>2. calc_num_buckets(shifts) \in Nat \ {0, 1}
    <3> HIDE DEF shifts
    <3> QED  BY <2>1, CountFacts
  <2> HIDE DEF shifts
  <2>3. /\ bare \in TableType(V) /\ bare.shifts = shifts /\ bare.values = t.values
        /\ bare.max_load_factor = t.max_load_factor
        /\ bare.buckets = << >> /\ bare.max_bucket_capacity = 0
    <3>1. bare = [t EXCEPT !.shifts = shifts, !.buckets = << >>, !.max_bucket_capacity = 0]
      BY <1>1 DEF deallocate_buckets, TableType
    <3>2. << >> \in Seq(BucketType) /\ 0 \in Nat
      OBVIOUS
    <3> DEFINE B == Seq(BucketType)
    <3>3. << >> \in B /\ t.buckets \in B
      BY <1>1, <3>2 DEF TableType
    <3> HIDE DEF bare, B
    <3>4. bare \in TableType(V)
      BY <1>1, <2>1, <3>1, <3>3 DEF TableType, B
    <3> QED  BY <1>1, <3>1, <3>4 DEF TableType
  <2> HIDE DEF bare
  <2>4. bucket_count(bare) = 0 /\ size(bare) = size(t) /\ Places(bare) = Places(t)
        /\ \A i : key_at(bare, i) = key_at(t, i)
    BY <2>3 DEF bucket_count, size, Places, key_at
  <2>5. Consistent(V, bare)
    BY <1>1, <2>3, <2>4 DEF Consistent, Sized, Distinct
  <2>6. /\ r \in TableType(V) /\ Sized(r) /\ Shaped(r) /\ bucket_count(r) \in Nat \ {0}
        /\ n =< bucket_count(r)
    <3>1. CASE bucket_count(t) = 0 \/ shifts < t.shifts
      <4>1. r = allocate_buckets_from_shift(bare)
        BY <3>1 DEF ToFill, shifts, bare
      <4> HIDE DEF r, n
      <4> QED  BY <2>1, <2>2, <2>3, <4>1, AllocateFacts
    <3>2. CASE ~(bucket_count(t) = 0 \/ shifts < t.shifts)
      <4>1. r = t
        BY <3>2 DEF ToFill, shifts
      <4>2. t.shifts \in 0..initial_shifts
        BY <1>1 DEF TableType
      <4>3. bucket_count(t) = calc_num_buckets(t.shifts) /\ t.shifts =< shifts
        BY <1>1, <2>1, <3>2, <4>2 DEF Sized
      <4>4. calc_num_buckets(t.shifts) >= calc_num_buckets(shifts)
        BY <2>1, <4>2, <4>3, CountMore
      <4>5. Shaped(t)
        BY <1>1, <4>3, CountShaped
      <4>6. bucket_count(t) \in Nat \ {0, 1}
        BY <4>5, ShapedFacts
      <4> HIDE DEF r, n
      <4> QED  BY <1>1, <2>1, <2>2, <4>1, <4>3, <4>4, <4>5, <4>6
    <3> QED  BY <3>1, <3>2
  <2>7. PICK f : /\ f[0] = Begins(r, container)
                 /\ \A k \in 1..n : f[k] = ReplaceStep(f[k - 1])
                 /\ replace(t, container) = ({Ends(f[n].table)} \cup Bare(t, container))
    <3> HIDE DEF r
    <3> QED  BY <1>1, <1>3, ReplaceFunction DEF r
  <2> HIDE DEF r
  <2> DEFINE Done == {k \in 0..n : Replacing(V, X, n, r, k, f[k])}
  <2>8. 0 \in Done
    BY <1>1, <2>6, <2>7, ReplaceBegins
  <2>9. ASSUME NEW k \in 0..(n - 1), k \in Done PROVE k + 1 \in Done
    <3>1. k + 1 \in 1..n /\ k + 1 \in 0..n /\ (k + 1) - 1 = k /\ k \in Nat /\ k < n
      BY <1>1
    <3>2. f[k + 1] = ReplaceStep(f[k])
      BY <2>7, <3>1
    <3>3. Replacing(V, X, n, r, k, f[k])
      BY <2>9
    <3> HIDE DEF n, X
    <3>4. Replacing(V, X, n, r, k + 1, f[k + 1])
      BY <1>1, <2>6, <3>1, <3>2, <3>3, ReplaceTurn
    <3> QED  BY <3>1, <3>4
  <2>10. 0..n \subseteq Done
    <3> HIDE DEF Done
    <3> QED  BY <1>1, <2>8, <2>9, UpToInduction
  <2>11. Ready(V, f[n].table) /\ Holding(f[n].table, X)
    <3>1. n \in Done
      <4> HIDE DEF Done, n
      <4> QED  BY <1>1, <2>10
    <3> HIDE DEF n, X
    <3> QED  BY <1>1, <2>6, <3>1, ReplaceEnds
  <2>12. CASE e = Ends(f[n].table)
    <3>1. e.table = f[n].table /\ e.thrown = FALSE
      BY <2>12 DEF Ends
    <3> QED  BY <2>11, <3>1, ReadyLeft DEF Ended
  <2>13. CASE e \in Bare(t, container)
    <3>1. e = Throws(bare)
      BY <2>13 DEF Bare, bare, shifts
    <3>2. e.table = bare /\ e.thrown = TRUE
      BY <3>1 DEF Throws
    <3> QED  BY <2>3, <2>4, <2>5, <3>2, ThrownLeft DEF Ended
  <2> QED  BY <2>7, <2>12, <2>13
<1> QED  BY <1>2, <1>3

-----------------------------------------------------------------------------
(* HashTable: what all calls leave.                                        *)
Vals == {e.val : e \in Entries} \cup {Default}

(* What a call may leave in table and indexed.                             *)
Keeps(t, i) ==
    /\ Consistent(Vals, t) /\ i \in BOOLEAN
    /\ i /\ bucket_count(t) > 0 => Ready(Vals, t)
    /\ ~i => t.values = << >>

TableInv == Keeps(table, indexed)

LEMMA LeftKeeps == ASSUME NEW t, Left(Vals, t) PROVE Keeps(t, TRUE)
BY DEF Left, Keeps

LEMMA TableEntries ==
    /\ \A e \in Entries : e \in EntryType(Vals) /\ [e EXCEPT !.val = Default] \in EntryType(Vals)
                          /\ e.val \in Vals
    /\ \A s \in Containers \cup Lists : s \in Seq(EntryType(Vals))
    /\ Loads \subseteq LoadType /\ Counts \subseteq Nat /\ TableKeys \subseteq DOMAIN Hash
<1>1. \A e \in Entries : e \in EntryType(Vals) /\ [e EXCEPT !.val = Default] \in EntryType(Vals)
                         /\ e.val \in Vals
  BY HashTableAssumption DEF EntryType, Vals
<1>2. ASSUME NEW s \in Containers \cup Lists PROVE s \in Seq(EntryType(Vals))
  <2> DEFINE E == EntryType(Vals)
  <2>1. s \in Seq(Entries) /\ Entries \subseteq E
    BY <1>1, HashTableAssumption
  <2> HIDE DEF E
  <2>2. s \in Seq(E)
    BY ONLY <2>1
  <2> QED  BY <2>2 DEF E
<1>3. Loads \subseteq LoadType /\ Counts \subseteq Nat
  BY HashTableAssumption DEF IsLoad, LoadType
<1>4. TableKeys \subseteq DOMAIN Hash
  BY HashTableAssumption DEF TableKeys
<1> QED  BY <1>1, <1>2, <1>3, <1>4

LEMMA InsertsKeep ==
    ASSUME TableInv, NEW t, NEW entry, NEW r, Insertion(Vals, t, entry, r), Inserts(r)
    PROVE  TableInv'
<1>1. table' = r.end.table /\ indexed' = TRUE
  BY DEF Inserts, Usable, TableInv, Keeps
<1>2. Left(Vals, r.end.table)
  BY DEF Insertion
<1> QED  BY <1>1, <1>2, LeftKeeps DEF TableInv

LEMMA AssignsKeep ==
    ASSUME TableInv, NEW t, NEW entry, NEW r, Insertion(Vals, t, entry, r), ~r.end.thrown,
           NEW val \in Vals, NEW q, q = [r EXCEPT !.end.table = assign(@, r.idx, val)], Inserts(q)
    PROVE  TableInv'
<1> DEFINE w == assign(r.end.table, r.idx, val)
<1>1. table' = q.end.table /\ indexed' = TRUE
  BY DEF Inserts, Usable, TableInv, Keeps
<1>2. Ready(Vals, r.end.table) /\ r.idx \in Places(r.end.table)
  BY DEF Insertion
<1>3. Ready(Vals, w)
  BY <1>2, AssignFacts
<1>4. q.end.table = w
  <2> HIDE DEF w
  <2>1. q = [r EXCEPT !.end.table = w]
    BY DEF w
  <2>2. r = [end |-> [table |-> r.end.table, thrown |-> r.end.thrown], idx |-> r.idx, is_new |-> r.is_new]
    BY DEF Insertion
  <2> QED  BY <2>1, <2>2
<1> QED  BY <1>1, <1>3, <1>4, ReadyLeft, LeftKeeps DEF TableInv

LEMMA TabInitInv == ASSUME TabInit PROVE TableInv
<1>1. PICK n \in Counts : \E e \in Constructed(n) : ~e.thrown /\ table = e.table
  BY DEF TabInit, Made
<1>2. PICK e \in Constructed(n) : ~e.thrown /\ table = e.table
  BY <1>1
<1>3. Ended(Vals, e)
  BY TableEntries, ConstructedFacts
<1> QED  BY <1>2, <1>3, LeftKeeps DEF TabInit, TableInv, Ended

(* The insertions of one entry.                                            *)
LEMMA InsertCallsKeep ==
    ASSUME TableInv, NEW e \in Entries,
           TryEmplace(e) \/ Emplace(e) \/ InsertOrAssign(e) \/ Subscript(e)
    PROVE  TableInv'
<1>1. Usable /\ Ready(Vals, table)
  <2>1. Usable
    BY DEF TryEmplace, Emplace, InsertOrAssign, Subscript
  <2> QED  BY <2>1 DEF TableInv, Keeps, Usable
<1>2. CASE TryEmplace(e)
  <2>1. PICK r \in do_try_emplace(table, e) : Inserts(r)
    BY <1>2 DEF TryEmplace
  <2> QED  BY <1>1, <2>1, TableEntries, TryEmplaceFacts, InsertsKeep
<1>3. CASE Emplace(e)
  <2>1. PICK r \in emplace(table, e) : Inserts(r)
    BY <1>3 DEF Emplace
  <2> QED  BY <1>1, <2>1, TableEntries, EmplaceFacts, InsertsKeep
<1>4. CASE InsertOrAssign(e)
  <2>1. PICK q \in do_insert_or_assign(table, e) : Inserts(q)
    BY <1>4 DEF InsertOrAssign
  <2>2. PICK r \in do_try_emplace(table, e) :
            q = IF r.is_new THEN r ELSE [r EXCEPT !.end.table = assign(@, r.idx, e.val)]
    BY <2>1 DEF do_insert_or_assign
  <2>3. Insertion(Vals, table, e, r)
    BY <1>1, TableEntries, TryEmplaceFacts
  <2>4. CASE r.is_new
    BY <2>1, <2>2, <2>3, <2>4, InsertsKeep
  <2>5. CASE ~r.is_new
    <3>1. ~r.end.thrown /\ e.val \in Vals
      BY <2>3, <2>5, TableEntries DEF Insertion
    <3>2. q = [r EXCEPT !.end.table = assign(@, r.idx, e.val)]
      BY <2>2, <2>5
    <3> QED  BY <2>1, <2>3, <3>1, <3>2, AssignsKeep
  <2> QED  BY <2>4, <2>5
<1>5. CASE Subscript(e)
  <2> DEFINE e0 == [e EXCEPT !.val = Default]
  <2>1. PICK r \in do_try_emplace(table, e0) :
            Inserts(IF r.end.thrown THEN r ELSE [r EXCEPT !.end.table = assign(@, r.idx, e.val)])
    BY <1>5 DEF Subscript
  <2> HIDE DEF e0
  <2>2. Insertion(Vals, table, e0, r)
    BY <1>1, TableEntries, TryEmplaceFacts DEF e0
  <2>3. CASE r.end.thrown
    BY <2>1, <2>2, <2>3, InsertsKeep
  <2>4. CASE ~r.end.thrown
    <3> DEFINE q == [r EXCEPT !.end.table = assign(@, r.idx, e.val)]
    <3>1. Inserts(q) /\ e.val \in Vals
      BY <2>1, <2>4, TableEntries
    <3> HIDE DEF q
    <3> QED  BY <2>2, <2>4, <3>1, AssignsKeep DEF q
  <2> QED  BY <2>3, <2>4
<1> QED  BY <1>2, <1>3, <1>4, <1>5

LEMMA EraseCallsKeep ==
    ASSUME TableInv,
           \/ \E key \in TableKeys : EraseKey(key)
           \/ \E i \in DOMAIN table.values : EraseIt(i)
           \/ \E i, j \in DOMAIN table.values : i < j /\ EraseRange(i, j)
           \/ \E ks \in Preds : EraseIf(ks)
    PROVE  TableInv'
<1>1. Usable /\ indexed = TRUE /\ Ready(Vals, table)
  <2>1. Usable
    BY DEF EraseKey, EraseIt, EraseRange, EraseIf
  <2> QED  BY <2>1 DEF TableInv, Keeps, Usable
<1>2. /\ size(table) \in Nat /\ DOMAIN table.values = 1..size(table)
      /\ \A i \in 1..size(table) : i - 1 \in Places(table)
  <2>1. size(table) \in Nat /\ DOMAIN table.values = 1..size(table)
    BY <1>1, ValueFacts DEF Ready, Consistent
  <2> QED  BY <2>1 DEF Places
<1>3. ASSUME NEW t, Ready(Vals, t), NEW places, Erases(t, places) PROVE TableInv'
  BY <1>1, <1>3, ReadyLeft, LeftKeeps DEF Erases, TableInv
<1>4. ASSUME NEW key \in TableKeys, EraseKey(key) PROVE TableInv'
  <2> DEFINE u == do_erase_key(table, key)
  <2>1. \E places : Erases(u, places)
    BY <1>4 DEF EraseKey
  <2> HIDE DEF u
  <2>2. Ready(Vals, u)
    <3>1. key \in DOMAIN Hash
      BY TableEntries
    <3> QED  BY <1>1, <3>1, EraseKeyFacts DEF Erased, u
  <2> QED  BY <1>3, <2>1, <2>2
<1>5. ASSUME NEW i \in DOMAIN table.values, EraseIt(i) PROVE TableInv'
  <2> DEFINE u == erase_it(table, i - 1)
  <2>1. Erases(u, {i})
    BY <1>5 DEF EraseIt
  <2> HIDE DEF u
  <2>2. Ready(Vals, u)
    BY <1>1, <1>2, EraseItFacts DEF Erased, u
  <2> QED  BY <1>3, <2>1, <2>2
<1>6. ASSUME NEW i \in DOMAIN table.values, NEW j \in DOMAIN table.values, i < j, EraseRange(i, j)
      PROVE  TableInv'
  <2> DEFINE u == erase_range(table, i - 1, j)
  <2>1. Erases(u, i..j)
    BY <1>6 DEF EraseRange
  <2> HIDE DEF u
  <2>2. Ready(Vals, u)
    <3>1. i - 1 \in Nat /\ j \in Nat /\ i - 1 =< j /\ j =< size(table)
      BY <1>2, <1>6
    <3> QED  BY <1>1, <3>1, EraseRangeFacts DEF u
  <2> QED  BY <1>3, <2>1, <2>2
<1>7. ASSUME NEW gone \in Preds, EraseIf(gone) PROVE TableInv'
  <2> DEFINE u == erase_if(table, gone)
  <2>1. \E places : Erases(u, places)
    BY <1>7 DEF EraseIf
  <2> HIDE DEF u
  <2>2. Ready(Vals, u)
    BY <1>1, EraseIfFacts DEF u
  <2> QED  BY <1>3, <2>1, <2>2
<1> QED  BY <1>4, <1>5, <1>6, <1>7

LEMMA ReadCallsKeep ==
    ASSUME TableInv, UNCHANGED <<table, indexed>>
    PROVE  TableInv'
BY DEF TableInv

(* The tables that a table is assigned from, and compared with.            *)
LEMMA SourceFacts ==
    ASSUME TableInv, NEW other \in Sources
    PROVE  /\ Ready(Vals, other)
           /\ \/ other.values = << >> \/ other.values = table.values
              \/ \E n \in Counts, entries \in Lists : \E e \in Filled(n, entries) :
                     ~e.thrown /\ other = e.table
<1>1. table \in TableType(Vals) /\ (Usable => Ready(Vals, table))
  BY DEF TableInv, Keeps, Consistent, Usable
<1>2. other = MovedFrom(table) \/ other \in Fillings \/ other \in Copies
  BY DEF Sources
<1>3. CASE other = MovedFrom(table)
  BY <1>1, <1>3, MovedFromFacts
<1>4. CASE other \in Fillings
  <2>1. PICK n \in Counts, entries \in Lists : \E e \in Filled(n, entries) : ~e.thrown /\ other = e.table
    BY <1>4 DEF Fillings, Made
  <2>2. PICK e \in Filled(n, entries) : ~e.thrown /\ other = e.table
    BY <2>1
  <2>3. Ready(Vals, other)
    BY <2>2, TableEntries, FilledFacts DEF Ended
  <2> QED  BY <2>1, <2>3
<1>5. CASE other \in Copies
  <2>1. (Usable \/ table.values = << >>) /\ \E e \in Copied(table) : ~e.thrown /\ other = e.table
    BY <1>5 DEF Copies, Made
  <2> QED  BY <1>1, <2>1, CopiedFacts
<1> QED  BY <1>2, <1>3, <1>4, <1>5

(* The calls on the whole table.                                           *)
LEMMA WholeCallsKeep ==
    ASSUME TableInv,
           \/ \E n \in Counts : Reserve(n) \/ Rehash(n)
           \/ \E load \in Loads : SetLoad(load)
           \/ \E entries \in Lists : InsertRange(entries) \/ AssignList(entries)
           \/ \E n \in Counts, entries \in Lists : Construct(n, entries)
           \/ Clear
           \/ \E container \in Containers : Replace(container)
           \/ ExtractAll
           \/ CopyConstruct
           \/ \E other \in Sources : CopyAssign(other)
           \/ MoveAway
    PROVE  TableInv'
<1>1. /\ Consistent(Vals, table) /\ indexed \in BOOLEAN /\ table \in TableType(Vals) /\ Sized(table)
      /\ indexed /\ bucket_count(table) > 0 => Ready(Vals, table)
      /\ ~indexed => table.values = << >>
  BY DEF TableInv, Keeps, Consistent
<1>2. ASSUME NEW e, Ended(Vals, e), table' = e.table, indexed' = TRUE PROVE TableInv'
  BY <1>2, LeftKeeps DEF Ended, TableInv
<1>3. ASSUME NEW t, Ready(Vals, t), table' = t, indexed' = TRUE PROVE TableInv'
  BY <1>3, ReadyLeft, LeftKeeps DEF TableInv
<1>4. ASSUME NEW e, e = Throws(table) \/ e = Ends(table), table' = e.table, indexed' = indexed
      PROVE  TableInv'
  BY <1>4 DEF TableInv, Throws, Ends
<1>5. ASSUME NEW n \in Counts, Reserve(n) PROVE TableInv'
  <2>1. indexed = TRUE /\ indexed' = indexed /\ Fits(Max({n, size(table)}))
    BY <1>1, <1>5 DEF Reserve
  <2>2. PICK e \in reserve(table, n) : table' = e.table
    BY <1>5 DEF Reserve, Becomes
  <2>3. e = Throws(table) \/ e = Ends(table) \/ Ended(Vals, e)
    BY <1>1, <2>1, <2>2, TableEntries, ReserveFacts DEF Fits
  <2> QED  BY <1>2, <1>4, <2>1, <2>2, <2>3
<1>6. ASSUME NEW n \in Counts, Rehash(n) PROVE TableInv'
  <2>1. indexed = TRUE /\ indexed' = indexed /\ Fits(Max({n, size(table)}))
    BY <1>1, <1>6 DEF Rehash
  <2>2. PICK e \in rehash(table, n) : table' = e.table
    BY <1>6 DEF Rehash, Becomes
  <2>3. e = Ends(table) \/ Ended(Vals, e)
    BY <1>1, <2>1, <2>2, TableEntries, RehashFacts DEF Fits
  <2> QED  BY <1>2, <1>4, <2>1, <2>2, <2>3
<1>7. ASSUME NEW load \in Loads, SetLoad(load) PROVE TableInv'
  <2> DEFINE u == max_load_factor(table, load)
  <2>1. indexed = TRUE /\ indexed' = indexed /\ table' = u
    BY <1>1, <1>7 DEF SetLoad, Becomes, Ends
  <2> HIDE DEF u
  <2>2. /\ Consistent(Vals, u) /\ (Ready(Vals, table) => Ready(Vals, u))
        /\ bucket_count(u) = bucket_count(table)
    BY <1>1, TableEntries, LoadChange DEF u
  <2> QED  BY <1>1, <2>1, <2>2 DEF TableInv, Keeps
<1>8. ASSUME NEW entries \in Lists, InsertRange(entries) PROVE TableInv'
  <2>1. Ready(Vals, table) /\ indexed = TRUE /\ indexed' = indexed
    BY <1>1, <1>8 DEF InsertRange, Usable
  <2>2. PICK e \in insert_range(table, entries) : table' = e.table
    BY <1>8 DEF InsertRange, Becomes
  <2>3. Ended(Vals, e)
    BY <2>1, <2>2, TableEntries, InsertRangeFacts
  <2> QED  BY <1>2, <2>1, <2>2, <2>3
<1>9. ASSUME NEW entries \in Lists, AssignList(entries) PROVE TableInv'
  <2> DEFINE u == clear(table)
  <2>1. PICK e \in insert_range(u, entries) : table' = e.table
    BY <1>9 DEF AssignList
  <2>2. bucket_count(table) > 0 /\ indexed' = TRUE
    BY <1>9 DEF AssignList
  <2> HIDE DEF u
  <2>3. Ready(Vals, u)
    BY <1>1, <2>2, ClearsFacts DEF Left, u
  <2>4. Ended(Vals, e)
    BY <2>1, <2>3, TableEntries, InsertRangeFacts
  <2> QED  BY <1>2, <2>1, <2>2, <2>4
<1>10. ASSUME NEW n \in Counts, NEW entries \in Lists, Construct(n, entries) PROVE TableInv'
  <2>1. PICK e \in Filled(n, entries) :
            IF e.thrown THEN Becomes(Throws(table)) /\ UNCHANGED indexed
            ELSE Becomes(e) /\ indexed' = TRUE
    BY <1>10 DEF Construct
  <2>2. Ended(Vals, e)
    BY <2>1, TableEntries, FilledFacts
  <2>3. CASE e.thrown
    BY <1>4, <2>1, <2>3 DEF Becomes
  <2>4. CASE ~e.thrown
    BY <1>2, <2>1, <2>2, <2>4 DEF Becomes
  <2> QED  BY <2>3, <2>4
<1>11. ASSUME Clear PROVE TableInv'
  <2>1. table' = clear(table) /\ indexed' = TRUE
    BY <1>11 DEF Clear, Becomes, Ends
  <2> QED  BY <1>1, <2>1, ClearsFacts, LeftKeeps DEF TableInv
<1>12. ASSUME NEW container \in Containers, Replace(container) PROVE TableInv'
  <2>1. PICK e \in replace(table, container) : table' = e.table /\ indexed' = (indexed \/ ~e.thrown)
    BY <1>12 DEF Replace, Becomes
  <2>2. e = Throws(table) \/ (Ended(Vals, e) /\ (e.thrown => e.table.values = table.values))
    BY <1>1, <1>12, <2>1, TableEntries, ReplaceFacts DEF Replace, Fits
  <2>3. CASE e = Throws(table)
    <3>1. e.thrown = TRUE
      BY <2>3 DEF Throws
    <3> QED  BY <1>1, <1>4, <2>1, <2>3, <3>1
  <2>4. CASE Ended(Vals, e) /\ (e.thrown => e.table.values = table.values)
    <3>1. CASE e.thrown /\ ~indexed
      BY <1>1, <2>1, <2>4, <3>1 DEF TableInv, Keeps, Ended, Left
    <3>2. CASE ~e.thrown \/ indexed
      BY <1>1, <1>2, <2>1, <2>4, <3>2
    <3> QED  BY <3>1, <3>2
  <2> QED  BY <2>2, <2>3, <2>4
<1>13. ASSUME ExtractAll PROVE TableInv'
  <2> DEFINE u == [table EXCEPT !.values = << >>]
  <2>1. table' = u /\ indexed' = FALSE
    BY <1>13 DEF ExtractAll
  <2>2. u \in TableType(Vals) /\ u.values = << >> /\ Sized(u)
    BY <1>1, EmptiedFacts
  <2>3. Distinct(u)
    <3>1. size(u) = 0
      BY <2>2 DEF size
    <3> HIDE DEF u
    <3> QED  BY <2>2, <3>1, EmptyPlaces
  <2> HIDE DEF u
  <2> QED  BY <2>1, <2>2, <2>3 DEF TableInv, Keeps, Consistent
<1>14. ASSUME CopyConstruct PROVE TableInv'
  <2>1. PICK e \in Copied(table) : IF e.thrown THEN Becomes(Throws(table)) /\ UNCHANGED indexed
                                  ELSE Becomes(e) /\ indexed' = TRUE
    BY <1>14 DEF CopyConstruct
  <2>2. CASE e.thrown
    BY <1>4, <2>1, <2>2 DEF Becomes
  <2>3. CASE ~e.thrown
    <3>1. Ready(Vals, e.table)
      BY <1>1, <1>14, <2>1, <2>3, CopiedFacts DEF CopyConstruct, Usable
    <3> QED  BY <1>3, <2>1, <2>3, <3>1 DEF Becomes
  <2> QED  BY <2>2, <2>3
<1>15. ASSUME MoveAway PROVE TableInv'
  <2>1. table' = MovedFrom(table) /\ indexed' = TRUE
    BY <1>15 DEF MoveAway, Becomes, Ends
  <2> QED  BY <1>1, <1>3, <2>1, MovedFromFacts
<1>16. ASSUME NEW other \in Sources, CopyAssign(other) PROVE TableInv'
  <2>1. PICK e \in copy_assign(table, other) : table' = e.table /\ indexed' = TRUE
    BY <1>16 DEF CopyAssign
  <2>2. Ready(Vals, other)
    BY SourceFacts
  <2> QED  BY <1>1, <1>2, <2>1, <2>2, CopyAssignFacts
<1> QED  BY <1>5, <1>6, <1>7, <1>8, <1>9, <1>10, <1>11, <1>12, <1>13, <1>14, <1>15, <1>16

LEMMA TabNextInv == ASSUME TableInv, [TabNext]_tabvars PROVE TableInv'
<1>1. ASSUME \/ \E key \in TableKeys : Find(key) \/ At(key)
             \/ \E other \in Others : Compare(other)
             \/ UNCHANGED tabvars
      PROVE  TableInv'
  BY <1>1, ReadCallsKeep DEF Find, At, Finds, Compare, tabvars
<1>2. ASSUME \E e \in Entries : TryEmplace(e) \/ Emplace(e) \/ InsertOrAssign(e) \/ Subscript(e)
      PROVE  TableInv'
  BY <1>2, InsertCallsKeep
<1> QED  BY <1>1, <1>2, EraseCallsKeep, WholeCallsKeep DEF TabNext

(* Whatever the calls, their order and their failures: the index of a      *)
(* table is right, or the table has none.                                  *)
THEOREM TableInvariant == TabSpec => []TableInv
<1>1. TableInv /\ [TabNext]_tabvars => TableInv'
  BY TabNextInv
<1> QED  BY <1>1, TabInitInv, PTL DEF TabSpec

-----------------------------------------------------------------------------
LEMMA FindsHolds == ASSUME TableInv PROVE FindsExactly
<1> SUFFICES ASSUME Usable, NEW key \in TableKeys
             PROVE  LET i == do_find(table, key)
                        places == PlacesOf({key})
                    IN  IF i = end(table) THEN places = {} ELSE places = {i + 1}
  BY DEF FindsExactly
<1> DEFINE i == do_find(table, key)
<1>1. Ready(Vals, table) /\ key \in DOMAIN Hash
  BY TableEntries DEF TableInv, Keeps, Usable
<1>2. /\ table \in TableType(Vals) /\ Shaped(table) /\ Indexed(table, Places(table)) /\ Distinct(table)
      /\ size(table) \in Nat /\ DOMAIN table.values = 1..size(table)
  BY <1>1, ReadyShaped, ValueFacts DEF Ready, Consistent
<1>3. PlacesOf({key}) = {j \in 1..size(table) : table.values[j].key = key}
  BY <1>2 DEF PlacesOf
<1>4. CASE \A j \in Places(table) : key_at(table, j) # key
  <2>1. i = end(table)
    BY <1>1, <1>2, <1>4, AbsentFacts
  <2>2. ASSUME NEW j \in 1..size(table), table.values[j].key = key PROVE FALSE
    <3>1. j - 1 \in Places(table) /\ (j - 1) + 1 = j
      BY <1>2 DEF Places
    <3> QED  BY <1>4, <2>2, <3>1 DEF key_at
  <2> QED  BY <1>3, <2>1, <2>2
<1>5. CASE \E j \in Places(table) : key_at(table, j) = key
  <2>1. PICK j \in Places(table) : key_at(table, j) = key
    BY <1>5
  <2>2. j + 1 \in 1..size(table) /\ j \in Nat /\ j # size(table)
    BY <1>2, <2>1 DEF Places
  <2>3. table.values # << >>
    BY <1>2, <2>2 DEF size
  <2>4. i = j
    BY <1>2, <2>1, <2>3, PresentFacts
  <2>5. i # end(table)
    BY <2>2, <2>4 DEF end
  <2>6. \A k \in 1..size(table) : table.values[k].key = key <=> k = j + 1
    <3> TAKE k \in 1..size(table)
    <3>1. k - 1 \in Places(table) /\ (k - 1) + 1 = k
      BY <1>2 DEF Places
    <3>2. k - 1 = j <=> k = j + 1
      BY <2>2
    <3>3. key_at(table, k - 1) = table.values[k].key
      BY <3>1 DEF key_at
    <3>4. key_at(table, k - 1) = key <=> k - 1 = j
      BY <1>2, <2>1, <3>1 DEF Distinct
    <3> QED  BY <3>2, <3>3, <3>4
  <2>7. PlacesOf({key}) = {j + 1}
    BY <1>3, <2>2, <2>6
  <2> QED  BY <2>4, <2>5, <2>7
<1> QED  BY <1>4, <1>5

LEMMA SoundHolds == ASSUME TableInv PROVE IndexSound
<1> SUFFICES ASSUME Usable PROVE IndexSound
  BY DEF IndexSound
<1> DEFINE n == bucket_count(table)
           taken == {b \in 0..(n - 1) : at(table, b) # EmptyBucket}
<1>1. Ready(Vals, table)
  BY DEF TableInv, Keeps, Usable
<1>2. /\ Shaped(table) /\ Indexed(table, Places(table))
      /\ n \in Nat \ {0, 1} /\ size(table) \in Nat /\ Slots(table) = 0..(n - 1)
  BY <1>1, ReadyShaped, ShapedFacts, ValueFacts DEF Ready, Consistent, Slots
<1>3. \A b \in taken :
          /\ b \in Slots(table) /\ Dist(table, b) # 0
          /\ ValueAt(table, b) \in Places(table)
          /\ Dist(table, b) = Wanted(key_at(table, ValueAt(table, b)),
                                     After(table, HomeOf(table, ValueAt(table, b)), b))
          /\ HomeOf(table, ValueAt(table, b)) \in Slots(table)
          /\ After(table, HomeOf(table, ValueAt(table, b)), b) > 0 <=> Dist(table, b) >= 2 * DistInc
  BY <1>2, PlacedFacts
<1>4. \A b \in Slots(table) : Dist(table, b) # 0 => b \in taken
  BY <1>2, PlacedFacts
<1> HIDE DEF n, taken
<1>5. {ValueAt(table, b) : b \in taken} = Places(table)
  <2>1. \A i \in Places(table) : \E b \in Slots(table) : Dist(table, b) # 0 /\ ValueAt(table, b) = i
    BY <1>2 DEF Indexed, OneEach
  <2> QED  BY <1>3, <1>4, <2>1
<1>6. Cardinality(taken) = size(table)
  <2> DEFINE f == [i \in Places(table) |-> CHOOSE b \in taken : ValueAt(table, b) = i]
  <2>1. \A i \in Places(table) : f[i] \in taken /\ ValueAt(table, f[i]) = i
    BY <1>5
  <2>2. \A b, c \in taken : ValueAt(table, b) = ValueAt(table, c) => b = c
    BY <1>2, <1>3 DEF Indexed, OneEach
  <2>3. f \in Bijection(Places(table), taken)
    <3>1. f \in [Places(table) -> taken]
      BY <2>1
    <3>2. \A a, b \in Places(table) : f[a] = f[b] => a = b
      BY <2>1
    <3>3. \A b \in taken : \E a \in Places(table) : f[a] = b
      <4> TAKE b \in taken
      <4>1. ValueAt(table, b) \in Places(table)
        BY <1>3
      <4>2. f[ValueAt(table, b)] \in taken /\ ValueAt(table, f[ValueAt(table, b)]) = ValueAt(table, b)
        BY <2>1, <4>1
      <4>3. f[ValueAt(table, b)] = b
        BY <2>2, <4>2
      <4> QED  BY <4>1, <4>3
    <3> HIDE DEF f
    <3> QED  BY <3>1, <3>2, <3>3 DEF Bijection, Injection, Surjection, IsInjective
  <2>4. ExistsBijection(Places(table), taken)
    <3> HIDE DEF f
    <3> QED  BY <2>3 DEF ExistsBijection
  <2>5. IsFiniteSet(Places(table)) /\ Cardinality(Places(table)) = size(table)
    <3>1. size(table) - 1 \in Int /\ 0 \in Int
      BY <1>2
    <3>2. /\ IsFiniteSet(0..(size(table) - 1))
          /\ Cardinality(0..(size(table) - 1)) =
                 IF 0 > size(table) - 1 THEN 0 ELSE (size(table) - 1) - 0 + 1
      BY <3>1, FS_Interval
    <3> QED  BY <1>2, <3>2 DEF Places
  <2> QED  BY <2>4, <2>5, FS_Bijection
<1>7. ASSUME NEW b \in taken
      PROVE  LET i == at(table, b).value_idx
                 d == (b - Home(i)) % bucket_count(table)
                 before == at(table, next(table, b, bucket_count(table) - 1))
             IN  /\ at(table, b).dist_and_fingerprint = Wanted(key_at(table, i), d)
                 /\ d > 0 => before.dist_and_fingerprint + DistInc
                                 >= at(table, b).dist_and_fingerprint
  <2> DEFINE i == at(table, b).value_idx
  <2>1. i = ValueAt(table, b) /\ Dist(table, b) = at(table, b).dist_and_fingerprint
        /\ Home(i) = HomeOf(table, i)
    BY DEF ValueAt, Dist, Home, HomeOf
  <2>2. (b - Home(i)) % bucket_count(table) = After(table, HomeOf(table, i), b)
    <3>1. HomeOf(table, i) \in Slots(table) /\ b \in Slots(table) /\ bucket_count(table) \in Nat
      BY <1>2, <1>3, <2>1 DEF n
    <3> HIDE DEF i
    <3> QED  BY <2>1, <3>1, AfterIs
  <2>3. next(table, b, bucket_count(table) - 1) = Prev(table, b)
    <3>1. b \in Slots(table) /\ bucket_count(table) \in Nat /\ bucket_count(table) - 1 \in 0..bucket_count(table)
      BY <1>2, <1>3 DEF n
    <3>2. next(table, b, bucket_count(table) - 1) = Along(table, b, bucket_count(table) - 1)
      BY <3>1, NextAlong
    <3>3. bucket_count(table) - 1 \in Slots(table)
      BY <1>2 DEF n
    <3> QED  BY <3>1, <3>2, <3>3, AlongFacts
  <2>4. Dist(table, b) >= 2 * DistInc => Dist(table, Prev(table, b)) + DistInc >= Dist(table, b)
    BY <1>2, <1>3 DEF Indexed, NoneAhead
  <2> HIDE DEF i
  <2>5. /\ at(table, b).dist_and_fingerprint = Wanted(key_at(table, i), (b - Home(i)) % bucket_count(table))
        /\ (b - Home(i)) % bucket_count(table) > 0 =>
               at(table, next(table, b, bucket_count(table) - 1)).dist_and_fingerprint + DistInc
                   >= at(table, b).dist_and_fingerprint
    BY <1>3, <2>1, <2>2, <2>3, <2>4 DEF Dist
  <2> QED  BY <2>5 DEF i
<1>8. {at(table, b).value_idx : b \in taken} = 0..(size(table) - 1)
  BY <1>5 DEF ValueAt, Places
<1> QED  BY <1>6, <1>7, <1>8 DEF IndexSound, taken, n

LEMMA RoomHolds == ASSUME TableInv PROVE RoomLeft
<1> SUFFICES ASSUME Usable, NEW entry \in Entries, ~is_full(emplace_back(table, entry))
             PROVE  \E b \in DOMAIN table.buckets : table.buckets[b] = EmptyBucket
  BY DEF RoomLeft
<1> DEFINE u == emplace_back(table, entry)
           n == bucket_count(table)
<1>1. Ready(Vals, table) /\ table \in TableType(Vals) /\ entry \in EntryType(Vals) /\ Sized(table)
  BY TableEntries DEF TableInv, Keeps, Usable, Ready, Consistent
<1>2. /\ Shaped(table) /\ Indexed(table, Places(table))
      /\ n \in Nat \ {0, 1} /\ DOMAIN table.buckets = 1..n /\ Slots(table) = 0..(n - 1)
  BY <1>1, ReadyShaped, ShapedFacts DEF Ready, Slots
<1>3. /\ size(u) = size(table) + 1 /\ size(table) \in Nat
      /\ u.max_bucket_capacity = table.max_bucket_capacity
  BY <1>1, EmplaceBackFacts
<1>4. size(table) < n
  <2>1. size(table) + 1 =< table.max_bucket_capacity /\ table.max_bucket_capacity =< n
        /\ table.max_bucket_capacity \in Nat
    BY <1>1, <1>2, <1>3 DEF is_full, Sized, TableType
  <2> QED  BY <1>2, <1>3, <2>1
<1>5. Indexed(table, 0..(size(table) - 1))
  BY <1>2 DEF Places
<1> HIDE DEF n
<1>6. PICK e \in Slots(table) : at(table, e) = EmptyBucket
  BY <1>2, <1>3, <1>4, <1>5, EmptyLeft DEF n
<1>7. e + 1 \in 1..n
  BY <1>2, <1>6
<1> QED  BY <1>2, <1>6, <1>7 DEF at

(* A search finds every key at its place, and no other key.                *)
THEOREM TableFindsExactly == TabSpec => []FindsExactly
BY TableInvariant, FindsHolds, PTL

(* Every value is in one bucket, as far from its home as it says, and no   *)
(* bucket is ahead of a poorer one.                                        *)
THEOREM TableIndexSound == TabSpec => []IndexSound
BY TableInvariant, SoundHolds, PTL

(* The loop of place_and_shift_up ends: it finds an empty bucket.          *)
THEOREM TableRoomLeft == TabSpec => []RoomLeft
BY TableInvariant, RoomHolds, PTL

-----------------------------------------------------------------------------
(* A table as a map: where a key has its place, the value there.           *)
LEMMA AsMapFacts ==
    ASSUME NEW V, NEW t, Ready(V, t)
    PROVE  /\ DOMAIN AsMap(t) = {key_at(t, i) : i \in Places(t)}
           /\ \A i \in Places(t) : AsMap(t)[key_at(t, i)] = t.values[i + 1].val
           /\ AsMap(t) = [key \in DOMAIN AsMap(t) |-> AsMap(t)[key]]
<1> DEFINE at_key(key) == CHOOSE j \in DOMAIN t.values : t.values[j].key = key
           keys_of == {t.values[j].key : j \in DOMAIN t.values}
<1>1. AsMap(t) = [key \in keys_of |-> t.values[at_key(key)].val]
  BY DEF AsMap, MapOf
<1>2. /\ Distinct(t) /\ size(t) \in Nat /\ DOMAIN t.values = 1..size(t)
      /\ \A i \in Places(t) : i + 1 \in 1..size(t)
  BY ValueFacts DEF Ready, Consistent
<1>3. \A j \in 1..size(t) : j - 1 \in Places(t) /\ (j - 1) + 1 = j
  BY <1>2 DEF Places
<1>4. keys_of = {key_at(t, i) : i \in Places(t)}
  <2>1. ASSUME NEW j \in 1..size(t) PROVE t.values[j].key \in {key_at(t, i) : i \in Places(t)}
    BY <1>3 DEF key_at
  <2>2. ASSUME NEW i \in Places(t) PROVE key_at(t, i) \in keys_of
    BY <1>2 DEF key_at
  <2> QED  BY <1>2, <2>1, <2>2
<1>5. ASSUME NEW i \in Places(t) PROVE at_key(key_at(t, i)) = i + 1
  <2> DEFINE j == at_key(key_at(t, i))
  <2>1. j \in DOMAIN t.values /\ t.values[j].key = key_at(t, i)
    <3>1. i + 1 \in DOMAIN t.values /\ t.values[i + 1].key = key_at(t, i)
      BY <1>2 DEF key_at
    <3> QED  BY <3>1
  <2> HIDE DEF j
  <2>2. j - 1 \in Places(t) /\ (j - 1) + 1 = j
    BY <1>2, <1>3, <2>1
  <2>3. key_at(t, j - 1) = key_at(t, i)
    BY <2>1, <2>2 DEF key_at
  <2>4. j - 1 = i
    BY <1>2, <2>2, <2>3 DEF Distinct
  <2> QED  BY <2>2, <2>4 DEF j
<1> HIDE DEF at_key, keys_of
<1>6. ASSUME NEW i \in Places(t) PROVE AsMap(t)[key_at(t, i)] = t.values[i + 1].val
  <2>1. key_at(t, i) \in keys_of
    BY <1>4
  <2> QED  BY <1>1, <1>5, <2>1
<1> QED  BY <1>1, <1>4, <1>6

(* u has the values of t, and one more at its end.                         *)
Longer(t, u, key, val) ==
    /\ \A i \in Places(t) : key_at(t, i) # key
    /\ size(u) = size(t) + 1
    /\ \A i \in Places(t) : u.values[i + 1] = t.values[i + 1]
    /\ key_at(u, size(t)) = key /\ u.values[size(t) + 1].val = val

(* A table with one more value at its end is the map with one more key.    *)
LEMMA LongerMap ==
    ASSUME NEW V, NEW t, Ready(V, t), NEW u, Ready(V, u), NEW key, NEW val, Longer(t, u, key, val)
    PROVE  AsMap(u) = Abstract!Put(AsMap(t), key, val)
<1> DEFINE D == DOMAIN AsMap(t)
<1>1. /\ size(t) \in Nat
      /\ Places(u) = Places(t) \cup {size(t)}
  <2>1. size(t) \in Nat
    BY ValueFacts DEF Ready, Consistent
  <2> QED  BY <2>1 DEF Longer, Places
<1>2. \A i \in Places(t) : key_at(u, i) = key_at(t, i)
  BY DEF Longer, key_at
<1>3. D = {key_at(t, i) : i \in Places(t)}
  BY AsMapFacts
<1>4. DOMAIN AsMap(u) = {key} \cup D
  <2>1. DOMAIN AsMap(u) = {key_at(u, i) : i \in Places(u)}
    BY AsMapFacts
  <2> QED  BY <1>1, <1>2, <1>3, <2>1 DEF Longer
<1>5. ASSUME NEW k \in {key} \cup D PROVE AsMap(u)[k] = IF k = key THEN val ELSE AsMap(t)[k]
  <2>1. CASE k = key
    <3>1. AsMap(u)[key_at(u, size(t))] = u.values[size(t) + 1].val
      BY <1>1, AsMapFacts
    <3> QED  BY <2>1, <3>1 DEF Longer
  <2>2. CASE k # key
    <3>1. PICK i \in Places(t) : k = key_at(t, i)
      BY <1>3, <2>2
    <3>2. AsMap(t)[k] = t.values[i + 1].val
      BY <3>1, AsMapFacts
    <3>3. AsMap(u)[k] = u.values[i + 1].val
      BY <1>1, <1>2, <3>1, AsMapFacts
    <3> QED  BY <2>2, <3>2, <3>3 DEF Longer
  <2> QED  BY <2>1, <2>2
<1>6. AsMap(u) = [k \in DOMAIN AsMap(u) |-> AsMap(u)[k]]
  BY AsMapFacts
<1> HIDE DEF D
<1>7. AsMap(u) = [k \in {key} \cup D |-> AsMap(u)[k]]
  BY <1>4, <1>6
<1>8. AsMap(u) = [k \in {key} \cup D |-> IF k = key THEN val ELSE AsMap(t)[k]]
  BY <1>5, <1>7
<1> QED  BY <1>8 DEF D, Abstract!Put

-----------------------------------------------------------------------------
(* A search leads to the place of a key, or to the end.                    *)
LEMMA FindFacts ==
    ASSUME NEW V, NEW t, Ready(V, t), NEW key \in DOMAIN Hash, NEW i, i = do_find(t, key)
    PROVE  IF i = end(t) THEN key \notin DOMAIN AsMap(t)
           ELSE key \in DOMAIN AsMap(t) /\ AsMap(t)[key] = IndexAt(t, i)
<1>1. /\ Shaped(t) /\ Indexed(t, Places(t))
      /\ size(t) \in Nat
      /\ DOMAIN AsMap(t) = {key_at(t, j) : j \in Places(t)}
      /\ \A j \in Places(t) : AsMap(t)[key_at(t, j)] = t.values[j + 1].val
  <2>1. Shaped(t) /\ Indexed(t, Places(t)) /\ size(t) \in Nat
    BY ReadyShaped, ValueFacts DEF Ready, Consistent
  <2> QED  BY <2>1, AsMapFacts
<1>2. CASE \A j \in Places(t) : key_at(t, j) # key
  <2>1. i = end(t)
    BY <1>1, <1>2, AbsentFacts
  <2> QED  BY <1>1, <1>2, <2>1 DEF Longer, key_at
<1>3. CASE \E j \in Places(t) : key_at(t, j) = key
  <2>1. PICK j \in Places(t) : key_at(t, j) = key
    BY <1>3
  <2>2. j \in Nat /\ j < size(t)
    BY <1>1, <2>1 DEF Places
  <2>3. t.values # << >>
    BY <1>1, <2>2 DEF size
  <2>4. i = j
    BY <1>1, <2>1, <2>3, PresentFacts
  <2>5. i # end(t)
    BY <1>1, <2>2, <2>4 DEF end
  <2> QED  BY <1>1, <2>1, <2>4, <2>5 DEF IndexAt
<1> QED  BY <1>2, <1>3

(* What a successful insertion makes of a table and its map.               *)
Mapped(V, t, entry, r) ==
    /\ Ready(V, r.end.table) /\ r.idx \in Places(r.end.table)
    /\ IndexAt(r.end.table, r.idx) = AsMap(r.end.table)[entry.key]
    /\ IF r.is_new
       THEN /\ entry.key \notin DOMAIN AsMap(t)
            /\ r.idx = size(t) /\ Longer(t, r.end.table, entry.key, entry.val)
            /\ AsMap(r.end.table) = Abstract!Put(AsMap(t), entry.key, entry.val)
       ELSE entry.key \in DOMAIN AsMap(t) /\ r.end.table = t

LEMMA InsertionMap ==
    ASSUME NEW V, NEW t, Ready(V, t), NEW entry \in EntryType(V),
           NEW r \in do_try_emplace(t, entry), ~r.end.thrown
    PROVE  Mapped(V, t, entry, r)
<1> DEFINE u == r.end.table
           key == entry.key
<1>1. Insertion(V, t, entry, r)
  BY TryEmplaceFacts
<1>2. /\ Ready(V, u) /\ r.idx \in Places(u) /\ key_at(u, r.idx) = key
      /\ \/ ~r.is_new /\ u = t
         \/ /\ r.is_new /\ r.idx = size(t)
            /\ \A i \in Places(t) : key_at(t, i) # key
            /\ u.values = Append(t.values, entry)
  BY <1>1 DEF Insertion
<1>3. /\ size(t) \in Nat /\ \A i \in Places(t) : i + 1 \in 1..size(t)
      /\ DOMAIN AsMap(t) = {key_at(t, i) : i \in Places(t)}
  <2>1. size(t) \in Nat /\ \A i \in Places(t) : i + 1 \in 1..size(t)
    BY ValueFacts DEF Ready, Consistent
  <2> QED  BY <2>1, AsMapFacts
<1>4. AsMap(u)[key] = IndexAt(u, r.idx)
  <2> HIDE DEF u
  <2>1. AsMap(u)[key_at(u, r.idx)] = u.values[r.idx + 1].val
    BY <1>2, AsMapFacts
  <2> QED  BY <1>2, <2>1 DEF IndexAt
<1>5. CASE r.is_new
  <2>1. /\ r.idx = size(t) /\ u.values = Append(t.values, entry)
        /\ \A i \in Places(t) : key_at(t, i) # key
    BY <1>2, <1>5
  <2>2. /\ size(u) = size(t) + 1
        /\ \A i \in 1..size(t) : u.values[i] = t.values[i]
        /\ u.values[size(t) + 1] = entry
    <3> DEFINE E == [key : DOMAIN Hash, val : V]
    <3>1. t.values \in Seq(E) /\ entry \in E
      BY DEF Ready, Consistent, TableType, EntryType
    <3> HIDE DEF E, u
    <3> QED  BY <2>1, <3>1, AppendProperties DEF size
  <2>3. \A i \in Places(t) : u.values[i + 1] = t.values[i + 1]
    BY <1>3, <2>2
  <2>4. key_at(u, size(t)) = key /\ u.values[size(t) + 1].val = entry.val
    BY <2>2 DEF key_at
  <2>5. Longer(t, u, key, entry.val)
    BY <2>1, <2>2, <2>3, <2>4 DEF Longer
  <2>6. AsMap(u) = Abstract!Put(AsMap(t), key, entry.val)
    <3> HIDE DEF u, key
    <3> QED  BY <1>2, <2>5, LongerMap
  <2>7. key \notin DOMAIN AsMap(t)
    BY <1>3, <2>1
  <2> QED  BY <1>2, <1>4, <1>5, <2>1, <2>5, <2>6, <2>7 DEF Mapped
<1>6. CASE ~r.is_new
  <2>1. u = t
    BY <1>2, <1>6
  <2>2. key \in DOMAIN AsMap(t)
    BY <1>2, <1>3, <2>1
  <2> QED  BY <1>2, <1>4, <1>6, <2>1, <2>2 DEF Mapped
<1> QED  BY <1>5, <1>6

(* The value of the last insertion is set afterwards.                      *)
LEMMA AssignedMap ==
    ASSUME NEW V, NEW t, Ready(V, t), NEW entry \in EntryType(V),
           NEW r \in do_try_emplace(t, entry), ~r.end.thrown, r.is_new, NEW val \in V,
           NEW u, u = assign(r.end.table, r.idx, val)
    PROVE  /\ Ready(V, u)
           /\ AsMap(u) = Abstract!Put(AsMap(t), entry.key, val)
<1> DEFINE w == r.end.table
           n == size(t)
<1>1. /\ Ready(V, w) /\ n \in Places(w) /\ r.idx = n /\ size(w) = n + 1
      /\ Longer(t, w, entry.key, entry.val)
  BY InsertionMap DEF Mapped, Longer
<1>2. /\ n \in Nat /\ DOMAIN w.values = 1..(n + 1) /\ w.values[n + 1] \in [key : DOMAIN Hash, val : V]
      /\ \A i \in Places(t) : i + 1 \in 1..n
  <2> HIDE DEF w
  <2>1. n \in Nat /\ \A i \in Places(t) : i + 1 \in 1..n
    BY ValueFacts DEF Ready, Consistent
  <2>2. DOMAIN w.values = 1..(n + 1) /\ w.values[n + 1] \in [key : DOMAIN Hash, val : V]
    BY <1>1, ValueFacts DEF Ready, Consistent
  <2> QED  BY <2>1, <2>2
<1>3. Ready(V, u)
  <2> HIDE DEF w
  <2> QED  BY <1>1, AssignFacts DEF w
<1>4. u = [w EXCEPT !.values = [w.values EXCEPT ![n + 1] = [w.values[n + 1] EXCEPT !.val = val]]]
  <2> HIDE DEF w, n
  <2> QED  BY <1>1 DEF assign, w
<1>5. u.values = [w.values EXCEPT ![n + 1] = [w.values[n + 1] EXCEPT !.val = val]]
  <2>1. w \in TableType(V)
    BY <1>1 DEF Ready, Consistent
  <2> HIDE DEF w
  <2> QED  BY <1>4, <2>1 DEF TableType
<1> HIDE DEF w, n
<1>6. \A i \in 1..(n + 1) : u.values[i] = IF i = n + 1 THEN [w.values[n + 1] EXCEPT !.val = val]
                                          ELSE w.values[i]
  BY <1>2, <1>5
<1>7. u.values[n + 1].key = entry.key /\ u.values[n + 1].val = val
  <2>1. u.values[n + 1] = [w.values[n + 1] EXCEPT !.val = val]
    BY <1>2, <1>6
  <2> QED  BY <1>1, <1>2, <2>1 DEF Longer, key_at
<1>8. \A i \in Places(t) : u.values[i + 1] = t.values[i + 1]
  <2> TAKE i \in Places(t)
  <2>1. i + 1 \in 1..(n + 1) /\ i + 1 # n + 1
    BY <1>2
  <2> QED  BY <1>1, <1>6, <2>1 DEF Longer
<1>9. size(u) = n + 1
  <2>1. DOMAIN u.values = 1..(n + 1)
    BY <1>2, <1>5
  <2>2. u.values \in Seq([key : DOMAIN Hash, val : V])
    BY <1>3 DEF Ready, Consistent, TableType
  <2>3. Len(u.values) \in Nat /\ DOMAIN u.values = 1..Len(u.values)
    BY <2>2, LenProperties
  <2> QED  BY <1>2, <2>1, <2>3 DEF size
<1>10. key_at(u, n) = entry.key
  BY <1>7 DEF key_at
<1>11. Longer(t, u, entry.key, val)
  BY <1>1, <1>7, <1>8, <1>9, <1>10 DEF Longer, n
<1> QED  BY <1>3, <1>11, LongerMap

-----------------------------------------------------------------------------
(* The strings: an entry of strtab reads characters in a block, or its own.*)
StrEntry == [owned : {TRUE}, view : ViewType] \cup [owned : {FALSE}, chars : Seq(Nat)]

Holds(bs, e)  == e.owned => Inside(bs, e.view)
TextAt(bs, e) == IF e.owned THEN CharsAt(bs, e.view) ELSE e.chars
Texts(bs, s)  == [i \in 1..Len(s) |-> TextAt(bs, s[i])]

StrInv ==
    /\ StoreInv
    /\ strtab \in Seq(StrEntry) /\ \A i \in 1..Len(strtab) : Holds(blocks, strtab[i])
    /\ Ready(Int, lookup) /\ Ready(Int, cstr_lookup)

(* Every entry there may be reads what it did before.                      *)
Kept ==
    /\ StoreInv'
    /\ \A e \in StrEntry :
           Holds(blocks, e) => Holds(blocks', e) /\ TextAt(blocks', e) = TextAt(blocks, e)

LEMMA SameKept == ASSUME StoreInv, UNCHANGED blocks PROVE Kept
BY DEF Kept, StoreInv

LEMMA ViewsKept ==
    ASSUME StoreInv',
           \A v \in ViewType : Inside(blocks, v) =>
               Inside(blocks', v) /\ CharsAt(blocks', v) = CharsAt(blocks, v)
    PROVE  Kept
<1> SUFFICES ASSUME NEW e \in StrEntry, Holds(blocks, e)
             PROVE  Holds(blocks', e) /\ TextAt(blocks', e) = TextAt(blocks, e)
  BY DEF Kept
<1>1. CASE e.owned
  <2>1. e.view \in ViewType
    BY <1>1 DEF StrEntry
  <2> QED  BY <1>1, <2>1 DEF Holds, TextAt
<1>2. CASE ~e.owned
  BY <1>2 DEF Holds, TextAt
<1> QED  BY <1>1, <1>2

LEMMA GrownKept == ASSUME StoreInv, Grown(blocks') PROVE Kept
<1>1. StoreInv'
  BY DEF StoreInv, Grown
<1>2. Len(blocks) \in Nat /\ Len(blocks') \in Nat
  BY LenProperties DEF StoreInv, Grown
<1>3. ASSUME NEW v \in ViewType, Inside(blocks, v)
      PROVE  Inside(blocks', v) /\ CharsAt(blocks', v) = CharsAt(blocks, v)
  <2>1. CASE v = NullView
    BY <2>1 DEF Inside, CharsAt
  <2>2. CASE v # NullView
    <3>1. v.block \in 1..Len(blocks) /\ v.block \in 1..Len(blocks') /\ blocks'[v.block] = blocks[v.block]
      BY <1>2, <1>3, <2>2 DEF Inside, Grown
    <3> QED  BY <1>3, <2>2, <3>1 DEF Inside, CharsAt
  <2> QED  BY <2>1, <2>2
<1> QED  BY <1>1, <1>3, ViewsKept

(* What is added reads as it should, a null view like an empty one.        *)
LEMMA AddedKept ==
    ASSUME StoreInv, NEW sv \in Seq(Nat) \cup {NullSv}, NEW a \in Added(sv), blocks' = a.blocks
    PROVE  /\ Kept
           /\ Owned(a.view) \in StrEntry /\ Holds(blocks', Owned(a.view))
           /\ TextAt(blocks', Owned(a.view)) = Content(sv)
<1>1. Owned(a.view).owned = TRUE /\ Owned(a.view).view = a.view
      /\ (a.view \in ViewType => Owned(a.view) \in StrEntry)
  BY DEF Owned, StrEntry
<1>2. CASE sv \in Seq(Nat)
  <2>1. /\ StoreInv'
        /\ a.view \in ViewType /\ Inside(blocks', a.view) /\ CharsAt(blocks', a.view) = sv
        /\ \A v \in ViewType : Inside(blocks, v) =>
               Inside(blocks', v) /\ CharsAt(blocks', v) = CharsAt(blocks, v)
    BY <1>2, AddedFacts
  <2>2. Kept
    BY <2>1, ViewsKept
  <2>3. Content(sv) = sv
    BY <1>2, CharsAreNoNull DEF Content
  <2> QED  BY <1>1, <2>1, <2>2, <2>3 DEF Holds, TextAt
<1>3. CASE sv = NullSv
  <2> DEFINE bs == IF blocks = << >> THEN <<NewBlock(BlockSize)>> ELSE blocks
             n == Max({SvSize(sv), BlockSize})
             longer == Append(bs, NewBlock(n))
  <2>1. BlockSize \in Nat /\ n \in Nat
    BY <1>3, SvStoreAssumption, MaxIsAbove DEF SvSize
  <2>2. Grown(blocks)
    <3>1. Len(blocks) \in Nat
      BY LenProperties DEF StoreInv
    <3> QED  BY <3>1 DEF Grown, StoreInv
  <2>3. Grown(bs)
    <3>1. CASE blocks = << >>
      <4>1. bs = Append(blocks, NewBlock(BlockSize))
        BY <3>1
      <4> QED  BY <2>1, <2>2, <4>1, AppendGrown
    <3> QED  BY <2>2, <3>1
  <2> HIDE DEF bs, n
  <2>4. Grown(longer)
    BY <2>1, <2>3, AppendGrown
  <2>5. PICK i \in Tops(bs) :
            a = IF has_space_for(bs[i], sv) THEN AddUnsafe(bs, i, sv)
                                            ELSE AddUnsafe(longer, Len(longer), sv)
    BY DEF Added, bs, n
  <2>6. (a.blocks = bs \/ a.blocks = longer) /\ a.view = NullView
    BY <1>3, <2>5 DEF AddUnsafe
  <2>7. Kept
    BY <2>3, <2>4, <2>6, GrownKept
  <2>8. a.view \in ViewType /\ Inside(blocks', a.view) /\ CharsAt(blocks', a.view) = << >>
    BY <2>6 DEF NullView, View, ViewType, Inside, CharsAt
  <2> QED  BY <1>1, <1>3, <2>7, <2>8 DEF Holds, TextAt, Content
<1> QED  BY <1>2, <1>3

(* What insert_static makes of the table and of its map.                   *)
LEMMA StaticFacts ==
    ASSUME StrInv, Kept, NEW key \in Seq(Nat), key \in DOMAIN Hash, NEW e \in StrEntry,
           Holds(blocks', e), TextAt(blocks', e) = key, insert_static(key, e)
    PROVE  /\ Ready(Int, lookup')
           /\ strtab' \in Seq(StrEntry) /\ \A i \in 1..Len(strtab') : Holds(blocks', strtab'[i])
           /\ index' = AsMap(lookup')[key] /\ index' \in Int
           /\ IF key \in DOMAIN AsMap(lookup)
              THEN lookup' = lookup /\ Texts(blocks', strtab') = Texts(blocks, strtab)
              ELSE /\ AsMap(lookup') = Abstract!Put(AsMap(lookup), key, Len(strtab))
                   /\ Texts(blocks', strtab') = Append(Texts(blocks, strtab), key)
<1> DEFINE n == Len(strtab)
           entry == [key |-> key, val |-> n]
<1>1. /\ strtab \in Seq(StrEntry) /\ n \in Nat /\ Ready(Int, lookup)
      /\ \A i \in 1..n : strtab[i] \in StrEntry /\ Holds(blocks, strtab[i])
  <2>1. strtab \in Seq(StrEntry) /\ Ready(Int, lookup) /\ \A i \in 1..n : Holds(blocks, strtab[i])
    BY DEF StrInv
  <2> QED  BY <2>1, LenProperties, ElementOfSeq
<1>2. entry \in EntryType(Int)
  BY <1>1 DEF EntryType
<1>3. PICK r \in Returned(do_try_emplace(lookup, entry)) :
          /\ lookup' = r.end.table
          /\ strtab' = IF r.is_new THEN Append(strtab, e) ELSE strtab
          /\ index' = IndexAt(lookup', r.idx)
  BY DEF insert_static
<1>4. r \in do_try_emplace(lookup, entry) /\ ~r.end.thrown
  BY <1>3 DEF Returned
<1>5. Mapped(Int, lookup, entry, r)
  BY <1>1, <1>2, <1>4, InsertionMap
<1>6. entry.key = key /\ entry.val = n
  OBVIOUS
<1> HIDE DEF entry
<1>7. Ready(Int, lookup') /\ index' = AsMap(lookup')[key] /\ r.idx \in Places(lookup')
  BY <1>3, <1>5, <1>6 DEF Mapped
<1>8. index' \in Int
  <2> DEFINE t == lookup'
  <2>1. t.values[r.idx + 1] \in [key : DOMAIN Hash, val : Int]
    <3>1. Ready(Int, t) /\ r.idx \in Places(t)
      BY <1>7
    <3> HIDE DEF t
    <3> QED  BY <3>1, ValueFacts DEF Ready, Consistent
  <2> QED  BY <1>3, <2>1 DEF IndexAt
<1>9. \A i \in 1..n : Holds(blocks', strtab[i]) /\ TextAt(blocks', strtab[i]) = TextAt(blocks, strtab[i])
  BY <1>1 DEF Kept
<1>10. CASE r.is_new
  <2>1. key \notin DOMAIN AsMap(lookup) /\ AsMap(lookup') = Abstract!Put(AsMap(lookup), key, n)
    BY <1>3, <1>5, <1>6, <1>10 DEF Mapped
  <2>2. /\ strtab' \in Seq(StrEntry) /\ Len(strtab') = n + 1
        /\ \A i \in 1..n : strtab'[i] = strtab[i]
        /\ strtab'[n + 1] = e
    BY <1>1, <1>3, <1>10, AppendProperties
  <2>3. \A i \in 1..(n + 1) : Holds(blocks', strtab'[i])
    BY <1>1, <1>9, <2>2
  <2>4. Texts(blocks', strtab') = Append(Texts(blocks, strtab), key)
    <3> DEFINE before == Texts(blocks, strtab)
               after == Texts(blocks', strtab')
    <3>1. IsSeq(before) /\ Len(before) = n /\ \A i \in 1..n : before[i] = TextAt(blocks, strtab[i])
      <4>1. \A i \in 1..n : before[i] = TextAt(blocks, strtab[i])
        BY DEF Texts
      <4>2. before = [i \in 1..n |-> before[i]]
        BY <4>1 DEF Texts
      <4> HIDE DEF before, n
      <4> QED  BY <1>1, <4>1, <4>2, SeqOfFunction
    <3>2. after = [i \in 1..(n + 1) |-> after[i]] /\ \A i \in 1..(n + 1) : after[i] = TextAt(blocks', strtab'[i])
      BY <2>2 DEF Texts
    <3> HIDE DEF before, after
    <3>3. /\ Len(Append(before, key)) = n + 1 /\ Append(before, key)[n + 1] = key
          /\ \A i \in 1..n : Append(before, key)[i] = before[i]
          /\ IsSeq(Append(before, key))
      BY <3>1, SeqAppend
    <3>4. ASSUME NEW i \in 1..(n + 1) PROVE after[i] = Append(before, key)[i]
      <4>1. CASE i \in 1..n
        BY <1>9, <2>2, <3>1, <3>2, <3>3, <4>1
      <4>2. CASE i = n + 1
        BY <2>2, <3>2, <3>3, <4>2
      <4>3. i \in 1..n \/ i = n + 1
        <5>1. n \in Nat
          BY <1>1
        <5> HIDE DEF n
        <5> QED  BY <5>1
      <4> QED  BY <4>1, <4>2, <4>3
    <3>5. after = Append(before, key)
      <4> DEFINE b == Append(before, key)
      <4>1. PICK S : b \in Seq(S)
        BY <3>3 DEF IsSeq
      <4>2. b = [i \in 1..(n + 1) |-> b[i]]
        <5>1. Len(b) = n + 1
          BY <3>3
        <5> HIDE DEF n, b
        <5> QED  BY <4>1, <5>1
      <4> HIDE DEF n, b
      <4> QED  BY <3>2, <3>4, <4>2 DEF b
    <3> QED  BY <3>5 DEF before, after
  <2> QED  BY <1>7, <1>8, <2>1, <2>2, <2>3, <2>4
<1>11. CASE ~r.is_new
  <2>1. key \in DOMAIN AsMap(lookup) /\ lookup' = lookup /\ strtab' = strtab
    BY <1>3, <1>5, <1>6, <1>11 DEF Mapped
  <2>2. Texts(blocks', strtab') = Texts(blocks, strtab)
    BY <1>9, <2>1 DEF Texts
  <2> QED  BY <1>1, <1>7, <1>8, <1>9, <2>1, <2>2
<1> QED  BY <1>10, <1>11

-----------------------------------------------------------------------------
StrState == [strtab      |-> Texts(blocks, strtab),
             lookup      |-> AsMap(lookup),
             cstr_lookup |-> AsMap(cstr_lookup)]

(* The same as StringTableImpl has it.                                     *)
StrShown == [strtab      |-> [i \in DOMAIN strtab |-> Chars(strtab[i])],
             lookup      |-> AsMap(lookup),
             cstr_lookup |-> AsMap(cstr_lookup)]

LEMMA TextsAre ==
    ASSUME NEW bs, NEW s \in Seq(StrEntry)
    PROVE  Texts(bs, s) = [i \in DOMAIN s |-> TextAt(bs, s[i])] /\ Len(Texts(bs, s)) = Len(s)
<1> DEFINE f == Texts(bs, s)
<1>1. Len(s) \in Nat /\ DOMAIN s = 1..Len(s)
  BY LenProperties
<1>2. f = [i \in 1..Len(s) |-> f[i]]
  BY DEF Texts
<1>3. Len(f) = Len(s)
  <2> HIDE DEF f
  <2> QED  BY <1>1, <1>2, SeqOfFunction
<1> QED  BY <1>1, <1>3 DEF Texts

LEMMA StrStarts == ASSUME StrInit PROVE StrInv /\ StrShown = Abstract!EmptyTable /\ index = 0
<1>1. StoreInv
  BY DEF StrInit, StoreInv
<1>2. ASSUME NEW t \in NewTables PROVE Ready(Int, t) /\ t.values = << >>
  <2>1. PICK e \in Constructed(0) : ~e.thrown /\ t = e.table
    BY DEF NewTables, Made
  <2> QED  BY <2>1, ConstructedFacts DEF Ended
<1>3. \A t : t.values = << >> => AsMap(t) = << >>
  <2> SUFFICES ASSUME NEW t, t.values = << >> PROVE AsMap(t) = << >>
    OBVIOUS
  <2>1. DOMAIN t.values = {}
    OBVIOUS
  <2>2. AsMap(t) = [key \in {} |-> AsMap(t)[key]]
    BY <2>1 DEF AsMap, MapOf
  <2>3. << >> = [key \in {} |-> AsMap(t)[key]]
    OBVIOUS
  <2> QED  BY <2>2, <2>3
<1>4. strtab = << >> /\ Ready(Int, lookup) /\ Ready(Int, cstr_lookup)
      /\ AsMap(lookup) = << >> /\ AsMap(cstr_lookup) = << >> /\ index = 0
  BY <1>2, <1>3 DEF StrInit
<1>5. StrInv
  BY <1>1, <1>4 DEF StrInv
<1>6. [i \in DOMAIN strtab |-> Chars(strtab[i])] = << >>
  BY <1>4
<1> QED  BY <1>4, <1>5, <1>6 DEF StrShown, Abstract!EmptyTable

-----------------------------------------------------------------------------
LEMMA StrKeys ==
    /\ \A sv \in Inserted : /\ sv \in Seq(Nat) \cup {NullSv}
                            /\ Content(sv) \in Seq(Nat) /\ Content(sv) \in DOMAIN Hash
    /\ \A p \in Addresses : /\ p \in DOMAIN Hash
                            /\ SafeSv(p) \in Seq(Nat) /\ SafeSv(p) \in DOMAIN Hash
<1>1. << >> \in Seq(Nat)
  OBVIOUS
<1>2. ASSUME NEW sv \in Inserted
      PROVE  sv \in Seq(Nat) \cup {NullSv} /\ Content(sv) \in Seq(Nat) /\ Content(sv) \in DOMAIN Hash
  <2>1. sv \in Seq(Nat) \cup {NullSv} /\ Content(sv) \in DOMAIN Hash
    BY StringTableImplAssumption
  <2> QED  BY <1>1, <2>1 DEF Content
<1>3. ASSUME NEW p \in Addresses
      PROVE  p \in DOMAIN Hash /\ SafeSv(p) \in Seq(Nat) /\ SafeSv(p) \in DOMAIN Hash
  <2>1. p \in DOMAIN Hash /\ SafeSv(p) \in DOMAIN Hash
    BY StringTableImplAssumption
  <2>2. SafeSv(p) \in Seq(Nat)
    BY <1>1, StringTableImplAssumption DEF SafeSv, Addresses
  <2> QED  BY <2>1, <2>2
<1> QED  BY <1>2, <1>3

(* What insert_static does to the strings, as string_table promises it.    *)
LEMMA StaticInserts ==
    ASSUME StrInv, Kept, NEW key \in Seq(Nat), key \in DOMAIN Hash, NEW e \in StrEntry,
           Holds(blocks', e), TextAt(blocks', e) = key, insert_static(key, e),
           Ready(Int, cstr_lookup')
    PROVE  /\ StrInv' /\ index' \in Int
           /\ [StrState' EXCEPT !.cstr_lookup = AsMap(cstr_lookup)] = Abstract!Insert(StrState, key)
           /\ index' = AsMap(lookup')[key]
<1>1. /\ Ready(Int, lookup')
      /\ strtab' \in Seq(StrEntry) /\ \A i \in 1..Len(strtab') : Holds(blocks', strtab'[i])
      /\ index' = AsMap(lookup')[key] /\ index' \in Int
      /\ IF key \in DOMAIN AsMap(lookup)
         THEN lookup' = lookup /\ Texts(blocks', strtab') = Texts(blocks, strtab)
         ELSE /\ AsMap(lookup') = Abstract!Put(AsMap(lookup), key, Len(strtab))
              /\ Texts(blocks', strtab') = Append(Texts(blocks, strtab), key)
  BY StaticFacts
<1>2. StrInv'
  BY <1>1 DEF StrInv, Kept
<1>3. StrState' = [strtab |-> Texts(blocks', strtab'), lookup |-> AsMap(lookup'),
                   cstr_lookup |-> AsMap(cstr_lookup')]
  BY DEF StrState, Texts, TextAt, CharsAt
<1>4. /\ StrState.strtab = Texts(blocks, strtab) /\ StrState.lookup = AsMap(lookup)
      /\ StrState.cstr_lookup = AsMap(cstr_lookup) /\ Len(StrState.strtab) = Len(strtab)
  BY TextsAre DEF StrState, StrInv
<1>5. [StrState' EXCEPT !.cstr_lookup = AsMap(cstr_lookup)]
          = [strtab |-> Texts(blocks', strtab'), lookup |-> AsMap(lookup'),
             cstr_lookup |-> AsMap(cstr_lookup)]
  BY <1>3
<1>6. Abstract!Insert(StrState, key)
          = [strtab |-> Texts(blocks', strtab'), lookup |-> AsMap(lookup'),
             cstr_lookup |-> AsMap(cstr_lookup)]
  <2>1. CASE key \in DOMAIN AsMap(lookup)
    <3>1. Abstract!Insert(StrState, key) = StrState
      BY <1>4, <2>1 DEF Abstract!Insert
    <3> QED  BY <1>1, <2>1, <3>1 DEF StrState
  <2>2. CASE key \notin DOMAIN AsMap(lookup)
    <3>1. Abstract!Insert(StrState, key)
              = [StrState EXCEPT !.strtab = Append(Texts(blocks, strtab), key),
                                 !.lookup = Abstract!Put(AsMap(lookup), key, Len(strtab))]
      BY <1>4, <2>2 DEF Abstract!Insert
    <3> QED  BY <1>1, <2>2, <3>1 DEF StrState
  <2> QED  BY <2>1, <2>2
<1> QED  BY <1>1, <1>2, <1>5, <1>6

LEMMA InsertSteps ==
    ASSUME StrInv, NEW sv \in Inserted, InsertKnown(sv) \/ InsertCopy(sv)
    PROVE  StrInv' /\ StrState' = Abstract!Insert(StrState, Content(sv))
           /\ index' = Abstract!Index(StrState', Content(sv))
<1> DEFINE key == Content(sv)
<1>1. sv \in Seq(Nat) \cup {NullSv} /\ key \in Seq(Nat) /\ key \in DOMAIN Hash
  BY StrKeys
<1>2. StoreInv /\ Ready(Int, lookup) /\ Ready(Int, cstr_lookup)
  BY DEF StrInv
<1>3. CASE InsertKnown(sv)
  <2>1. /\ do_find(lookup, key) # end(lookup) /\ index' = IndexAt(lookup, do_find(lookup, key))
        /\ UNCHANGED <<blocks, strtab, lookup, cstr_lookup>>
    BY <1>3 DEF InsertKnown
  <2>2. key \in DOMAIN AsMap(lookup) /\ AsMap(lookup)[key] = index'
    <3> HIDE DEF key
    <3> QED  BY <1>1, <1>2, <2>1, FindFacts
  <2>3. StrInv'
    BY <1>2, <2>1 DEF StrInv, StoreInv
  <2>4. StrState' = StrState
    BY <2>1 DEF StrState
  <2>5. Abstract!Insert(StrState, key) = StrState
    BY <2>2 DEF Abstract!Insert, StrState
  <2>6. Abstract!Index(StrState', key) = index'
    BY <2>2, <2>4 DEF Abstract!Index, StrState
  <2> QED  BY <2>3, <2>4, <2>5, <2>6
<1>4. CASE InsertCopy(sv)
  <2>1. PICK a \in Added(sv) : blocks' = a.blocks /\ insert_static(key, Owned(a.view))
    BY <1>4 DEF InsertCopy
  <2>2. cstr_lookup' = cstr_lookup
    BY <1>4 DEF InsertCopy
  <2>3. /\ Kept /\ Owned(a.view) \in StrEntry /\ Holds(blocks', Owned(a.view))
        /\ TextAt(blocks', Owned(a.view)) = key
    BY <1>1, <1>2, <2>1, AddedKept
  <2>4. /\ StrInv' /\ index' = AsMap(lookup')[key]
        /\ [StrState' EXCEPT !.cstr_lookup = AsMap(cstr_lookup)] = Abstract!Insert(StrState, key)
    <3> HIDE DEF key
    <3> QED  BY <1>1, <1>2, <2>1, <2>2, <2>3, StaticInserts
  <2>5. [StrState' EXCEPT !.cstr_lookup = AsMap(cstr_lookup)] = StrState'
    BY <2>2 DEF StrState
  <2>6. Abstract!Index(StrState', key) = index'
    BY <2>4 DEF Abstract!Index, StrState
  <2> QED  BY <2>4, <2>5, <2>6
<1> QED  BY <1>3, <1>4

LEMMA AddressSteps ==
    ASSUME StrInv, NEW p \in Addresses, InsertCached(p) \/ InsertAddress(p)
    PROVE  StrInv' /\ StrState' = Abstract!InsertCstr(StrState, p)
           /\ index' = Abstract!IndexCstr(StrState', p)
<1> DEFINE key == SafeSv(p)
           entry == [key |-> p, val |-> npos]
<1>1. p \in DOMAIN Hash /\ key \in Seq(Nat) /\ key \in DOMAIN Hash
  BY StrKeys
<1>2. StoreInv /\ Ready(Int, lookup) /\ Ready(Int, cstr_lookup)
  BY DEF StrInv
<1>3. entry \in EntryType(Int) /\ entry.key = p
  BY <1>1 DEF EntryType, npos
<1>4. CASE InsertCached(p)
  <2>1. PICK r \in do_try_emplace(cstr_lookup, entry) :
            /\ ~r.is_new /\ index' = IndexAt(cstr_lookup, r.idx)
            /\ UNCHANGED <<blocks, strtab, lookup, cstr_lookup>>
    BY <1>4 DEF InsertCached
  <2>2. ~r.end.thrown
    <3> HIDE DEF entry
    <3>1. Insertion(Int, cstr_lookup, entry, r)
      BY <1>2, <1>3, TryEmplaceFacts
    <3> QED  BY <2>1, <3>1 DEF Insertion
  <2>3. Mapped(Int, cstr_lookup, entry, r)
    <3> HIDE DEF entry
    <3> QED  BY <1>2, <1>3, <2>2, InsertionMap
  <2>4. p \in DOMAIN AsMap(cstr_lookup) /\ AsMap(cstr_lookup)[p] = index'
    <3> HIDE DEF entry
    <3> QED  BY <1>3, <2>1, <2>3 DEF Mapped
  <2>5. StrInv'
    BY <1>2, <2>1 DEF StrInv, StoreInv
  <2>6. StrState' = StrState
    BY <2>1 DEF StrState
  <2>7. Abstract!InsertCstr(StrState, p) = StrState
    BY <2>4 DEF Abstract!InsertCstr, StrState
  <2>8. Abstract!IndexCstr(StrState', p) = index'
    BY <2>4, <2>6 DEF Abstract!IndexCstr, StrState
  <2> QED  BY <2>5, <2>6, <2>7, <2>8
<1>5. CASE InsertAddress(p)
  <2>1. PICK r \in Returned(do_try_emplace(cstr_lookup, entry)) :
            /\ r.is_new
            /\ insert_static(key, Static(key))
            /\ cstr_lookup' = assign(r.end.table, r.idx, index')
            /\ UNCHANGED blocks
    BY <1>5 DEF InsertAddress
  <2>2. r \in do_try_emplace(cstr_lookup, entry) /\ ~r.end.thrown
    BY <2>1 DEF Returned
  <2>3. Kept
    BY <1>2, <2>1, SameKept
  <2>4. /\ Static(key) \in StrEntry /\ Holds(blocks', Static(key))
        /\ TextAt(blocks', Static(key)) = key
    BY <1>1 DEF Static, StrEntry, Holds, TextAt
  <2>5. index' \in Int
    <3> HIDE DEF key
    <3> QED  BY <1>1, <2>1, <2>3, <2>4, StaticFacts
  <2>6. /\ Ready(Int, cstr_lookup')
        /\ AsMap(cstr_lookup') = Abstract!Put(AsMap(cstr_lookup), p, index')
    <3> HIDE DEF entry
    <3> QED  BY <1>2, <1>3, <2>1, <2>2, <2>5, AssignedMap
  <2>7. /\ StrInv' /\ index' = AsMap(lookup')[key]
        /\ [StrState' EXCEPT !.cstr_lookup = AsMap(cstr_lookup)] = Abstract!Insert(StrState, key)
    <3> HIDE DEF key
    <3> QED  BY <1>1, <2>1, <2>3, <2>4, <2>6, StaticInserts
  <2>8. p \notin DOMAIN AsMap(cstr_lookup)
    <3> HIDE DEF entry
    <3>1. Mapped(Int, cstr_lookup, entry, r)
      BY <1>2, <1>3, <2>2, InsertionMap
    <3> QED  BY <1>3, <2>1, <3>1 DEF Mapped
  <2>9. StrState' = Abstract!InsertCstr(StrState, p)
    <3> DEFINE s == Abstract!Insert(StrState, key)
    <3>1. s.lookup = AsMap(lookup') /\ s.cstr_lookup = AsMap(cstr_lookup)
          /\ s = [strtab |-> StrState'.strtab, lookup |-> AsMap(lookup'), cstr_lookup |-> AsMap(cstr_lookup)]
      <4>1. s = [StrState' EXCEPT !.cstr_lookup = AsMap(cstr_lookup)]
        BY <2>7
      <4> HIDE DEF s
      <4> QED  BY <4>1 DEF StrState
    <3>2. Abstract!SafeSv(p) = key
      BY DEF Abstract!SafeSv, SafeSv
    <3>3. Abstract!InsertCstr(StrState, p)
              = [s EXCEPT !.cstr_lookup = Abstract!Put(s.cstr_lookup, p, s.lookup[key])]
      <4>1. p \notin DOMAIN StrState.cstr_lookup
        BY <2>8 DEF StrState
      <4> HIDE DEF key
      <4> QED  BY <3>2, <4>1 DEF Abstract!InsertCstr
    <3> HIDE DEF s, key
    <3>4. Abstract!InsertCstr(StrState, p)
              = [s EXCEPT !.cstr_lookup = AsMap(cstr_lookup')]
      BY <2>6, <2>7, <3>1, <3>3
    <3> QED  BY <3>1, <3>4 DEF StrState
  <2>10. Abstract!IndexCstr(StrState', p) = index'
    <3>1. StrState'.cstr_lookup = AsMap(cstr_lookup')
      BY DEF StrState
    <3>2. AsMap(cstr_lookup')[p] = index'
      BY <2>6 DEF Abstract!Put
    <3> QED  BY <3>1, <3>2 DEF Abstract!IndexCstr
  <2> QED  BY <2>7, <2>9, <2>10
<1> QED  BY <1>4, <1>5

(* string_table does as it promises: one index for each string, for good,  *)
(* by either way in, whatever is inserted and wherever its hash sends it.  *)
THEOREM StringTableRefines == StrSpec => StringTableSpec
<1>1. StrInit => StrInv /\ Abstract!StInit
  BY StrStarts DEF StrShown, Abstract!StInit
<1>2. ASSUME StrInv, [StrNext]_<<blocks, strvars>>
      PROVE  StrInv' /\ [Abstract!StNext]_<<StrShown, index>>
  <2>1. CASE UNCHANGED <<blocks, strvars>>
    <3>1. UNCHANGED <<blocks, strtab, lookup, cstr_lookup, index>>
      BY <2>1 DEF strvars
    <3>2. StrInv'
      BY <1>2, <3>1 DEF StrInv, StoreInv
    <3>3. UNCHANGED <<StrShown, index>>
      BY <3>1 DEF StrShown, Chars, Read
    <3> QED  BY <3>2, <3>3
  <2>2. ASSUME StrInv' PROVE StrShown = StrState /\ StrShown' = StrState'
    <3>1. /\ Texts(blocks, strtab) = [i \in DOMAIN strtab |-> TextAt(blocks, strtab[i])]
          /\ Texts(blocks', strtab') = [i \in DOMAIN strtab' |-> TextAt(blocks', strtab'[i])]
      BY <1>2, <2>2, TextsAre DEF StrInv
    <3> QED  BY <3>1 DEF StrShown, StrState, Chars, Read, TextAt, CharsAt
  <2>3. CASE \E sv \in Inserted : InsertKnown(sv) \/ InsertCopy(sv)
    <3>1. PICK sv \in Inserted : InsertKnown(sv) \/ InsertCopy(sv)
      BY <2>3
    <3>2. StrInv' /\ StrState' = Abstract!Insert(StrState, Content(sv))
          /\ index' = Abstract!Index(StrState', Content(sv))
      BY <1>2, <3>1, InsertSteps
    <3>3. Abstract!InsertString(Content(sv))
      BY <2>2, <3>2 DEF Abstract!InsertString, StrShown
    <3> QED  BY <3>2, <3>3 DEF Abstract!StNext
  <2>4. CASE \E p \in Addresses : InsertCached(p) \/ InsertAddress(p)
    <3>1. PICK p \in Addresses : InsertCached(p) \/ InsertAddress(p)
      BY <2>4
    <3>2. StrInv' /\ StrState' = Abstract!InsertCstr(StrState, p)
          /\ index' = Abstract!IndexCstr(StrState', p)
      BY <1>2, <3>1, AddressSteps
    <3>3. Abstract!InsertAddress(p)
      BY <2>2, <3>2 DEF Abstract!InsertAddress, StrShown
    <3> QED  BY <3>2, <3>3 DEF Abstract!StNext, Addresses
  <2> QED  BY <1>2, <2>1, <2>3, <2>4 DEF StrNext
<1> QED  BY <1>1, <1>2, PTL DEF StrSpec, StringTableSpec, Abstract!StSpec, StrShown

-----------------------------------------------------------------------------
(* HashTable against FlatMap.  A table is its set of entries, and m is the *)
(* map that these are.                                                     *)
IsMap(m, entries) ==
    /\ m = [k \in {e.key : e \in entries} |-> m[k]]
    /\ \A e \in entries : m[e.key] = e.val

LEMMA SameMap == ASSUME NEW S, NEW m, IsMap(m, S), NEW n, IsMap(n, S) PROVE m = n
<1> DEFINE K == {e.key : e \in S}
<1>1. m = [k \in K |-> m[k]] /\ n = [k \in K |-> n[k]]
  BY DEF IsMap
<1>2. \A k \in K : m[k] = n[k]
  BY DEF IsMap
<1> HIDE DEF K
<1>3. [k \in K |-> m[k]] = [k \in K |-> n[k]]
  BY <1>2
<1> QED  BY <1>1, <1>3

LEMMA MapFacts ==
    ASSUME NEW V, NEW S \in SUBSET EntryType(V), NEW m, IsMap(m, S)
    PROVE  /\ DOMAIN m = {e.key : e \in S}
           /\ \A k \in DOMAIN m : [key |-> k, val |-> m[k]] \in S
           /\ \A k \in DOMAIN m : \A v : [key |-> k, val |-> v] \in S => v = m[k]
           /\ \A e \in S : e = [key |-> e.key, val |-> m[e.key]]
           /\ \A e, f \in S : e.key = f.key => e = f
<1> DEFINE K == {e.key : e \in S}
<1>1. m = [k \in K |-> m[k]]
  BY DEF IsMap
<1>2. DOMAIN m = K
  <2> HIDE DEF K
  <2> QED  BY <1>1
<1>3. ASSUME NEW e \in S PROVE e = [key |-> e.key, val |-> m[e.key]]
  <2>1. e \in [key : DOMAIN Hash, val : V] /\ m[e.key] = e.val
    BY DEF EntryType, IsMap
  <2> QED  BY <2>1
<1>4. ASSUME NEW k \in K PROVE [key |-> k, val |-> m[k]] \in S
  <2>1. PICK e \in S : e.key = k
    OBVIOUS
  <2> QED  BY <1>3, <2>1
<1>5. ASSUME NEW k \in K, NEW v, [key |-> k, val |-> v] \in S PROVE v = m[k]
  <2> DEFINE e == [key |-> k, val |-> v]
  <2>1. m[e.key] = e.val
    BY <1>5 DEF IsMap
  <2> QED  BY <2>1
<1>6. ASSUME NEW e \in S, NEW f \in S, e.key = f.key PROVE e = f
  BY <1>3, <1>6
<1> QED  BY <1>2, <1>3, <1>4, <1>5, <1>6

(* The entries of a table, some of them, and the map of these.             *)
LEMMA EntriesFacts ==
    ASSUME NEW V, NEW t, t \in TableType(V)
    PROVE  /\ EntriesOf(t) \in SUBSET EntryType(V)
           /\ EntriesOf(t) = {t.values[i + 1] : i \in Places(t)}
           /\ \A i \in Places(t) : t.values[i + 1] \in EntriesOf(t)
           /\ \A i \in DOMAIN t.values : i - 1 \in Places(t) /\ (i - 1) + 1 = i
<1>1. /\ size(t) \in Nat /\ DOMAIN t.values = 1..size(t)
      /\ \A i \in Places(t) : i + 1 \in 1..size(t) /\ t.values[i + 1] \in [key : DOMAIN Hash, val : V]
  BY ValueFacts
<1>2. \A i \in 1..size(t) : i - 1 \in Places(t) /\ (i - 1) + 1 = i
  BY <1>1 DEF Places
<1>3. ASSUME NEW e \in EntriesOf(t) PROVE \E i \in Places(t) : e = t.values[i + 1]
  <2>1. PICK j \in 1..size(t) : e = t.values[j]
    BY <1>1 DEF EntriesOf
  <2> QED  BY <1>2, <2>1
<1>4. \A i \in Places(t) : t.values[i + 1] \in EntriesOf(t)
  BY <1>1 DEF EntriesOf
<1> QED  BY <1>1, <1>2, <1>3, <1>4 DEF EntryType

LEMMA MapOfFacts ==
    ASSUME NEW V, NEW t, t \in TableType(V), Distinct(t), NEW P \in SUBSET DOMAIN t.values
    PROVE  IsMap(MapOf(t.values, P), {t.values[i] : i \in P})
<1> DEFINE v == t.values
           S == {v[i] : i \in P}
           at_key(k) == CHOOSE i \in P : v[i].key = k
           m == MapOf(v, P)
<1>1. m = [k \in {v[i].key : i \in P} |-> v[at_key(k)].val]
  BY DEF MapOf
<1>2. {v[i].key : i \in P} = {e.key : e \in S}
  OBVIOUS
<1>3. ASSUME NEW i \in P PROVE at_key(v[i].key) = i
  <2> DEFINE j == at_key(v[i].key)
  <2>1. j \in P /\ v[j].key = v[i].key
    OBVIOUS
  <2> HIDE DEF j
  <2>2. i - 1 \in Places(t) /\ (i - 1) + 1 = i /\ j - 1 \in Places(t) /\ (j - 1) + 1 = j
    BY <2>1, EntriesFacts
  <2>3. i - 1 = j - 1
    BY <2>1, <2>2 DEF Distinct, key_at
  <2> QED  BY <2>2, <2>3 DEF j
<1> HIDE DEF m, at_key
<1>4. ASSUME NEW i \in P PROVE m[v[i].key] = v[i].val
  BY <1>1, <1>3
<1> DEFINE K == {e.key : e \in S}
<1>5. m = [k \in K |-> m[k]]
  <2>1. m = [k \in K |-> v[at_key(k)].val]
    BY <1>1, <1>2
  <2> HIDE DEF K
  <2> QED  BY <2>1
<1>6. \A e \in S : m[e.key] = e.val
  BY <1>4
<1>7. IsMap(m, S)
  BY <1>5, <1>6 DEF IsMap
<1> QED  BY <1>7 DEF m

LEMMA AsMapIs ==
    ASSUME NEW V, NEW t, t \in TableType(V), Distinct(t)
    PROVE  IsMap(AsMap(t), EntriesOf(t)) /\ EntriesOf(t) \in SUBSET EntryType(V)
<1>1. EntriesOf(t) \in SUBSET EntryType(V)
  BY EntriesFacts
<1>2. IsMap(MapOf(t.values, DOMAIN t.values), {t.values[i] : i \in DOMAIN t.values})
  <2>1. DOMAIN t.values \in SUBSET DOMAIN t.values
    OBVIOUS
  <2> QED  BY <2>1, MapOfFacts
<1> QED  BY <1>1, <1>2 DEF AsMap, EntriesOf

(* What the maps of FlatMap are.                                           *)
LEMMA WithIs ==
    ASSUME NEW V, NEW S \in SUBSET EntryType(V), NEW m, IsMap(m, S), NEW k, NEW v
    PROVE  IsMap(M!With(m, k, v), {e \in S : e.key # k} \cup {[key |-> k, val |-> v]})
<1> DEFINE T == {e \in S : e.key # k} \cup {[key |-> k, val |-> v]}
           K == DOMAIN m \cup {k}
           n == M!With(m, k, v)
<1>1. n = [x \in K |-> IF x = k THEN v ELSE m[x]]
  BY DEF M!With
<1> HIDE DEF n
<1>2. DOMAIN m = {e.key : e \in S} /\ \A e \in S : m[e.key] = e.val
  BY MapFacts DEF IsMap
<1>3. K = {e.key : e \in T}
  <2>1. ASSUME NEW x \in K PROVE x \in {e.key : e \in T}
    <3>1. CASE x = k
      <4>1. [key |-> k, val |-> v] \in T /\ [key |-> k, val |-> v].key = k
        OBVIOUS
      <4> QED  BY <3>1, <4>1
    <3>2. CASE x # k
      BY <1>2, <3>2
    <3> QED  BY <3>1, <3>2
  <2>2. ASSUME NEW e \in T PROVE e.key \in K
    <3>1. CASE e \in S
      BY <1>2, <3>1
    <3>2. CASE e = [key |-> k, val |-> v]
      BY <3>2
    <3> QED  BY <3>1, <3>2
  <2> QED  BY <2>1, <2>2
<1>4. ASSUME NEW e \in T PROVE n[e.key] = e.val
  <2>1. CASE e \in S /\ e.key # k
    BY <1>1, <1>2, <2>1
  <2>2. CASE e = [key |-> k, val |-> v]
    <3>1. e.key = k /\ e.val = v
      BY <2>2
    <3> QED  BY <1>1, <3>1
  <2> QED  BY <2>1, <2>2
<1>5. n = [x \in K |-> n[x]]
  <2> HIDE DEF K
  <2> QED  BY <1>1
<1>6. IsMap(n, T)
  <2> HIDE DEF T
  <2> QED  BY <1>3, <1>4, <1>5 DEF IsMap
<1> QED  BY <1>6 DEF n

LEMMA RestrictIs ==
    ASSUME NEW V, NEW S \in SUBSET EntryType(V), NEW m, IsMap(m, S), NEW D \in SUBSET DOMAIN m
    PROVE  IsMap(M!Restrict(m, D), {e \in S : e.key \in D})
<1> DEFINE T == {e \in S : e.key \in D}
           n == M!Restrict(m, D)
<1>1. n = [x \in D |-> m[x]]
  BY DEF M!Restrict
<1> HIDE DEF n
<1>2. DOMAIN m = {e.key : e \in S} /\ \A e \in S : m[e.key] = e.val
  BY MapFacts DEF IsMap
<1>3. D = {e.key : e \in T}
  BY <1>2
<1>4. \A e \in T : n[e.key] = e.val
  BY <1>1, <1>2
<1>5. n = [x \in D |-> n[x]]
  BY <1>1
<1>6. IsMap(n, T)
  <2> HIDE DEF T
  <2> QED  BY <1>3, <1>4, <1>5 DEF IsMap
<1> QED  BY <1>6 DEF n

LEMMA NoMapIs == IsMap(M!NoMap, {})
<1>1. M!NoMap = [k \in {} |-> M!NoMap[k]]
  BY DEF M!NoMap
<1>2. {e.key : e \in {}} = {}
  OBVIOUS
<1> QED  BY <1>1, <1>2 DEF IsMap

(* A map with more entries, which are all in X.                            *)
LEMMA ExtendsFrom ==
    ASSUME NEW V, NEW S \in SUBSET EntryType(V), NEW T \in SUBSET EntryType(V),
           NEW m, IsMap(m, S), NEW n, IsMap(n, T), NEW X, S \subseteq T, T \subseteq S \cup X
    PROVE  M!Extends(n, m, X)
<1>1. /\ DOMAIN m = {e.key : e \in S} /\ DOMAIN n = {e.key : e \in T}
      /\ \A k \in DOMAIN m : [key |-> k, val |-> m[k]] \in S
      /\ \A k \in DOMAIN n : [key |-> k, val |-> n[k]] \in T
      /\ \A k \in DOMAIN n : \A v : [key |-> k, val |-> v] \in T => v = n[k]
  BY MapFacts
<1>2. DOMAIN m \subseteq DOMAIN n
  BY <1>1
<1>3. ASSUME NEW k \in DOMAIN m PROVE n[k] = m[k]
  <2>1. [key |-> k, val |-> m[k]] \in T /\ k \in DOMAIN n
    BY <1>1, <1>2
  <2> QED  BY <1>1, <2>1
<1>4. ASSUME NEW k \in DOMAIN n, k \notin DOMAIN m PROVE [key |-> k, val |-> n[k]] \in X
  <2> DEFINE e == [key |-> k, val |-> n[k]]
  <2>1. e \in T /\ e.key = k
    BY <1>1
  <2> HIDE DEF e
  <2>2. e \notin S
    BY <1>1, <1>4, <2>1
  <2>3. e \in X
    BY <2>1, <2>2
  <2> QED  BY <2>3 DEF e
<1> QED  BY <1>2, <1>3, <1>4 DEF M!Extends

LEMMA ExtendsNone ==
    ASSUME NEW V, NEW T \in SUBSET EntryType(V), NEW n, IsMap(n, T), NEW X, T \subseteq X
    PROVE  M!Extends(n, M!NoMap, X)
<1>1. {} \in SUBSET EntryType(V) /\ {} \subseteq T /\ T \subseteq {} \cup X
  OBVIOUS
<1> QED  BY <1>1, NoMapIs, ExtendsFrom

(* What the entries before and after a call must be.                       *)
LEMMA ThrowStep ==
    ASSUME Consistent(Vals, table), Consistent(Vals, table'), NEW X,
           EntriesOf(table) \subseteq EntriesOf(table'),
           EntriesOf(table') \subseteq EntriesOf(table) \cup X, ret' = Thrown
    PROVE  M!Throw(X)
<1>1. /\ IsMap(AsMap(table), EntriesOf(table)) /\ EntriesOf(table) \in SUBSET EntryType(Vals)
      /\ IsMap(AsMap(table'), EntriesOf(table')) /\ EntriesOf(table') \in SUBSET EntryType(Vals)
  BY AsMapIs DEF Consistent
<1>2. M!Extends(AsMap(table'), AsMap(table), X)
  BY <1>1, ExtendsFrom
<1>3. ret' = M!Thrown
  BY DEF Thrown, M!Thrown
<1> QED  BY <1>2, <1>3 DEF M!Throw

LEMMA InsertAllStep ==
    ASSUME Consistent(Vals, table), Consistent(Vals, table'), NEW X,
           EntriesOf(table) \subseteq EntriesOf(table'),
           EntriesOf(table') \subseteq EntriesOf(table) \cup X,
           {e.key : e \in X} \subseteq {e.key : e \in EntriesOf(table')}, ret' = Nothing
    PROVE  M!InsertAll(X)
<1>1. /\ IsMap(AsMap(table), EntriesOf(table)) /\ EntriesOf(table) \in SUBSET EntryType(Vals)
      /\ IsMap(AsMap(table'), EntriesOf(table')) /\ EntriesOf(table') \in SUBSET EntryType(Vals)
  BY AsMapIs DEF Consistent
<1>2. M!Extends(AsMap(table'), AsMap(table), X)
  BY <1>1, ExtendsFrom
<1>3. ret' = M!Nothing
  BY DEF Nothing, M!Nothing
<1>4. /\ DOMAIN AsMap(table) = {e.key : e \in EntriesOf(table)}
      /\ DOMAIN AsMap(table') = {e.key : e \in EntriesOf(table')}
  BY <1>1, MapFacts
<1>5. DOMAIN AsMap(table') = DOMAIN AsMap(table) \cup M!KeysOf(X)
  BY <1>4 DEF M!KeysOf
<1> QED  BY <1>2, <1>3, <1>5 DEF M!InsertAll

LEMMA BecomeStep ==
    ASSUME Consistent(Vals, table'), NEW X, EntriesOf(table') \subseteq X,
           {e.key : e \in X} \subseteq {e.key : e \in EntriesOf(table')}, ret' = Nothing
    PROVE  M!Become(X)
<1>1. IsMap(AsMap(table'), EntriesOf(table')) /\ EntriesOf(table') \in SUBSET EntryType(Vals)
  BY AsMapIs DEF Consistent
<1>2. M!Extends(AsMap(table'), M!NoMap, X)
  BY <1>1, ExtendsNone
<1>3. ret' = M!Nothing
  BY DEF Nothing, M!Nothing
<1>4. DOMAIN AsMap(table') = {e.key : e \in EntriesOf(table')}
  BY <1>1, MapFacts
<1>5. DOMAIN AsMap(table') = M!KeysOf(X)
  BY <1>4 DEF M!KeysOf
<1> QED  BY <1>2, <1>3, <1>5 DEF M!Become

LEMMA SameThrown == ThrownCleared = M!ThrownCleared
BY Zenon DEF ThrownCleared, M!ThrownCleared

LEMMA ThrowClearedStep ==
    ASSUME Consistent(Vals, table'), NEW X, EntriesOf(table') \subseteq X, ret' = ThrownCleared
    PROVE  M!ThrowCleared(X)
<1>1. IsMap(AsMap(table'), EntriesOf(table')) /\ EntriesOf(table') \in SUBSET EntryType(Vals)
  BY AsMapIs DEF Consistent
<1>2. M!Extends(AsMap(table'), M!NoMap, X)
  BY <1>1, ExtendsNone
<1> QED  BY <1>2, SameThrown DEF M!ThrowCleared

LEMMA WithStep ==
    ASSUME NEW V, NEW t, Consistent(V, t), NEW u, Consistent(V, u), NEW k, NEW v,
           EntriesOf(u) = {e \in EntriesOf(t) : e.key # k} \cup {[key |-> k, val |-> v]}
    PROVE  AsMap(u) = M!With(AsMap(t), k, v)
<1>1. /\ IsMap(AsMap(t), EntriesOf(t)) /\ EntriesOf(t) \in SUBSET EntryType(V)
      /\ IsMap(AsMap(u), EntriesOf(u)) /\ EntriesOf(u) \in SUBSET EntryType(V)
  BY AsMapIs DEF Consistent
<1>2. IsMap(M!With(AsMap(t), k, v), EntriesOf(u))
  BY <1>1, WithIs
<1> QED  BY <1>1, <1>2, SameMap

LEMMA EraseStep ==
    ASSUME Consistent(Vals, table), Consistent(Vals, table'), NEW P \in SUBSET DOMAIN table.values,
           EntriesOf(table') = EntriesOf(table) \ {table.values[i] : i \in P},
           ret' = Gone(table.values, P)
    PROVE  \E K \in SUBSET DOMAIN AsMap(table) : M!Erase(K)
<1> DEFINE m == AsMap(table)
           S == EntriesOf(table)
           G == {table.values[i] : i \in P}
           K == {e.key : e \in G}
<1>1. /\ IsMap(m, S) /\ S \in SUBSET EntryType(Vals)
      /\ IsMap(AsMap(table'), EntriesOf(table')) /\ EntriesOf(table') \in SUBSET EntryType(Vals)
      /\ IsMap(MapOf(table.values, P), G)
  BY AsMapIs, MapOfFacts DEF Consistent
<1>2. G \subseteq S
  BY DEF EntriesOf
<1>3. DOMAIN m = {e.key : e \in S} /\ \A e, f \in S : e.key = f.key => e = f
  <2> HIDE DEF S, m
  <2> QED  BY <1>1, MapFacts
<1> HIDE DEF G, S, m
<1>4. K \in SUBSET DOMAIN m /\ DOMAIN m \ K \in SUBSET DOMAIN m
  BY <1>2, <1>3
<1>5. {e \in S : e.key \in K} = G
  BY <1>2, <1>3
<1>6. {e \in S : e.key \in DOMAIN m \ K} = S \ G
  BY <1>2, <1>3
<1> HIDE DEF K
<1>7. /\ IsMap(M!Restrict(m, K), {e \in S : e.key \in K})
      /\ IsMap(M!Restrict(m, DOMAIN m \ K), {e \in S : e.key \in DOMAIN m \ K})
  BY <1>1, <1>4, RestrictIs
<1>8. MapOf(table.values, P) = M!Restrict(m, K)
  BY <1>1, <1>5, <1>7, SameMap
<1>9. AsMap(table') = M!Restrict(m, DOMAIN m \ K)
  <2>1. IsMap(AsMap(table'), S \ G)
    BY <1>1 DEF S, G
  <2> QED  BY <1>6, <1>7, <2>1, SameMap
<1>10. ret' = M!Gone(M!Restrict(m, K))
  BY <1>8 DEF Gone, M!Gone
<1>11. M!Erase(K)
  BY <1>9, <1>10 DEF M!Erase, m
<1> QED  BY <1>4, <1>11 DEF m

(* The values are the same, the index may not be.                          *)
LEMMA SameValues ==
    ASSUME NEW t, NEW u, u.values = t.values
    PROVE  AsMap(u) = AsMap(t) /\ EntriesOf(u) = EntriesOf(t)
BY DEF AsMap, EntriesOf

(* The insertion of one entry.                                             *)
LEMMA AppendEntries ==
    ASSUME NEW V, NEW t, t \in TableType(V), NEW entry \in EntryType(V),
           NEW u, u.values = Append(t.values, entry)
    PROVE  EntriesOf(u) = EntriesOf(t) \cup {entry}
<1> DEFINE E == EntryType(V)
           n == Len(t.values)
<1>1. t.values \in Seq(E) /\ entry \in E
  BY DEF TableType, EntryType
<1> HIDE DEF E
<1>2. /\ n \in Nat /\ DOMAIN t.values = 1..n /\ DOMAIN u.values = 1..(n + 1)
      /\ \A i \in 1..n : u.values[i] = t.values[i]
      /\ u.values[n + 1] = entry
  BY <1>1, AppendProperties, LenProperties
<1> HIDE DEF n
<1>3. 1..(n + 1) = (1..n) \cup {n + 1}
  BY <1>2
<1> QED  BY <1>2, <1>3 DEF EntriesOf

LEMMA AssignEntries ==
    ASSUME NEW V, NEW t, Ready(V, t), NEW i \in Places(t), NEW val \in V,
           NEW u, u = assign(t, i, val)
    PROVE  /\ EntriesOf(u) = {e \in EntriesOf(t) : e.key # key_at(t, i)}
                             \cup {[key |-> key_at(t, i), val |-> val]}
           /\ u.values[i + 1] = [key |-> key_at(t, i), val |-> val]
<1> DEFINE new == [t.values[i + 1] EXCEPT !.val = val]
<1>1. /\ t \in TableType(V) /\ Distinct(t) /\ size(t) \in Nat /\ DOMAIN t.values = 1..size(t)
      /\ i + 1 \in 1..size(t) /\ t.values[i + 1] \in [key : DOMAIN Hash, val : V]
      /\ \A j \in Places(t) : j + 1 \in 1..size(t)
  BY ValueFacts DEF Ready, Consistent
<1>2. new = [key |-> key_at(t, i), val |-> val]
  BY <1>1 DEF key_at
<1>3. u.values = [t.values EXCEPT ![i + 1] = new]
  BY <1>1 DEF assign, TableType
<1> HIDE DEF new
<1>4. /\ u.values[i + 1] = new /\ DOMAIN u.values = DOMAIN t.values
      /\ \A j \in DOMAIN t.values : j # i + 1 => u.values[j] = t.values[j]
  BY <1>1, <1>3
<1>5. \A j \in DOMAIN t.values : j = i + 1 \/ t.values[j].key # key_at(t, i)
  <2> TAKE j \in DOMAIN t.values
  <2>1. j - 1 \in Places(t) /\ (j - 1) + 1 = j
    BY <1>1, EntriesFacts
  <2>2. key_at(t, j - 1) = t.values[j].key
    BY <2>1 DEF key_at
  <2>3. CASE j - 1 = i
    BY <2>1, <2>3
  <2>4. CASE j - 1 # i
    BY <1>1, <2>1, <2>2, <2>4 DEF Distinct
  <2> QED  BY <2>3, <2>4
<1>6. t.values[i + 1].key = key_at(t, i)
  BY DEF key_at
<1>7. EntriesOf(u) = {e \in EntriesOf(t) : e.key # key_at(t, i)} \cup {new}
  <2>1. ASSUME NEW e \in EntriesOf(u) PROVE e = new \/ (e \in EntriesOf(t) /\ e.key # key_at(t, i))
    <3>1. PICK j \in DOMAIN t.values : e = u.values[j]
      BY <1>4 DEF EntriesOf
    <3>2. CASE j = i + 1
      BY <1>4, <3>1, <3>2
    <3>3. CASE j # i + 1
      BY <1>4, <1>5, <3>1, <3>3 DEF EntriesOf
    <3> QED  BY <3>2, <3>3
  <2>2. ASSUME NEW e \in EntriesOf(t), e.key # key_at(t, i) PROVE e \in EntriesOf(u)
    <3>1. PICK j \in DOMAIN t.values : e = t.values[j]
      BY DEF EntriesOf
    <3>2. j # i + 1
      BY <1>6, <2>2, <3>1
    <3> QED  BY <1>4, <3>1, <3>2 DEF EntriesOf
  <2>3. new \in EntriesOf(u)
    BY <1>1, <1>4 DEF EntriesOf
  <2> QED  BY <2>1, <2>2, <2>3
<1> QED  BY <1>2, <1>4, <1>7

(* What is in a table at the place of a key, and where none has the key.   *)
LEMMA PlacedKey ==
    ASSUME NEW V, NEW t, Consistent(V, t), NEW i \in Places(t)
    PROVE  /\ key_at(t, i) \in DOMAIN AsMap(t)
           /\ t.values[i + 1] = [key |-> key_at(t, i), val |-> AsMap(t)[key_at(t, i)]]
<1>1. /\ IsMap(AsMap(t), EntriesOf(t)) /\ EntriesOf(t) \in SUBSET EntryType(V)
      /\ t.values[i + 1] \in EntriesOf(t)
  BY AsMapIs, EntriesFacts DEF Consistent
<1>2. /\ DOMAIN AsMap(t) = {e.key : e \in EntriesOf(t)}
      /\ \A e \in EntriesOf(t) : e = [key |-> e.key, val |-> AsMap(t)[e.key]]
  BY <1>1, MapFacts
<1>3. key_at(t, i) = t.values[i + 1].key
  BY DEF key_at
<1> QED  BY <1>1, <1>2, <1>3

LEMMA NoPlace ==
    ASSUME NEW V, NEW t, Consistent(V, t), NEW key, \A i \in Places(t) : key_at(t, i) # key
    PROVE  key \notin DOMAIN AsMap(t) /\ {e \in EntriesOf(t) : e.key # key} = EntriesOf(t)
<1>1. /\ IsMap(AsMap(t), EntriesOf(t)) /\ EntriesOf(t) \in SUBSET EntryType(V)
      /\ EntriesOf(t) = {t.values[i + 1] : i \in Places(t)}
  BY AsMapIs, EntriesFacts DEF Consistent
<1>2. \A e \in EntriesOf(t) : e.key # key
  BY <1>1 DEF key_at
<1>3. DOMAIN AsMap(t) = {e.key : e \in EntriesOf(t)}
  BY <1>1, MapFacts
<1> QED  BY <1>2, <1>3

(* What an insertion leaves: the entries, or one more.                     *)
LEMMA InsertionEntries ==
    ASSUME NEW V, NEW t, Consistent(V, t), NEW entry \in EntryType(V), NEW r, Insertion(V, t, entry, r),
           NEW u, u = r.end.table
    PROVE  /\ Consistent(V, u)
           /\ EntriesOf(u) = EntriesOf(t) \/ EntriesOf(u) = EntriesOf(t) \cup {entry}
           /\ ~r.end.thrown => \E e \in EntriesOf(u) : e.key = entry.key
<1>1. t \in TableType(V) /\ Consistent(V, u)
  BY DEF Consistent, Insertion, Left
<1>2. u.values = t.values \/ u.values = Append(t.values, entry)
  BY DEF Insertion
<1>3. EntriesOf(u) = EntriesOf(t) \/ EntriesOf(u) = EntriesOf(t) \cup {entry}
  BY <1>1, <1>2, SameValues, AppendEntries
<1>4. ASSUME ~r.end.thrown PROVE \E e \in EntriesOf(u) : e.key = entry.key
  <2>1. r.idx \in Places(u) /\ key_at(u, r.idx) = entry.key
    BY <1>4 DEF Insertion
  <2>2. u.values[r.idx + 1] \in EntriesOf(u)
    BY <1>1, <2>1, EntriesFacts DEF Consistent
  <2> QED  BY <2>1, <2>2 DEF key_at
<1> QED  BY <1>1, <1>3, <1>4

(* Which step of FlatMap a call is.                                        *)
LEMMA SingleSteps ==
    ASSUME NEW e \in Entries, NEW v \in Vals
    PROVE  /\ M!Throw({[key |-> e.key, val |-> v]}) => M!MapNext
           /\ M!Insert(e.key, v) => M!MapNext
           /\ M!InsertOrAssign(e.key, v) => M!MapNext
<1>1. e.key \in TableKeys /\ v \in {x.val : x \in Entries} \cup {Default}
  BY DEF TableKeys, Vals
<1>2. ASSUME M!Throw({[key |-> e.key, val |-> v]}) PROVE M!MapNext
  BY <1>1, <1>2 DEF M!MapNext
<1>3. ASSUME M!Insert(e.key, v) PROVE M!MapNext
  BY <1>1, <1>3 DEF M!MapNext
<1>4. ASSUME M!InsertOrAssign(e.key, v) PROVE M!MapNext
  BY <1>1, <1>4 DEF M!MapNext
<1> QED  BY <1>2, <1>3, <1>4

LEMMA ListSteps ==
    ASSUME NEW c
    PROVE  LET X == {c[i] : i \in DOMAIN c}
           IN  /\ c \in Lists /\ (M!InsertAll(X) \/ M!ThrowCleared(X) \/ M!Throw(X)) => M!MapNext
               /\ c \in Containers \cup Lists /\ M!Become(X) => M!MapNext
<1> DEFINE X == {c[i] : i \in DOMAIN c}
<1>1. c \in Lists => X \in {{d[i] : i \in DOMAIN d} : d \in Lists}
  OBVIOUS
<1>2. c \in Containers => X \in {{d[i] : i \in DOMAIN d} : d \in Containers}
  OBVIOUS
<1> HIDE DEF X
<1>3. c \in Lists /\ (M!InsertAll(X) \/ M!ThrowCleared(X)) => M!MapNext
  BY <1>1 DEF M!MapNext
<1>4. c \in Lists /\ M!Throw(X) => M!MapNext
  BY <1>1 DEF M!MapNext
<1>5. c \in Containers \cup Lists /\ M!Become(X) => M!MapNext
  BY <1>1, <1>2 DEF M!MapNext
<1>6. /\ c \in Lists /\ (M!InsertAll(X) \/ M!ThrowCleared(X) \/ M!Throw(X)) => M!MapNext
      /\ c \in Containers \cup Lists /\ M!Become(X) => M!MapNext
  BY <1>3, <1>4, <1>5
<1> QED  BY <1>6 DEF X

LEMMA EmptySteps ==
    /\ M!Become({}) => M!MapNext
    /\ M!Throw({}) => M!MapNext
<1>1. M!Become({}) => M!MapNext
  BY DEF M!MapNext
<1>2. M!Throw({}) => M!MapNext
  BY DEF M!MapNext
<1> QED  BY <1>1, <1>2

LEMMA SameStep ==
    ASSUME Consistent(Vals, table), Consistent(Vals, table'), table'.values = table.values
    PROVE  /\ ret' = Nothing => M!MapNext
           /\ ret' = Thrown => M!MapNext
<1>1. AsMap(table') = AsMap(table) /\ EntriesOf(table') = EntriesOf(table)
  BY SameValues
<1>2. ASSUME ret' = Nothing PROVE M!MapNext
  <2>1. M!Rearrange
    BY <1>1, <1>2 DEF M!Rearrange, Nothing, M!Nothing
  <2> QED  BY <2>1 DEF M!MapNext
<1>3. ASSUME ret' = Thrown PROVE M!MapNext
  <2>1. EntriesOf(table) \subseteq EntriesOf(table') /\ EntriesOf(table') \subseteq EntriesOf(table) \cup {}
    BY <1>1
  <2>2. M!Throw({})
    BY <1>3, <2>1, ThrowStep
  <2> QED  BY <2>2, EmptySteps
<1> QED  BY <1>2, <1>3

-----------------------------------------------------------------------------
LEMMA ThrownInsert ==
    ASSUME Consistent(Vals, table), NEW entry \in EntryType(Vals),
           NEW r, Insertion(Vals, table, entry, r), r.end.thrown, Inserts(r)
    PROVE  M!Throw({[key |-> entry.key, val |-> entry.val]})
<1>1. table' = r.end.table /\ ret' = Thrown
  BY DEF Inserts
<1>2. Consistent(Vals, table') /\ (EntriesOf(table') = EntriesOf(table)
                                   \/ EntriesOf(table') = EntriesOf(table) \cup {entry})
  BY <1>1, InsertionEntries
<1>3. entry = [key |-> entry.key, val |-> entry.val]
  BY DEF EntryType
<1>4. M!Throw({entry})
  BY <1>1, <1>2, ThrowStep
<1> QED  BY <1>3, <1>4

(* The same with the value as it comes to be, where it was just set.       *)
LEMMA InsertedMap ==
    ASSUME Consistent(Vals, table), NEW entry \in EntryType(Vals),
           NEW r, Insertion(Vals, table, entry, r), ~r.end.thrown, r.is_new, NEW val \in Vals,
           NEW u, Consistent(Vals, u),
           \/ u = r.end.table /\ val = entry.val
           \/ u = assign(r.end.table, r.idx, val)
    PROVE  /\ entry.key \notin DOMAIN AsMap(table)
           /\ AsMap(u) = M!With(AsMap(table), entry.key, val)
           /\ u.values[r.idx + 1] = [key |-> entry.key, val |-> val]
<1> DEFINE w == r.end.table
<1>1. /\ Ready(Vals, w) /\ r.idx \in Places(w) /\ key_at(w, r.idx) = entry.key
      /\ \A i \in Places(table) : key_at(table, i) # entry.key
      /\ w.values = Append(table.values, entry)
  BY DEF Insertion
<1>2. entry.key \notin DOMAIN AsMap(table) /\ {e \in EntriesOf(table) : e.key # entry.key} = EntriesOf(table)
  BY <1>1, NoPlace
<1>3. table \in TableType(Vals) /\ w \in TableType(Vals) /\ Consistent(Vals, w)
  BY <1>1 DEF Consistent, Ready
<1>4. EntriesOf(w) = EntriesOf(table) \cup {entry}
  <2> HIDE DEF w
  <2> QED  BY <1>1, <1>3, AppendEntries
<1>5. entry = [key |-> entry.key, val |-> entry.val]
  BY DEF EntryType
<1> HIDE DEF w
<1>6. CASE u = w /\ val = entry.val
  <2>1. AsMap(u) = M!With(AsMap(table), entry.key, val)
    BY <1>2, <1>4, <1>5, <1>6, WithStep
  <2>2. u.values[r.idx + 1] \in EntriesOf(u)
    BY <1>1, <1>3, <1>6, EntriesFacts
  <2>3. u.values[r.idx + 1].key = entry.key
    BY <1>1, <1>6 DEF key_at
  <2>4. u.values[r.idx + 1] = entry
    BY <1>2, <1>4, <1>6, <2>2, <2>3
  <2> QED  BY <1>2, <1>5, <1>6, <2>1, <2>4
<1>7. CASE u = assign(w, r.idx, val)
  <2>1. /\ EntriesOf(u) = {e \in EntriesOf(w) : e.key # entry.key} \cup {[key |-> entry.key, val |-> val]}
        /\ u.values[r.idx + 1] = [key |-> entry.key, val |-> val]
    BY <1>1, <1>7, AssignEntries
  <2>2. {e \in EntriesOf(w) : e.key # entry.key} = EntriesOf(table)
    BY <1>2, <1>4
  <2>3. AsMap(u) = M!With(AsMap(table), entry.key, val)
    BY <1>2, <2>1, <2>2, WithStep
  <2> QED  BY <1>2, <2>1, <2>3
<1> QED  BY <1>6, <1>7 DEF w

LEMMA SameEntry == \A k, v, b : Entry(k, v, b) = M!Entry(k, v, b)
BY Zenon DEF Entry, M!Entry

LEMMA AssignedRecord ==
    ASSUME NEW r, r = [end |-> [table |-> r.end.table, thrown |-> r.end.thrown],
                       idx |-> r.idx, is_new |-> r.is_new],
           NEW w, NEW q, q = [r EXCEPT !.end.table = w]
    PROVE  q.end.table = w /\ q.end.thrown = r.end.thrown /\ q.idx = r.idx /\ q.is_new = r.is_new
OBVIOUS

LEMMA FoundMap ==
    ASSUME Consistent(Vals, table), NEW entry, NEW r, Insertion(Vals, table, entry, r),
           ~r.end.thrown, ~r.is_new
    PROVE  /\ r.end.table = table /\ entry.key \in DOMAIN AsMap(table)
           /\ table.values[r.idx + 1] = [key |-> entry.key, val |-> AsMap(table)[entry.key]]
           /\ \A val \in Vals : \A u : u = assign(table, r.idx, val) /\ Consistent(Vals, u) =>
                  /\ AsMap(u) = M!With(AsMap(table), entry.key, val)
                  /\ u.values[r.idx + 1] = [key |-> entry.key, val |-> val]
<1>1. /\ r.end.table = table /\ Ready(Vals, table)
      /\ r.idx \in Places(table) /\ key_at(table, r.idx) = entry.key
  BY DEF Insertion
<1>2. /\ entry.key \in DOMAIN AsMap(table)
      /\ table.values[r.idx + 1] = [key |-> entry.key, val |-> AsMap(table)[entry.key]]
  BY <1>1, PlacedKey
<1>3. ASSUME NEW val \in Vals, NEW u, u = assign(table, r.idx, val), Consistent(Vals, u)
      PROVE  /\ AsMap(u) = M!With(AsMap(table), entry.key, val)
             /\ u.values[r.idx + 1] = [key |-> entry.key, val |-> val]
  <2>1. /\ EntriesOf(u) = {e \in EntriesOf(table) : e.key # entry.key} \cup {[key |-> entry.key, val |-> val]}
        /\ u.values[r.idx + 1] = [key |-> entry.key, val |-> val]
    BY <1>1, <1>3, AssignEntries
  <2> QED  BY <1>3, <2>1, WithStep
<1> QED  BY <1>1, <1>2, <1>3

(* try_emplace and emplace.                                                *)
LEMMA EmplaceStep ==
    ASSUME Consistent(Vals, table), Consistent(Vals, table'), NEW e \in Entries,
           NEW r, Insertion(Vals, table, e, r), Inserts(r)
    PROVE  M!MapNext
<1>1. e \in EntryType(Vals) /\ e.val \in Vals
  BY TableEntries
<1>2. table' = r.end.table
      /\ ret' = IF r.end.thrown THEN Thrown
                ELSE Entry(table'.values[r.idx + 1].key, table'.values[r.idx + 1].val, r.is_new)
  BY DEF Inserts
<1>3. CASE r.end.thrown
  BY <1>1, <1>3, ThrownInsert, SingleSteps
<1>4. CASE ~r.end.thrown /\ r.is_new
  <2>1. /\ e.key \notin DOMAIN AsMap(table)
        /\ AsMap(table') = M!With(AsMap(table), e.key, e.val)
        /\ table'.values[r.idx + 1] = [key |-> e.key, val |-> e.val]
    BY <1>1, <1>2, <1>4, InsertedMap
  <2>2. AsMap(table')[e.key] = e.val
    BY <2>1 DEF M!With
  <2>3. ret' = M!Entry(e.key, e.val, TRUE)
    <3>1. ret' = Entry(e.key, e.val, r.is_new)
      BY <1>2, <1>4, <2>1
    <3>2. r.is_new = TRUE
      BY <1>4 DEF Insertion
    <3> QED  BY <3>1, <3>2, SameEntry
  <2>4. M!Insert(e.key, e.val)
    BY <2>1, <2>2, <2>3 DEF M!Insert
  <2> QED  BY <1>1, <2>4, SingleSteps
<1>5. CASE ~r.end.thrown /\ ~r.is_new
  <2>1. /\ table' = table /\ e.key \in DOMAIN AsMap(table)
        /\ table'.values[r.idx + 1] = [key |-> e.key, val |-> AsMap(table)[e.key]]
    BY <1>2, <1>5, FoundMap
  <2>2. ret' = M!Entry(e.key, AsMap(table)[e.key], FALSE)
    <3>1. ret' = Entry(e.key, AsMap(table)[e.key], r.is_new)
      BY <1>2, <1>5, <2>1
    <3>2. r.is_new = FALSE
      BY <1>5 DEF Insertion
    <3> QED  BY <3>1, <3>2, SameEntry
  <2>3. M!Insert(e.key, e.val)
    BY <2>1, <2>2 DEF M!Insert
  <2> QED  BY <1>1, <2>3, SingleSteps
<1> QED  BY <1>3, <1>4, <1>5

(* insert_or_assign, and operator[] with an assignment.                    *)
LEMMA AssignStep ==
    ASSUME Consistent(Vals, table), Consistent(Vals, table'), NEW e \in Entries,
           NEW entry \in EntryType(Vals), entry.key = e.key,
           NEW r, Insertion(Vals, table, entry, r), ~r.end.thrown,
           ret' = Entry(table'.values[r.idx + 1].key, table'.values[r.idx + 1].val, r.is_new),
           \/ table' = r.end.table /\ r.is_new /\ entry.val = e.val
           \/ table' = assign(r.end.table, r.idx, e.val)
    PROVE  M!MapNext
<1>1. e.val \in Vals
  BY TableEntries
<1>2. CASE r.is_new
  <2>1. /\ e.key \notin DOMAIN AsMap(table)
        /\ AsMap(table') = M!With(AsMap(table), e.key, e.val)
        /\ table'.values[r.idx + 1] = [key |-> e.key, val |-> e.val]
    BY <1>1, <1>2, InsertedMap
  <2>2. ret' = M!Entry(e.key, e.val, TRUE)
    <3>1. r.is_new = TRUE
      BY <1>2 DEF Insertion
    <3>2. ret' = Entry(e.key, e.val, r.is_new)
      BY <2>1
    <3> QED  BY <3>1, <3>2, SameEntry
  <2>3. M!InsertOrAssign(e.key, e.val)
    BY <2>1, <2>2 DEF M!InsertOrAssign
  <2> QED  BY <1>1, <2>3, SingleSteps
<1>3. CASE ~r.is_new
  <2>1. /\ e.key \in DOMAIN AsMap(table)
        /\ AsMap(table') = M!With(AsMap(table), e.key, e.val)
        /\ table'.values[r.idx + 1] = [key |-> e.key, val |-> e.val]
    <3>1. /\ r.end.table = table /\ entry.key \in DOMAIN AsMap(table)
          /\ \A val \in Vals : \A u : u = assign(table, r.idx, val) /\ Consistent(Vals, u) =>
                 /\ AsMap(u) = M!With(AsMap(table), entry.key, val)
                 /\ u.values[r.idx + 1] = [key |-> entry.key, val |-> val]
      BY <1>3, FoundMap
    <3>2. table' = assign(table, r.idx, e.val)
      BY <1>3, <3>1
    <3> QED  BY <1>1, <3>1, <3>2
  <2>2. ret' = M!Entry(e.key, e.val, FALSE)
    <3>1. r.is_new = FALSE
      BY <1>3 DEF Insertion
    <3>2. ret' = Entry(e.key, e.val, r.is_new)
      BY <2>1
    <3> QED  BY <3>1, <3>2, SameEntry
  <2>3. M!InsertOrAssign(e.key, e.val)
    BY <2>1, <2>2 DEF M!InsertOrAssign
  <2> QED  BY <1>1, <2>3, SingleSteps
<1> QED  BY <1>2, <1>3

LEMMA InsertCallsMap ==
    ASSUME TableInv, TableInv', NEW e \in Entries,
           TryEmplace(e) \/ Emplace(e) \/ InsertOrAssign(e) \/ Subscript(e)
    PROVE  M!MapNext
<1>1. Ready(Vals, table) /\ Consistent(Vals, table) /\ Consistent(Vals, table')
  <2>1. Usable
    BY DEF TryEmplace, Emplace, InsertOrAssign, Subscript
  <2> QED  BY <2>1 DEF TableInv, Keeps, Usable
<1>2. CASE TryEmplace(e)
  <2>1. PICK r \in do_try_emplace(table, e) : Inserts(r)
    BY <1>2 DEF TryEmplace
  <2> QED  BY <1>1, <2>1, TableEntries, TryEmplaceFacts, EmplaceStep
<1>3. CASE Emplace(e)
  <2>1. PICK r \in emplace(table, e) : Inserts(r)
    BY <1>3 DEF Emplace
  <2> QED  BY <1>1, <2>1, TableEntries, EmplaceFacts, EmplaceStep
<1>4. CASE InsertOrAssign(e)
  <2>1. PICK q \in do_insert_or_assign(table, e) : Inserts(q)
    BY <1>4 DEF InsertOrAssign
  <2>2. PICK r \in do_try_emplace(table, e) :
            q = IF r.is_new THEN r ELSE [r EXCEPT !.end.table = assign(@, r.idx, e.val)]
    BY <2>1 DEF do_insert_or_assign
  <2>3. Insertion(Vals, table, e, r) /\ e \in EntryType(Vals) /\ e.val \in Vals
    BY <1>1, TableEntries, TryEmplaceFacts
  <2>4. CASE r.is_new
    <3>1. q = r
      BY <2>2, <2>4
    <3>2. CASE r.end.thrown
      <4>1. M!Throw({[key |-> e.key, val |-> e.val]})
        BY <1>1, <2>1, <2>3, <3>1, <3>2, ThrownInsert
      <4> QED  BY <2>3, <4>1, SingleSteps
    <3>3. CASE ~r.end.thrown
      <4>1. table' = r.end.table
            /\ ret' = Entry(table'.values[r.idx + 1].key, table'.values[r.idx + 1].val, r.is_new)
        BY <2>1, <3>1, <3>3 DEF Inserts
      <4> QED  BY <1>1, <2>3, <2>4, <3>3, <4>1, AssignStep
    <3> QED  BY <3>2, <3>3
  <2>5. CASE ~r.is_new
    <3>1. q = [r EXCEPT !.end.table = assign(@, r.idx, e.val)]
      BY <2>2, <2>5
    <3>2. /\ q.end.table = assign(r.end.table, r.idx, e.val)
          /\ q.end.thrown = r.end.thrown /\ q.idx = r.idx /\ q.is_new = r.is_new
      <4> DEFINE w == assign(r.end.table, r.idx, e.val)
      <4>1. q = [r EXCEPT !.end.table = w]
        BY <3>1
      <4>2. r = [end |-> [table |-> r.end.table, thrown |-> r.end.thrown],
                 idx |-> r.idx, is_new |-> r.is_new]
        BY <2>3 DEF Insertion
      <4> HIDE DEF w
      <4>3. q.end.table = w /\ q.end.thrown = r.end.thrown /\ q.idx = r.idx /\ q.is_new = r.is_new
        BY <4>1, <4>2, AssignedRecord
      <4> QED  BY <4>3 DEF w
    <3>3. ~r.end.thrown
      BY <2>3, <2>5 DEF Insertion
    <3>4. table' = assign(r.end.table, r.idx, e.val)
          /\ ret' = Entry(table'.values[r.idx + 1].key, table'.values[r.idx + 1].val, r.is_new)
      BY <2>1, <3>2, <3>3 DEF Inserts
    <3> QED  BY <1>1, <2>3, <3>3, <3>4, AssignStep
  <2> QED  BY <2>4, <2>5
<1>5. CASE Subscript(e)
  <2> DEFINE e0 == [e EXCEPT !.val = Default]
  <2>1. PICK r \in do_try_emplace(table, e0) :
            Inserts(IF r.end.thrown THEN r ELSE [r EXCEPT !.end.table = assign(@, r.idx, e.val)])
    BY <1>5 DEF Subscript
  <2>2. e0 \in EntryType(Vals) /\ e \in EntryType(Vals) /\ e.val \in Vals
    BY TableEntries
  <2>3. e0.key = e.key /\ e0.val = Default /\ Default \in Vals
    BY <2>2 DEF EntryType, Vals
  <2> HIDE DEF e0
  <2>4. Insertion(Vals, table, e0, r)
    BY <1>1, <2>2, TryEmplaceFacts
  <2>5. CASE r.end.thrown
    <3>1. M!Throw({[key |-> e.key, val |-> Default]})
      BY <1>1, <2>1, <2>2, <2>3, <2>4, <2>5, ThrownInsert
    <3> QED  BY <2>3, <3>1, SingleSteps
  <2>6. CASE ~r.end.thrown
    <3> DEFINE q == [r EXCEPT !.end.table = assign(@, r.idx, e.val)]
    <3>1. Inserts(q)
      BY <2>1, <2>6
    <3>2. /\ q.end.table = assign(r.end.table, r.idx, e.val)
          /\ q.end.thrown = r.end.thrown /\ q.idx = r.idx /\ q.is_new = r.is_new
      <4> DEFINE w == assign(r.end.table, r.idx, e.val)
      <4>1. q = [r EXCEPT !.end.table = w]
        OBVIOUS
      <4>2. r = [end |-> [table |-> r.end.table, thrown |-> r.end.thrown],
                 idx |-> r.idx, is_new |-> r.is_new]
        BY <2>4 DEF Insertion
      <4> HIDE DEF w, q
      <4>3. q.end.table = w /\ q.end.thrown = r.end.thrown /\ q.idx = r.idx /\ q.is_new = r.is_new
        BY <4>1, <4>2, AssignedRecord
      <4> QED  BY <4>3 DEF w
    <3> HIDE DEF q
    <3>3. table' = assign(r.end.table, r.idx, e.val)
          /\ ret' = Entry(table'.values[r.idx + 1].key, table'.values[r.idx + 1].val, r.is_new)
      BY <2>6, <3>1, <3>2 DEF Inserts
    <3> QED  BY <1>1, <2>2, <2>3, <2>4, <2>6, <3>3, AssignStep
  <2> QED  BY <2>5, <2>6
<1> QED  BY <1>2, <1>3, <1>4, <1>5

-----------------------------------------------------------------------------
(* What an erasure takes from the entries, and where the others are.       *)
LEMMA ErasedEntries ==
    ASSUME NEW V, NEW t, Consistent(V, t), NEW i \in Places(t), NEW u, Erased(V, t, i, u)
    PROVE  /\ Ready(V, u) /\ size(u) = size(t) - 1 /\ size(t) \in Nat
           /\ EntriesOf(u) = EntriesOf(t) \ {t.values[i + 1]}
           /\ \A j \in 1..size(u) : j # i + 1 => u.values[j] = t.values[j]
<1> DEFINE E == [key : DOMAIN Hash, val : V]
           n == size(t)
<1>1. /\ t \in TableType(V) /\ Distinct(t) /\ n \in Nat /\ DOMAIN t.values = 1..n
      /\ i + 1 \in 1..n /\ Ready(V, u) /\ size(u) = n - 1
  BY ValueFacts DEF Consistent, Erased
<1>2. DOMAIN u.values = 1..(n - 1)
  <2>1. u \in TableType(V)
    BY <1>1 DEF Ready, Consistent
  <2> QED  BY <1>1, <2>1, ValueFacts
<1>3. \A j \in 1..(n - 1) : u.values[j] = IF j = i + 1 THEN t.values[n] ELSE t.values[j]
  <2>1. t.values \in Seq(E)
    BY <1>1 DEF TableType
  <2>2. u.values = SubSeq([t.values EXCEPT ![i + 1] = t.values[Len(t.values)]], 1, Len(t.values) - 1)
    BY DEF Erased, size
  <2> DEFINE v == t.values
  <2>3. i + 1 \in 1..Len(v)
    BY <1>1 DEF size
  <2> HIDE DEF E, v
  <2>4. \A j \in 1..(Len(v) - 1) : u.values[j] = IF j = i + 1 THEN v[Len(v)] ELSE v[j]
    <3>1. v \in Seq(E) /\ u.values = SubSeq([v EXCEPT ![i + 1] = v[Len(v)]], 1, Len(v) - 1)
      BY <2>1, <2>2 DEF v
    <3> QED  BY <2>3, <3>1, FillGap
  <2> QED  BY <2>4 DEF v, size
<1>4. ASSUME NEW j \in 1..n, NEW k \in 1..n, t.values[j] = t.values[k] PROVE j = k
  <2>1. j - 1 \in Places(t) /\ (j - 1) + 1 = j /\ k - 1 \in Places(t) /\ (k - 1) + 1 = k
    BY <1>1, EntriesFacts
  <2>2. j - 1 = k - 1
    BY <1>1, <1>4, <2>1 DEF Distinct, key_at
  <2> QED  BY <2>1, <2>2
<1> HIDE DEF E, n
<1>5. n \in 1..n /\ \A j \in 1..(n - 1) : j \in 1..n /\ j # n
  BY <1>1
<1>6. ASSUME NEW e \in EntriesOf(u) PROVE e \in EntriesOf(t) \ {t.values[i + 1]}
  <2>1. PICK j \in 1..(n - 1) : e = u.values[j]
    BY <1>2 DEF EntriesOf
  <2>2. CASE j = i + 1
    <3>1. e = t.values[n] /\ n # i + 1
      BY <1>3, <1>5, <2>1, <2>2
    <3>2. t.values[n] # t.values[i + 1]
      BY <1>1, <1>4, <1>5, <3>1
    <3> QED  BY <1>1, <1>5, <3>1, <3>2 DEF EntriesOf
  <2>3. CASE j # i + 1
    <3>1. e = t.values[j] /\ j \in 1..n
      BY <1>3, <1>5, <2>1, <2>3
    <3>2. t.values[j] # t.values[i + 1]
      BY <1>1, <1>4, <2>3, <3>1
    <3> QED  BY <1>1, <3>1, <3>2 DEF EntriesOf
  <2> QED  BY <2>2, <2>3
<1>7. ASSUME NEW e \in EntriesOf(t), e # t.values[i + 1] PROVE e \in EntriesOf(u)
  <2>1. PICK j \in 1..n : e = t.values[j]
    BY <1>1 DEF EntriesOf
  <2>2. j # i + 1
    BY <1>7, <2>1
  <2>3. CASE j = n
    <3>1. i + 1 \in 1..(n - 1)
      BY <1>1, <2>2, <2>3
    <3>2. u.values[i + 1] = t.values[n]
      BY <1>3, <3>1
    <3> QED  BY <1>2, <2>1, <2>3, <3>1, <3>2 DEF EntriesOf
  <2>4. CASE j # n
    <3>1. j \in 1..(n - 1)
      BY <1>1, <2>4
    <3> QED  BY <1>2, <1>3, <2>1, <2>2, <3>1 DEF EntriesOf
  <2> QED  BY <2>3, <2>4
<1>8. EntriesOf(u) = EntriesOf(t) \ {t.values[i + 1]}
  BY <1>6, <1>7
<1>9. \A j \in 1..size(u) : j # i + 1 => u.values[j] = t.values[j]
  BY <1>1, <1>3
<1> QED  BY <1>1, <1>8, <1>9 DEF n

(* Each place of a range has its turn, and only one.                       *)
LEMMA TurnsApart ==
    ASSUME NEW t, size(t) \in Nat, NEW first \in Nat, NEW last \in Nat,
           first =< last, last =< size(t)
    PROVE  /\ \A j, k \in 0..(last - first - 1) :
                  Turn(t, first, last, j) = Turn(t, first, last, k) => j = k
           /\ {Turn(t, first, last, k) + 1 : k \in 0..(last - first - 1)} = (first + 1)..last
<1> DEFINE s == size(t)
           m == Min({last - first, s - last})
           turn(n) == Turn(t, first, last, n)
           K == 0..(last - first - 1)
<1>1. s \in Nat /\ last - first \in Nat /\ s - last \in Nat
  OBVIOUS
<1>2. m = IF last - first =< s - last THEN last - first ELSE s - last
  <2> HIDE DEF s
  <2> QED  BY <1>1, MinOfTwo
<1>3. m \in Nat /\ m =< last - first
  <2> HIDE DEF s, m
  <2> QED  BY <1>1, <1>2
<1>4. \A n : turn(n) = IF first + n < first + m THEN first + n
                       ELSE last - 1 - (n - ((first + m) - first))
  BY Zenon DEF Turn
<1> HIDE DEF m, s, turn
<1>5. \A n \in K : turn(n) = IF n < m THEN first + n ELSE last - 1 - n + m
  BY <1>1, <1>3, <1>4
<1>6. \A n \in K : turn(n) \in Int /\ turn(n) + 1 \in (first + 1)..last
  BY <1>1, <1>3, <1>5
<1>7. \A j, k \in K : turn(j) = turn(k) => j = k
  BY <1>1, <1>3, <1>5
<1>8. ASSUME NEW x \in (first + 1)..last PROVE \E k \in K : turn(k) + 1 = x
  <2>1. CASE x - 1 < first + m
    <3>1. x - 1 - first \in K /\ turn(x - 1 - first) + 1 = x
      BY <1>1, <1>3, <1>5, <2>1
    <3> QED  BY <3>1
  <2>2. CASE ~(x - 1 < first + m)
    <3>1. last - x + m \in K /\ ~(last - x + m < m)
      BY <1>1, <1>3, <2>2
    <3>2. turn(last - x + m) + 1 = x
      <4>1. turn(last - x + m) = last - 1 - (last - x + m) + m
        BY <1>5, <3>1
      <4> QED  BY <1>1, <1>3, <4>1
    <3> QED  BY <3>1, <3>2
  <2> QED  BY <2>1, <2>2
<1>9. {turn(k) + 1 : k \in K} = (first + 1)..last
  <2> HIDE DEF K
  <2> QED  BY <1>6, <1>8
<1> QED  BY <1>7, <1>9 DEF turn

LEMMA RangeEntries ==
    ASSUME NEW V, NEW t, Ready(V, t), NEW first \in Nat, NEW last \in Nat,
           first =< last, last =< size(t), NEW u, u = erase_range(t, first, last)
    PROVE  EntriesOf(u) = EntriesOf(t) \ {t.values[i] : i \in (first + 1)..last}
<1> DEFINE n == last - first
           turn(k) == Turn(t, first, last, k)
           past(k) == {t.values[turn(j) + 1] : j \in 0..(k - 1)}
<1>1. n \in Nat /\ size(t) \in Nat
  BY ValueFacts DEF Ready, Consistent
<1>2. PICK f : /\ f[0] = t
               /\ \A k \in 1..n : f[k] = erase_it(f[k - 1], turn(k - 1))
               /\ u = f[n]
  BY <1>1, EraseRangeFunction
<1>3. /\ \A k \in 0..(n - 1) : turn(k) \in 0..(size(t) - k - 1)
      /\ \A j, k \in 0..(n - 1) : turn(j) = turn(k) => j = k
      /\ {turn(k) + 1 : k \in 0..(n - 1)} = (first + 1)..last
  <2>1. \A k \in 0..(n - 1) : turn(k) \in 0..(size(t) - k - 1)
    BY <1>1, TurnFacts
  <2>2. /\ \A j, k \in 0..(n - 1) : turn(j) = turn(k) => j = k
        /\ {turn(k) + 1 : k \in 0..(n - 1)} = (first + 1)..last
    BY <1>1, TurnsApart
  <2> QED  BY <2>1, <2>2
<1> DEFINE Done == {k \in 0..n :
                      /\ Ready(V, f[k]) /\ size(f[k]) = size(t) - k
                      /\ EntriesOf(f[k]) = EntriesOf(t) \ past(k)
                      /\ \A j \in k..(n - 1) : f[k].values[turn(j) + 1] = t.values[turn(j) + 1]}
<1> HIDE DEF turn
<1>4. 0 \in Done
  <2>1. past(0) = {}
    OBVIOUS
  <2> QED  BY <1>1, <1>2, <2>1
<1>5. ASSUME NEW k \in 0..(n - 1), k \in Done PROVE k + 1 \in Done
  <2> DEFINE i == turn(k)
             e == t.values[turn(k) + 1]
  <2>1. /\ k + 1 \in 1..n /\ k + 1 \in 0..n /\ (k + 1) - 1 = k /\ k \in Nat
        /\ k \in k..(n - 1) /\ 0..((k + 1) - 1) = (0..(k - 1)) \cup {k}
        /\ \A j \in (k + 1)..(n - 1) : j \in k..(n - 1) /\ j \in 0..(n - 1) /\ j # k /\ j \in Nat /\ j >= k + 1
    BY <1>1
  <2>2. i \in 0..(size(t) - k - 1)
    BY <1>3
  <2>3. f[k + 1] = erase_it(f[k], i)
    BY <1>2, <2>1
  <2> HIDE DEF n
  <2>4. /\ Ready(V, f[k]) /\ size(f[k]) = size(t) - k
        /\ EntriesOf(f[k]) = EntriesOf(t) \ past(k)
        /\ \A j \in k..(n - 1) : f[k].values[turn(j) + 1] = t.values[turn(j) + 1]
    BY <1>5
  <2>5. i \in Places(f[k])
    <3> HIDE DEF i
    <3> QED  BY <2>2, <2>4 DEF Places
  <2>6. Erased(V, f[k], i, f[k + 1])
    <3> HIDE DEF i
    <3> QED  BY <2>3, <2>4, <2>5, EraseItFacts
  <2>7. /\ Ready(V, f[k + 1]) /\ size(f[k + 1]) = size(f[k]) - 1
        /\ EntriesOf(f[k + 1]) = EntriesOf(f[k]) \ {f[k].values[i + 1]}
        /\ \A j \in 1..size(f[k + 1]) : j # i + 1 => f[k + 1].values[j] = f[k].values[j]
    <3> HIDE DEF i
    <3>1. Consistent(V, f[k])
      BY <2>4 DEF Ready
    <3> QED  BY <2>5, <2>6, <3>1, ErasedEntries
  <2>8. size(f[k + 1]) = size(t) - (k + 1)
    BY <1>1, <2>1, <2>4, <2>7
  <2>9. f[k].values[i + 1] = e
    BY <2>1, <2>4
  <2>10. past(k + 1) = past(k) \cup {e}
    BY <2>1
  <2>11. EntriesOf(f[k + 1]) = EntriesOf(t) \ past(k + 1)
    <3> HIDE DEF past, e, i
    <3> QED  BY <2>4, <2>7, <2>9, <2>10
  <2>12. ASSUME NEW j \in (k + 1)..(n - 1) PROVE f[k + 1].values[turn(j) + 1] = t.values[turn(j) + 1]
    <3>1. j \in k..(n - 1) /\ j \in 0..(n - 1) /\ j # k /\ j \in Nat /\ j >= k + 1
      BY <2>1
    <3>2. turn(j) \in 0..(size(t) - j - 1) /\ turn(j) # i
      BY <1>3, <3>1
    <3>3. turn(j) + 1 \in 1..size(f[k + 1]) /\ turn(j) + 1 # i + 1
      <4> HIDE DEF i
      <4> QED  BY <1>1, <2>1, <2>2, <2>8, <3>1, <3>2
    <3>4. f[k + 1].values[turn(j) + 1] = f[k].values[turn(j) + 1]
      BY <2>7, <3>3
    <3> QED  BY <2>4, <3>1, <3>4
  <2> HIDE DEF past
  <2> QED  BY <2>1, <2>7, <2>8, <2>11, <2>12
<1>6. 0..n \subseteq Done
  <2> HIDE DEF Done
  <2> QED  BY <1>1, <1>4, <1>5, UpToInduction
<1>7. EntriesOf(u) = EntriesOf(t) \ past(n)
  <2>1. n \in Done
    BY <1>1, <1>6
  <2> QED  BY <1>2, <2>1
<1>8. past(n) = {t.values[i] : i \in {turn(k) + 1 : k \in 0..(n - 1)}}
  OBVIOUS
<1> HIDE DEF past, n
<1> QED  BY <1>3, <1>7, <1>8

LEMMA IfEntries ==
    ASSUME NEW V, NEW t, Ready(V, t), NEW gone, NEW u, u = erase_if(t, gone)
    PROVE  EntriesOf(u) = EntriesOf(t) \ {t.values[i] : i \in {j \in DOMAIN t.values : t.values[j].key \in gone}}
<1> DEFINE n == size(t)
           past(k) == {t.values[i] : i \in {j \in (n - k + 1)..n : t.values[j].key \in gone}}
<1>1. n \in Nat /\ DOMAIN t.values = 1..n
  BY ValueFacts DEF Ready, Consistent
<1>2. PICK f : /\ f[0] = t
               /\ \A k \in 1..n : f[k] = IfGone(f[k - 1], n - k, gone)
               /\ u = f[n]
  BY <1>1, EraseIfFunction
<1> DEFINE Done == {k \in 0..n :
                      /\ Ready(V, f[k]) /\ size(f[k]) \in Nat /\ size(f[k]) >= n - k
                      /\ EntriesOf(f[k]) = EntriesOf(t) \ past(k)
                      /\ \A j \in 1..(n - k) : f[k].values[j] = t.values[j]}
<1>3. 0 \in Done
  <2>1. past(0) = {}
    <3>1. (n - 0 + 1)..n = {}
      BY <1>1
    <3> QED  BY <3>1
  <2> HIDE DEF past
  <2> QED  BY <1>1, <1>2, <2>1
<1>4. ASSUME NEW k \in 0..(n - 1), k \in Done PROVE k + 1 \in Done
  <2> DEFINE i == n - (k + 1)
             e == t.values[i + 1]
  <2> HIDE DEF n
  <2>1. /\ k + 1 \in 1..n /\ k + 1 \in 0..n /\ (k + 1) - 1 = k /\ k \in Nat
        /\ i \in 0..(n - k - 1) /\ i + 1 \in 1..(n - k) /\ i + 1 = n - k
        /\ (n - (k + 1) + 1)..n = ((n - k + 1)..n) \cup {i + 1}
        /\ \A j \in 1..(n - (k + 1)) : j \in 1..(n - k) /\ j # i + 1 /\ j =< n - k - 1
    BY <1>1
  <2>2. f[k + 1] = IfGone(f[k], i, gone)
    BY <1>2, <2>1
  <2>3. /\ Ready(V, f[k]) /\ size(f[k]) \in Nat /\ size(f[k]) >= n - k
        /\ EntriesOf(f[k]) = EntriesOf(t) \ past(k)
        /\ \A j \in 1..(n - k) : f[k].values[j] = t.values[j]
    BY <1>4
  <2>4. i \in Places(f[k])
    <3> HIDE DEF i
    <3> QED  BY <1>1, <2>1, <2>3 DEF Places
  <2>5. f[k].values[i + 1] = e /\ key_at(f[k], i) = e.key
    BY <2>1, <2>3 DEF key_at
  <2> HIDE DEF i
  <2>6. past(k + 1) = past(k) \cup (IF e.key \in gone THEN {e} ELSE {})
    <3>1. CASE e.key \in gone
      BY <2>1, <3>1
    <3>2. CASE e.key \notin gone
      BY <2>1, <3>2
    <3> QED  BY <3>1, <3>2
  <2> HIDE DEF past, e
  <2>7. CASE e.key \notin gone
    <3>1. f[k + 1] = f[k]
      BY <2>2, <2>5, <2>7 DEF IfGone
    <3>2. size(f[k + 1]) >= n - (k + 1)
      BY <1>1, <2>1, <2>3, <3>1
    <3> QED  BY <2>1, <2>3, <2>6, <2>7, <3>1, <3>2
  <2>8. CASE e.key \in gone
    <3>1. Erased(V, f[k], i, f[k + 1])
      BY <2>2, <2>3, <2>4, <2>5, <2>8, EraseItFacts DEF IfGone
    <3>2. /\ Ready(V, f[k + 1]) /\ size(f[k + 1]) = size(f[k]) - 1
          /\ EntriesOf(f[k + 1]) = EntriesOf(f[k]) \ {f[k].values[i + 1]}
          /\ \A j \in 1..size(f[k + 1]) : j # i + 1 => f[k + 1].values[j] = f[k].values[j]
      <4>1. Consistent(V, f[k])
        BY <2>3 DEF Ready
      <4> QED  BY <2>4, <3>1, <4>1, ErasedEntries
    <3>3. size(f[k + 1]) \in Nat /\ size(f[k + 1]) >= n - (k + 1)
      BY <1>1, <2>1, <2>3, <3>2
    <3>4. EntriesOf(f[k + 1]) = EntriesOf(t) \ past(k + 1)
      BY <2>3, <2>5, <2>6, <2>8, <3>2
    <3>5. ASSUME NEW j \in 1..(n - (k + 1)) PROVE f[k + 1].values[j] = t.values[j]
      <4>1. j \in 1..size(f[k + 1]) /\ j \in 1..(n - k) /\ j # i + 1
        BY <1>1, <2>1, <3>3
      <4> QED  BY <2>3, <3>2, <4>1
    <3> QED  BY <2>1, <3>2, <3>3, <3>4, <3>5
  <2> QED  BY <2>7, <2>8
<1>5. 0..n \subseteq Done
  <2> HIDE DEF Done
  <2> QED  BY <1>1, <1>3, <1>4, UpToInduction
<1>6. EntriesOf(u) = EntriesOf(t) \ past(n)
  <2>1. n \in Done
    <3> HIDE DEF Done, n
    <3> QED  BY <1>1, <1>5
  <2> QED  BY <1>2, <2>1
<1>7. (n - n + 1)..n = DOMAIN t.values
  BY <1>1
<1> HIDE DEF n
<1> QED  BY <1>6, <1>7

LEMMA EraseCallsMap ==
    ASSUME TableInv, TableInv',
           \/ \E key \in TableKeys : EraseKey(key)
           \/ \E i \in DOMAIN table.values : EraseIt(i)
           \/ \E i, j \in DOMAIN table.values : i < j /\ EraseRange(i, j)
           \/ \E ks \in Preds : EraseIf(ks)
    PROVE  M!MapNext
<1>1. Ready(Vals, table) /\ Consistent(Vals, table) /\ Consistent(Vals, table')
  <2>1. Usable
    BY DEF EraseKey, EraseIt, EraseRange, EraseIf
  <2> QED  BY <2>1 DEF TableInv, Keeps, Usable
<1>2. /\ size(table) \in Nat /\ DOMAIN table.values = 1..size(table)
      /\ \A i \in 1..size(table) : i - 1 \in Places(table) /\ (i - 1) + 1 = i
      /\ \A i \in Places(table) : i + 1 \in 1..size(table)
  <2>1. table \in TableType(Vals)
    BY <1>1 DEF Consistent
  <2> QED  BY <2>1, ValueFacts, EntriesFacts
<1>3. ASSUME NEW t, NEW P \in SUBSET DOMAIN table.values, Erases(t, P),
             EntriesOf(t) = EntriesOf(table) \ {table.values[i] : i \in P}
      PROVE  M!MapNext
  <2>1. table' = t /\ ret' = Gone(table.values, P)
    BY <1>3 DEF Erases
  <2>2. EntriesOf(table') = EntriesOf(table) \ {table.values[i] : i \in P}
    BY <1>3, <2>1
  <2>3. \E K \in SUBSET DOMAIN AsMap(table) : M!Erase(K)
    BY <1>1, <2>1, <2>2, EraseStep
  <2> QED  BY <2>3 DEF M!MapNext
<1>4. ASSUME NEW key \in TableKeys, EraseKey(key) PROVE M!MapNext
  <2> DEFINE u == do_erase_key(table, key)
             b == EraseAt(table, key)
             i == at(table, b).value_idx
  <2>1. Erases(u, IF table.values = << >> \/ b = -1 THEN {} ELSE {i + 1})
    BY <1>4 DEF EraseKey
  <2>2. \/ /\ u = table /\ \A j \in Places(table) : key_at(table, j) # key
        \/ /\ table.values # << >> /\ b # -1 /\ i \in Places(table)
           /\ key_at(table, i) = key /\ Erased(Vals, table, i, u)
    <3>1. key \in DOMAIN Hash
      BY TableEntries
    <3> QED  BY <1>1, <3>1, EraseKeyFacts
  <2>3. CASE table.values = << >> \/ b = -1
    <3>1. Erases(u, {}) /\ u = table
      BY <2>1, <2>2, <2>3
    <3>2. EntriesOf(u) = EntriesOf(table) \ {table.values[j] : j \in {}}
      BY <3>1
    <3> HIDE DEF u
    <3> QED  BY <1>3, <3>1, <3>2
  <2>4. CASE ~(table.values = << >> \/ b = -1)
    <3>1. Erases(u, {i + 1})
      BY <2>1, <2>4
    <3>2. i \in Places(table) /\ Erased(Vals, table, i, u)
      <4>1. ASSUME u = table, \A j \in Places(table) : key_at(table, j) # key PROVE b = -1
        <5>1. Shaped(table) /\ Indexed(table, Places(table)) /\ key \in DOMAIN Hash
          BY <1>1, ReadyShaped, TableEntries DEF Ready
        <5> QED  BY <4>1, <5>1, AbsentFacts
      <4> QED  BY <2>2, <2>4, <4>1
    <3> HIDE DEF u, i
    <3>3. EntriesOf(u) = EntriesOf(table) \ {table.values[i + 1]}
      BY <1>1, <3>2, ErasedEntries
    <3>4. {i + 1} \in SUBSET DOMAIN table.values
          /\ EntriesOf(u) = EntriesOf(table) \ {table.values[j] : j \in {i + 1}}
      BY <1>2, <3>2, <3>3
    <3> QED  BY <1>3, <3>1, <3>4
  <2> QED  BY <2>3, <2>4
<1>5. ASSUME NEW i \in DOMAIN table.values, EraseIt(i) PROVE M!MapNext
  <2> DEFINE u == erase_it(table, i - 1)
  <2>1. Erases(u, {i})
    BY <1>5 DEF EraseIt
  <2>2. Erased(Vals, table, i - 1, u)
    BY <1>1, <1>2, EraseItFacts
  <2> HIDE DEF u
  <2>3. EntriesOf(u) = EntriesOf(table) \ {table.values[(i - 1) + 1]}
    BY <1>1, <1>2, <2>2, ErasedEntries
  <2>4. EntriesOf(u) = EntriesOf(table) \ {table.values[j] : j \in {i}}
    BY <1>2, <2>3
  <2>5. {i} \in SUBSET DOMAIN table.values
    OBVIOUS
  <2> QED  BY <1>3, <2>1, <2>4, <2>5
<1>6. ASSUME NEW i \in DOMAIN table.values, NEW j \in DOMAIN table.values, i < j, EraseRange(i, j)
      PROVE  M!MapNext
  <2> DEFINE u == erase_range(table, i - 1, j)
  <2>1. Erases(u, i..j)
    BY <1>6 DEF EraseRange
  <2>2. i - 1 \in Nat /\ j \in Nat /\ i - 1 =< j /\ j =< size(table) /\ ((i - 1) + 1)..j = i..j
        /\ i..j \in SUBSET DOMAIN table.values
    BY <1>2, <1>6
  <2>3. EntriesOf(u) = EntriesOf(table) \ {table.values[k] : k \in ((i - 1) + 1)..j}
    BY <1>1, <2>2, RangeEntries
  <2> HIDE DEF u
  <2>4. EntriesOf(u) = EntriesOf(table) \ {table.values[k] : k \in i..j}
    BY <2>2, <2>3
  <2> QED  BY <1>3, <2>1, <2>2, <2>4
<1>7. ASSUME NEW gone \in Preds, EraseIf(gone) PROVE M!MapNext
  <2> DEFINE u == erase_if(table, gone)
             P == {j \in DOMAIN table.values : table.values[j].key \in gone}
  <2>1. Erases(u, P)
    BY <1>7 DEF EraseIf, PlacesOf
  <2>2. EntriesOf(u) = EntriesOf(table) \ {table.values[i] : i \in P}
    BY <1>1, IfEntries
  <2>3. P \in SUBSET DOMAIN table.values
    OBVIOUS
  <2> HIDE DEF u, P
  <2> QED  BY <1>3, <2>1, <2>2, <2>3
<1> QED  BY <1>4, <1>5, <1>6, <1>7

(* extract() &&.                                                           *)
LEMMA ExtractAllMap ==
    ASSUME TableInv, TableInv', ExtractAll
    PROVE  M!MapNext
<1>1. Consistent(Vals, table) /\ Consistent(Vals, table')
  BY DEF TableInv, Keeps
<1>2. table' = [table EXCEPT !.values = << >>] /\ ret' = Gone(table.values, DOMAIN table.values)
  BY DEF ExtractAll
<1>3. EntriesOf(table') = {}
  <2>1. table'.values = << >>
    BY <1>1, <1>2 DEF Consistent, TableType
  <2> QED  BY <2>1 DEF EntriesOf
<1>4. EntriesOf(table) = {table.values[i] : i \in DOMAIN table.values}
  BY DEF EntriesOf
<1>5. DOMAIN table.values \in SUBSET DOMAIN table.values
      /\ EntriesOf(table') = EntriesOf(table) \ {table.values[i] : i \in DOMAIN table.values}
  BY <1>3, <1>4
<1>6. \E K \in SUBSET DOMAIN AsMap(table) : M!Erase(K)
  BY <1>1, <1>2, <1>5, EraseStep
<1> QED  BY <1>6 DEF M!MapNext

-----------------------------------------------------------------------------
(* What insert_range adds: entries of its own, and all their keys unless   *)
(* it fails.                                                               *)
Gained(t, X, e) ==
    /\ EntriesOf(t) \subseteq EntriesOf(e.table)
    /\ EntriesOf(e.table) \subseteq EntriesOf(t) \cup X
    /\ ~e.thrown => {x.key : x \in X} \subseteq {x.key : x \in EntriesOf(e.table)}

LEMMA RangeInserted ==
    ASSUME NEW V, NEW t, Ready(V, t), NEW entries \in Seq(EntryType(V)),
           NEW e \in insert_range(t, entries)
    PROVE  Ended(V, e) /\ Gained(t, {entries[i] : i \in DOMAIN entries}, e)
<1> DEFINE n == Len(entries)
           X == {entries[i] : i \in DOMAIN entries}
           S == EntriesOf(t)
           T(x) == EntriesOf(x.table)
<1>1. n \in Nat /\ DOMAIN entries = 1..n /\ \A k \in 1..n : entries[k] \in EntryType(V)
  <2> DEFINE E == EntryType(V)
  <2>1. entries \in Seq(E)
    OBVIOUS
  <2> HIDE DEF E
  <2>2. n \in Nat /\ DOMAIN entries = 1..n /\ \A k \in 1..n : entries[k] \in E
    BY ONLY <2>1
  <2> QED  BY <2>2 DEF E
<1>2. PICK f : /\ f[0] = {Ends(t)}
               /\ \A k \in 1..n : f[k] = Turns(f[k - 1], entries[k])
               /\ insert_range(t, entries) = f[n]
  BY <1>1, InsertRangeFunction
<1> DEFINE Held(x, k) == \E h \in T(x) : h.key = entries[k].key
           Good(k, x) == /\ Ended(V, x) /\ S \subseteq T(x) /\ T(x) \subseteq S \cup X
                         /\ ~x.thrown => \A j \in 1..k : Held(x, j)
           Done == {k \in 0..n : \A x \in f[k] : Good(k, x)}
<1>3. 0 \in Done
  <2>1. Ended(V, Ends(t)) /\ Ends(t).table = t
    BY ReadyLeft DEF Ended, Ends
  <2>2. Good(0, Ends(t))
    BY <2>1
  <2> HIDE DEF Good
  <2> QED  BY <1>1, <1>2, <2>2
<1>4. ASSUME NEW k \in 0..(n - 1), k \in Done PROVE k + 1 \in Done
  <2>1. /\ k + 1 \in 1..n /\ k + 1 \in 0..n /\ (k + 1) - 1 = k
        /\ 1..(k + 1) = (1..k) \cup {k + 1} /\ \A j \in 1..k : j \in 1..n
    BY <1>1
  <2>2. ASSUME NEW y \in f[k + 1] PROVE Good(k + 1, y)
    <3>1. PICK x \in f[k] : y \in IF x.thrown THEN {x}
                                   ELSE {r.end : r \in emplace(x.table, entries[k + 1])}
      <4>1. y \in Turns(f[k], entries[k + 1])
        BY <1>2, <2>1
      <4> QED  BY <4>1 DEF Turns
    <3>2. Good(k, x)
      BY <1>4
    <3>3. CASE x.thrown
      <4>1. y = x
        BY <3>1, <3>3
      <4> QED  BY <3>2, <3>3, <4>1
    <3>4. CASE ~x.thrown
      <4>1. PICK r \in emplace(x.table, entries[k + 1]) : y = r.end
        BY <3>1, <3>4
      <4>2. Ready(V, x.table) /\ Consistent(V, x.table)
        BY <3>2, <3>4 DEF Ended, Ready
      <4>3. Insertion(V, x.table, entries[k + 1], r)
        BY <1>1, <2>1, <4>2, EmplaceFacts
      <4>4. Ended(V, y)
        BY <4>1, <4>3 DEF Insertion, Ended
      <4>5. /\ T(y) = T(x) \/ T(y) = T(x) \cup {entries[k + 1]}
            /\ ~y.thrown => Held(y, k + 1)
        BY <1>1, <2>1, <4>1, <4>2, <4>3, InsertionEntries
      <4>6. entries[k + 1] \in X
        BY <1>1, <2>1
      <4>7. S \subseteq T(x) /\ T(x) \subseteq S \cup X /\ \A j \in 1..k : Held(x, j)
        BY <3>2, <3>4
      <4> HIDE DEF T, S, X
      <4>8. \A j \in 1..k : Held(y, j)
        BY <4>5, <4>7
      <4>9. ~y.thrown => \A j \in 1..(k + 1) : Held(y, j)
        <5> HIDE DEF Held
        <5> QED  BY <2>1, <4>5, <4>8
      <4>10. S \subseteq T(y) /\ T(y) \subseteq S \cup X
        BY <4>5, <4>6, <4>7
      <4> QED  BY <4>4, <4>9, <4>10
    <3> QED  BY <3>3, <3>4
  <2> HIDE DEF Good
  <2> QED  BY <2>1, <2>2
<1>5. 0..n \subseteq Done
  <2> HIDE DEF Done
  <2> QED  BY <1>1, <1>3, <1>4, UpToInduction
<1>6. Good(n, e)
  <2>1. n \in Done
    <3> HIDE DEF Done, n
    <3> QED  BY <1>1, <1>5
  <2> HIDE DEF Good
  <2> QED  BY <1>2, <2>1
<1>7. ~e.thrown => {x.key : x \in X} \subseteq {x.key : x \in EntriesOf(e.table)}
  BY <1>1, <1>6
<1> QED  BY <1>6, <1>7 DEF Gained

LEMMA NoEntries == ASSUME NEW t, t.values = << >> PROVE EntriesOf(t) = {}
BY DEF EntriesOf

LEMMA HoldsGained ==
    ASSUME NEW t, EntriesOf(t) = {}, NEW X, NEW e, Gained(t, X, e)
    PROVE  EntriesOf(e.table) \subseteq X /\ (~e.thrown => Holding(e.table, X))
BY DEF Gained, Holding

(* Calls that leave the values as they are, but for the next three.        *)
LEMMA SameCallsMap ==
    ASSUME TableInv, TableInv',
           \/ \E n \in Counts : Reserve(n) \/ Rehash(n)
           \/ \E load \in Loads : SetLoad(load)
           \/ CopyConstruct
    PROVE  M!MapNext
<1>1. Consistent(Vals, table) /\ Consistent(Vals, table') /\ table \in TableType(Vals)
      /\ (Usable => Ready(Vals, table))
  BY DEF TableInv, Keeps, Consistent, Usable
<1>2. ASSUME NEW e, e.table.values = table.values, Becomes(e) PROVE M!MapNext
  <2>1. table'.values = table.values /\ (ret' = Nothing \/ ret' = Thrown)
    BY <1>2 DEF Becomes
  <2> QED  BY <1>1, <2>1, SameStep
<1>3. ASSUME NEW n \in Counts, Reserve(n) PROVE M!MapNext
  <2>1. PICK e \in reserve(table, n) : Becomes(e)
    BY <1>3 DEF Reserve
  <2>2. e.table.values = table.values
    BY <1>1, <1>3, TableEntries, ReserveFacts DEF Reserve, Fits
  <2> QED  BY <1>2, <2>1, <2>2
<1>4. ASSUME NEW n \in Counts, Rehash(n) PROVE M!MapNext
  <2>1. PICK e \in rehash(table, n) : Becomes(e)
    BY <1>4 DEF Rehash
  <2>2. e.table.values = table.values
    BY <1>1, <1>4, TableEntries, RehashFacts DEF Rehash, Fits
  <2> QED  BY <1>2, <2>1, <2>2
<1>5. ASSUME NEW load \in Loads, SetLoad(load) PROVE M!MapNext
  <2> DEFINE u == max_load_factor(table, load)
  <2>1. Becomes(Ends(u)) /\ Ends(u).table = u
    BY <1>5 DEF SetLoad, Ends
  <2>2. u.values = table.values
    BY <1>1, TableEntries, LoadChange
  <2> HIDE DEF u
  <2> QED  BY <1>2, <2>1, <2>2
<1>6. ASSUME CopyConstruct PROVE M!MapNext
  <2>1. PICK e \in Copied(table) : IF e.thrown THEN Becomes(Throws(table)) ELSE Becomes(e)
    BY <1>6 DEF CopyConstruct
  <2>2. CASE e.thrown
    BY <1>2, <2>1, <2>2, EndsLeft
  <2>3. CASE ~e.thrown
    <3>1. e.table.values = table.values
      BY <1>1, <1>6, <2>1, <2>3, CopiedFacts DEF CopyConstruct
    <3> QED  BY <1>2, <2>1, <2>3, <3>1
  <2> QED  BY <2>2, <2>3
<1> QED  BY <1>3, <1>4, <1>5, <1>6

LEMMA EmptyCallsMap ==
    ASSUME TableInv, TableInv', Clear \/ MoveAway
    PROVE  M!MapNext
<1>1. /\ Consistent(Vals, table') /\ table \in TableType(Vals) /\ Sized(table)
  BY DEF TableInv, Keeps, Consistent
<1>2. table'.values = << >> /\ ret' = Nothing
  <2>1. CASE Clear
    <3>1. table' = clear(table) /\ ret' = Nothing
      BY <2>1 DEF Clear, Becomes, Ends
    <3> QED  BY <1>1, <3>1, ClearsFacts
  <2>2. CASE MoveAway
    <3>1. table' = MovedFrom(table) /\ ret' = Nothing
      BY <2>2 DEF MoveAway, Becomes, Ends
    <3> QED  BY <1>1, <3>1, MovedFromFacts
  <2> QED  BY <2>1, <2>2
<1>3. EntriesOf(table') = {}
  BY <1>2, NoEntries
<1>4. M!Become({})
  BY <1>1, <1>2, <1>3, BecomeStep
<1> QED  BY <1>4, EmptySteps

LEMMA ListCallsMap ==
    ASSUME TableInv, TableInv', NEW c \in Lists,
           \/ InsertRange(c) \/ AssignList(c)
           \/ \E n \in Counts : Construct(n, c)
    PROVE  M!MapNext
<1> DEFINE X == {c[i] : i \in DOMAIN c}
<1>1. /\ Consistent(Vals, table) /\ Consistent(Vals, table') /\ table \in TableType(Vals) /\ Sized(table)
      /\ (Usable => Ready(Vals, table)) /\ c \in Seq(EntryType(Vals))
  BY TableEntries DEF TableInv, Keeps, Consistent, Usable
<1>2. (M!InsertAll(X) \/ M!ThrowCleared(X) \/ M!Throw(X) \/ M!Become(X)) => M!MapNext
  BY ListSteps
<1>3. CASE InsertRange(c)
  <2>1. PICK e \in insert_range(table, c) : Becomes(e)
    BY <1>3 DEF InsertRange
  <2>2. Gained(table, X, e)
    BY <1>1, <1>3, RangeInserted DEF InsertRange
  <2> HIDE DEF X
  <2>3. table' = e.table /\ ret' = IF e.thrown THEN Thrown ELSE Nothing
    BY <2>1 DEF Becomes
  <2>4. /\ EntriesOf(table) \subseteq EntriesOf(table') /\ EntriesOf(table') \subseteq EntriesOf(table) \cup X
        /\ ~e.thrown => {x.key : x \in X} \subseteq {x.key : x \in EntriesOf(table')}
    BY <2>2, <2>3 DEF Gained
  <2>5. CASE e.thrown
    <3>1. M!Throw(X)
      BY <1>1, <2>3, <2>4, <2>5, ThrowStep
    <3> QED  BY <1>2, <3>1
  <2>6. CASE ~e.thrown
    <3>1. M!InsertAll(X)
      BY <1>1, <2>3, <2>4, <2>6, InsertAllStep
    <3> QED  BY <1>2, <3>1
  <2> QED  BY <2>5, <2>6
<1>4. CASE AssignList(c)
  <2> DEFINE u == clear(table)
  <2>1. PICK e \in insert_range(u, c) : table' = e.table /\ ret' = IF e.thrown THEN ThrownCleared ELSE Nothing
    BY <1>4 DEF AssignList
  <2>2. Ready(Vals, u) /\ u.values = << >>
    BY <1>1, <1>4, ClearsFacts DEF AssignList, Left
  <2> HIDE DEF u
  <2>3. Gained(u, X, e)
    BY <1>1, <2>2, RangeInserted
  <2> HIDE DEF X
  <2>4. EntriesOf(table') \subseteq X /\ (~e.thrown => Holding(table', X))
    BY <2>1, <2>2, <2>3, NoEntries, HoldsGained
  <2>5. CASE e.thrown
    <3>1. M!ThrowCleared(X)
      BY <1>1, <2>1, <2>4, <2>5, ThrowClearedStep
    <3> QED  BY <1>2, <3>1
  <2>6. CASE ~e.thrown
    <3>1. {x.key : x \in X} \subseteq {x.key : x \in EntriesOf(table')} /\ ret' = Nothing
      BY <2>1, <2>4, <2>6 DEF Holding
    <3>2. M!Become(X)
      BY <1>1, <2>4, <3>1, BecomeStep
    <3> QED  BY <1>2, <3>2
  <2> QED  BY <2>5, <2>6
<1>5. ASSUME NEW n \in Counts, Construct(n, c) PROVE M!MapNext
  <2>1. PICK e \in Filled(n, c) :
            IF e.thrown THEN Becomes(Throws(table)) /\ UNCHANGED indexed
            ELSE Becomes(e) /\ indexed' = TRUE
    BY <1>5 DEF Construct
  <2>2. CASE e.thrown
    <3>1. table'.values = table.values /\ ret' = Thrown
      BY <2>1, <2>2 DEF Becomes, Throws
    <3> QED  BY <1>1, <3>1, SameStep
  <2>3. CASE ~e.thrown
    <3>1. PICK x \in Constructed(n) : e \in IF x.thrown THEN {x} ELSE insert_range(x.table, c)
      BY <2>1 DEF Filled
    <3>2. ~x.thrown /\ e \in insert_range(x.table, c)
      BY <2>3, <3>1
    <3>3. Ready(Vals, x.table) /\ x.table.values = << >>
      BY <3>1, <3>2, TableEntries, ConstructedFacts DEF Ended
    <3>4. Gained(x.table, X, e)
      BY <1>1, <3>2, <3>3, RangeInserted
    <3> HIDE DEF X
    <3>5. table' = e.table /\ ret' = Nothing
      BY <2>1, <2>3 DEF Becomes
    <3>6. EntriesOf(table') \subseteq X /\ Holding(table', X)
      BY <2>3, <3>3, <3>4, <3>5, NoEntries, HoldsGained
    <3>7. {y.key : y \in X} \subseteq {y.key : y \in EntriesOf(table')}
      BY <3>6 DEF Holding
    <3>8. M!Become(X)
      BY <1>1, <3>5, <3>6, <3>7, BecomeStep
    <3> QED  BY <1>2, <3>8
  <2> QED  BY <2>2, <2>3
<1> QED  BY <1>3, <1>4, <1>5

LEMMA ReplaceCallMap ==
    ASSUME TableInv, TableInv', NEW c \in Containers, Replace(c)
    PROVE  M!MapNext
<1> DEFINE X == {c[i] : i \in DOMAIN c}
<1>1. Consistent(Vals, table) /\ Consistent(Vals, table') /\ c \in Seq(EntryType(Vals))
  BY TableEntries DEF TableInv, Keeps
<1>2. M!Become(X) => M!MapNext
  BY ListSteps
<1>3. PICK e \in replace(table, c) : table' = e.table /\ ret' = IF e.thrown THEN Thrown ELSE Nothing
  BY DEF Replace, Becomes
<1>4. \/ e = Throws(table)
      \/ /\ Ended(Vals, e)
         /\ IF e.thrown THEN e.table.values = table.values ELSE Holding(e.table, X)
  BY <1>1, ReplaceFacts DEF Replace, Fits
<1> HIDE DEF X
<1>5. CASE e = Throws(table) \/ (e.thrown /\ e.table.values = table.values)
  <2>1. table'.values = table.values /\ ret' = Thrown
    BY <1>3, <1>5 DEF Throws
  <2> QED  BY <1>1, <2>1, SameStep
<1>6. CASE ~e.thrown /\ Holding(e.table, X)
  <2>1. /\ EntriesOf(table') \subseteq X /\ ret' = Nothing
        /\ {y.key : y \in X} \subseteq {y.key : y \in EntriesOf(table')}
    BY <1>3, <1>6 DEF Holding
  <2>2. M!Become(X)
    BY <1>1, <2>1, BecomeStep
  <2> QED  BY <1>2, <2>2
<1> QED  BY <1>4, <1>5, <1>6

-----------------------------------------------------------------------------
(* What a search finds, as an entry of the map.                            *)
LEMMA SearchFacts ==
    ASSUME NEW V, NEW t, Ready(V, t), NEW key \in DOMAIN Hash, NEW i, i = do_find(t, key)
    PROVE  IF i = end(t) THEN key \notin DOMAIN AsMap(t)
           ELSE key \in DOMAIN AsMap(t) /\ t.values[i + 1] = [key |-> key, val |-> AsMap(t)[key]]
<1>1. Shaped(t) /\ Indexed(t, Places(t)) /\ size(t) \in Nat /\ Consistent(V, t)
  BY ReadyShaped, ValueFacts DEF Ready, Consistent
<1>2. CASE \A j \in Places(t) : key_at(t, j) # key
  <2>1. i = end(t)
    BY <1>1, <1>2, AbsentFacts
  <2> QED  BY <1>1, <1>2, <2>1, NoPlace
<1>3. CASE \E j \in Places(t) : key_at(t, j) = key
  <2>1. PICK j \in Places(t) : key_at(t, j) = key
    BY <1>3
  <2>2. j \in Nat /\ j < size(t)
    BY <1>1, <2>1 DEF Places
  <2>3. t.values # << >>
    BY <1>1, <2>2 DEF size
  <2>4. i = j
    BY <1>1, <2>1, <2>3, PresentFacts
  <2>5. i # end(t)
    BY <1>1, <2>2, <2>4 DEF end
  <2> QED  BY <1>1, <2>1, <2>4, <2>5, PlacedKey
<1> QED  BY <1>2, <1>3

LEMMA FindCallsMap ==
    ASSUME TableInv, NEW key \in TableKeys, Find(key) \/ At(key)
    PROVE  M!MapNext
<1> DEFINE i == do_find(table, key)
           m == AsMap(table)
<1>1. PICK missing \in {Nothing, Missing} : Finds(key, missing)
  BY DEF Find, At
<1>2. /\ Usable \/ table.values = << >>
      /\ ret' = IF i = end(table) THEN missing
                ELSE Entry(table.values[i + 1].key, table.values[i + 1].val, FALSE)
      /\ UNCHANGED table
  BY <1>1 DEF Finds
<1>3. IF i = end(table) THEN key \notin DOMAIN m
      ELSE key \in DOMAIN m /\ table.values[i + 1] = [key |-> key, val |-> m[key]]
  <2>1. CASE Usable
    <3>1. Ready(Vals, table) /\ key \in DOMAIN Hash
      BY <2>1, TableEntries DEF TableInv, Keeps, Usable
    <3> QED  BY <3>1, SearchFacts
  <2>2. CASE table.values = << >>
    <3>1. i = end(table)
      BY <2>2 DEF do_find
    <3>2. IsMap(m, {})
      BY <2>2, AsMapIs, NoEntries DEF TableInv, Keeps, Consistent
    <3>3. DOMAIN m = {}
      <4>1. {} \in SUBSET EntryType(Vals)
        OBVIOUS
      <4> HIDE DEF m
      <4> QED  BY <3>2, <4>1, MapFacts
    <3> QED  BY <3>1, <3>3
  <2> QED  BY <1>2, <2>1, <2>2
<1> HIDE DEF i
<1>4. ret' \in IF key \in DOMAIN m THEN {M!Entry(key, m[key], FALSE)} ELSE {M!Nothing, M!Missing}
  <2>1. CASE i = end(table)
    <3>1. missing \in {M!Nothing, M!Missing}
      BY <1>1 DEF Nothing, Missing, M!Nothing, M!Missing
    <3> QED  BY <1>2, <1>3, <2>1, <3>1
  <2>2. CASE i # end(table)
    <3>1. key \in DOMAIN m /\ table.values[i + 1] = [key |-> key, val |-> m[key]]
      BY <1>3, <2>2
    <3>2. ret' = Entry(key, m[key], FALSE)
      <4> HIDE DEF m
      <4> QED  BY <1>2, <2>2, <3>1
    <3> QED  BY <3>1, <3>2, SameEntry
  <2> QED  BY <2>1, <2>2
<1>5. AsMap(table') = AsMap(table)
  BY <1>2
<1>6. M!Find(key)
  BY <1>4, <1>5 DEF M!Find
<1> QED  BY <1>6 DEF M!MapNext

-----------------------------------------------------------------------------
(* operator== says whether two tables are the same map.                    *)
LEMMA EntriesCount ==
    ASSUME NEW V, NEW t, Consistent(V, t)
    PROVE  IsFiniteSet(EntriesOf(t)) /\ Cardinality(EntriesOf(t)) = size(t)
<1> DEFINE n == size(t)
           S == EntriesOf(t)
           f == [i \in 1..n |-> t.values[i]]
<1>1. t \in TableType(V) /\ Distinct(t) /\ n \in Nat /\ DOMAIN t.values = 1..n
  BY ValueFacts DEF Consistent
<1>2. f \in [1..n -> S] /\ \A e \in S : \E i \in 1..n : f[i] = e
  BY <1>1 DEF EntriesOf
<1>3. \A i, j \in 1..n : f[i] = f[j] => i = j
  <2> SUFFICES ASSUME NEW i \in 1..n, NEW j \in 1..n, t.values[i] = t.values[j] PROVE i = j
    OBVIOUS
  <2>1. i - 1 \in Places(t) /\ (i - 1) + 1 = i /\ j - 1 \in Places(t) /\ (j - 1) + 1 = j
    BY <1>1, EntriesFacts
  <2>2. i - 1 = j - 1
    BY <1>1, <2>1 DEF Distinct, key_at
  <2> QED  BY <2>1, <2>2
<1> HIDE DEF f, S, n
<1>4. ExistsBijection(1..n, S)
  BY <1>2, <1>3 DEF ExistsBijection, Bijection, Injection, Surjection, IsInjective
<1>5. IsFiniteSet(S) /\ Cardinality(S) = n
  BY <1>1, <1>4, FS_CountingElements, FS_NatBijection
<1> QED  BY <1>5 DEF S, n

LEMMA EqualFacts ==
    ASSUME NEW V, NEW a, Ready(V, a), NEW b, Consistent(V, b)
    PROVE  equal(a, b) <=> AsMap(a) = AsMap(b)
<1> DEFINE S == EntriesOf(a)
           T == EntriesOf(b)
           m == AsMap(a)
           n == AsMap(b)
<1>1. /\ IsMap(m, S) /\ S \in SUBSET EntryType(V) /\ IsMap(n, T) /\ T \in SUBSET EntryType(V)
      /\ IsFiniteSet(S) /\ Cardinality(S) = size(a) /\ IsFiniteSet(T) /\ Cardinality(T) = size(b)
  BY AsMapIs, EntriesCount DEF Ready, Consistent
<1>2. /\ \A k \in DOMAIN m : [key |-> k, val |-> m[k]] \in S
      /\ \A e \in S : e = [key |-> e.key, val |-> m[e.key]]
      /\ DOMAIN m = {e.key : e \in S}
  <2> HIDE DEF m, S
  <2> QED  BY <1>1, MapFacts
<1>3. /\ \A k \in DOMAIN n : [key |-> k, val |-> n[k]] \in T
      /\ \A e \in T : e = [key |-> e.key, val |-> n[e.key]]
      /\ DOMAIN n = {e.key : e \in T}
  <2> HIDE DEF n, T
  <2> QED  BY <1>1, MapFacts
<1> DEFINE Same(e) == LET i == do_find(a, e.key) IN i # end(a) /\ a.values[i + 1].val = e.val
<1>4. equal(a, b) <=> size(a) = size(b) /\ \A e \in T : Same(e)
  BY DEF equal, EntriesOf
<1>5. ASSUME NEW e \in T PROVE Same(e) <=> e \in S
  <2> DEFINE i == do_find(a, e.key)
  <2>1. e \in [key : DOMAIN Hash, val : V] /\ e = [key |-> e.key, val |-> e.val]
    BY <1>1 DEF EntryType
  <2>2. IF i = end(a) THEN e.key \notin DOMAIN m
        ELSE e.key \in DOMAIN m /\ a.values[i + 1] = [key |-> e.key, val |-> m[e.key]]
    BY <2>1, SearchFacts
  <2> HIDE DEF i, m, S
  <2>3. e \in S <=> e.key \in DOMAIN m /\ m[e.key] = e.val
    BY <1>2, <2>1
  <2>4. Same(e) <=> i # end(a) /\ a.values[i + 1].val = e.val
    BY DEF i
  <2> HIDE DEF Same
  <2> QED  BY <2>2, <2>3, <2>4
<1> HIDE DEF Same, S, T, m, n
<1>6. equal(a, b) <=> size(a) = size(b) /\ T \subseteq S
  BY <1>4, <1>5
<1>7. ASSUME size(a) = size(b), T \subseteq S PROVE m = n
  <2>1. S = T
    BY <1>1, <1>7, FS_Subset
  <2> QED  BY <1>1, <2>1, SameMap
<1>8. ASSUME m = n PROVE size(a) = size(b) /\ T \subseteq S
  <2>1. S = T
    <3>1. \A e \in S : e \in T
      BY <1>2, <1>3, <1>8
    <3>2. \A e \in T : e \in S
      BY <1>2, <1>3, <1>8
    <3> QED  BY <3>1, <3>2
  <2> QED  BY <1>1, <2>1
<1> QED  BY <1>6, <1>7, <1>8 DEF m, n

LEMMA SameCompared == \A m, b : Compared(m, b) = M!Compared(m, b)
BY Zenon DEF Compared, M!Compared

LEMMA SameAssigned == \A m, b : Assigned(m, b) = M!Assigned(m, b)
BY Zenon DEF Assigned, M!Assigned

LEMMA AssignedAt ==
    ASSUME NEW V, NEW t, Ready(V, t), NEW i \in Places(t), NEW val \in V,
           NEW u, u = assign(t, i, val)
    PROVE  Consistent(V, u) /\ \E k \in DOMAIN AsMap(t) : AsMap(u) = M!With(AsMap(t), k, val)
<1> DEFINE k == key_at(t, i)
<1>1. Consistent(V, t) /\ Consistent(V, u)
  BY AssignFacts DEF Ready
<1>2. /\ EntriesOf(u) = {e \in EntriesOf(t) : e.key # k} \cup {[key |-> k, val |-> val]}
      /\ u.values[i + 1] = [key |-> k, val |-> val]
  BY AssignEntries
<1>3. k \in DOMAIN AsMap(t)
  BY <1>1, PlacedKey
<1> HIDE DEF k
<1>4. AsMap(u) = M!With(AsMap(t), k, val)
  BY <1>1, <1>2, WithStep
<1> QED  BY <1>1, <1>3, <1>4

(* A table that holds entries of a list is one of the maps of the list.    *)
LEMMA FilledMap ==
    ASSUME NEW n \in Counts, NEW c \in Lists, NEW e \in Filled(n, c), ~e.thrown
    PROVE  AsMap(e.table) \in M!MapsOf({c[i] : i \in DOMAIN c})
<1> DEFINE X == {c[i] : i \in DOMAIN c}
           m == AsMap(e.table)
           S == EntriesOf(e.table)
<1>1. PICK x \in Constructed(n) : e \in IF x.thrown THEN {x} ELSE insert_range(x.table, c)
  BY DEF Filled
<1>2. ~x.thrown /\ e \in insert_range(x.table, c)
  BY <1>1
<1>3. n \in Nat /\ c \in Seq(EntryType(Vals))
  BY TableEntries
<1>4. Ready(Vals, x.table) /\ x.table.values = << >>
  BY <1>1, <1>2, <1>3, ConstructedFacts DEF Ended
<1>5. Ended(Vals, e) /\ Gained(x.table, X, e)
  BY <1>2, <1>3, <1>4, RangeInserted
<1>6. IsMap(m, S) /\ S \in SUBSET EntryType(Vals)
  BY <1>5, AsMapIs DEF Ended, Left, Consistent
<1> HIDE DEF X
<1>7. Holding(e.table, X) /\ S \subseteq X
  BY <1>4, <1>5, NoEntries, HoldsGained
<1>8. /\ DOMAIN m = {y.key : y \in S}
      /\ \A k \in DOMAIN m : [key |-> k, val |-> m[k]] \in S
  <2> HIDE DEF m, S
  <2> QED  BY <1>6, MapFacts
<1>9. m = [k \in DOMAIN m |-> m[k]]
  BY <1>6, <1>8 DEF IsMap
<1>10. DOMAIN m = M!KeysOf(X)
  BY <1>7, <1>8 DEF Holding, M!KeysOf
<1>11. \A k \in DOMAIN m : m[k] \in Vals
  <2> HIDE DEF m, S
  <2> QED  BY <1>6, <1>8 DEF EntryType
<1> HIDE DEF m, S
<1>12. m \in [M!KeysOf(X) -> {y.val : y \in Entries} \cup {Default}]
  BY <1>9, <1>10, <1>11 DEF Vals
<1>13. m \in M!MapsOf(X)
  BY <1>7, <1>8, <1>12 DEF M!MapsOf
<1> QED  BY <1>13 DEF X, m

LEMMA SourceMap ==
    ASSUME TableInv, NEW other \in Sources
    PROVE  AsMap(other) \in M!Others
<1>1. Ready(Vals, other) /\ Consistent(Vals, other)
  BY SourceFacts DEF Ready
<1>2. \/ other.values = << >> \/ other.values = table.values
      \/ \E n \in Counts, c \in Lists : \E e \in Filled(n, c) : ~e.thrown /\ other = e.table
  BY SourceFacts
<1>3. CASE other.values = << >>
  <2>1. IsMap(AsMap(other), {})
    BY <1>1, <1>3, AsMapIs, NoEntries DEF Consistent
  <2>2. AsMap(other) = M!NoMap
    BY <2>1, NoMapIs, SameMap
  <2> QED  BY <2>2 DEF M!Others
<1>4. CASE other.values = table.values
  <2>1. AsMap(other) = AsMap(table)
    BY <1>4, SameValues
  <2> QED  BY <2>1 DEF M!Others
<1>5. ASSUME NEW n \in Counts, NEW c \in Lists, NEW e \in Filled(n, c), ~e.thrown, other = e.table
      PROVE  AsMap(other) \in M!Others
  <2> DEFINE X == {c[i] : i \in DOMAIN c}
  <2>1. AsMap(other) \in M!MapsOf(X)
    BY <1>5, FilledMap
  <2>2. X \in {{d[i] : i \in DOMAIN d} : d \in Lists}
    OBVIOUS
  <2> HIDE DEF X
  <2> QED  BY <2>1, <2>2 DEF M!Others
<1> QED  BY <1>2, <1>3, <1>4, <1>5

LEMMA OtherMap ==
    ASSUME TableInv, NEW other \in Others, Usable
    PROVE  Consistent(Vals, other) /\ AsMap(other) \in M!Others
<1>1. Ready(Vals, table) /\ table \in TableType(Vals) /\ Consistent(Vals, table)
  BY DEF TableInv, Keeps, Usable, Ready, Consistent
<1>2. CASE other \in Sources
  BY <1>2, SourceFacts, SourceMap DEF Ready
<1>3. ASSUME NEW u \in Copies
      PROVE  /\ Ready(Vals, u) /\ u.values = table.values
             /\ AsMap(u) = AsMap(table) /\ EntriesOf(u) = EntriesOf(table)
  <2>1. \E e \in Copied(table) : ~e.thrown /\ u = e.table
    BY <1>3 DEF Copies, Made
  <2>2. Ready(Vals, u) /\ u.values = table.values
    BY <1>1, <2>1, CopiedFacts
  <2> QED  BY <2>2, SameValues
<1>4. \/ other \in Sources
      \/ \E u \in Copies, i \in DOMAIN table.values : other = assign(u, i - 1, Default)
      \/ \E i \in DOMAIN table.values : \E e \in insert_range(erase_it(table, i - 1), <<table.values[i]>>) :
             ~e.thrown /\ other = e.table
  BY DEF Others, Made
<1>7. ASSUME NEW i \in DOMAIN table.values PROVE i - 1 \in Places(table) /\ (i - 1) + 1 = i
  BY <1>1, EntriesFacts
<1>8. ASSUME NEW u \in Copies, NEW i \in DOMAIN table.values, other = assign(u, i - 1, Default)
      PROVE  /\ Consistent(Vals, other)
             /\ \E k \in DOMAIN AsMap(table) : AsMap(other) = M!With(AsMap(table), k, Default)
  <2> DEFINE j == i - 1
             d == Default
  <2>1. j \in Places(u) /\ d \in Vals /\ other = assign(u, j, d)
    BY <1>3, <1>7, <1>8 DEF Places, size, Vals
  <2> HIDE DEF j, d
  <2>2. Consistent(Vals, other) /\ \E k \in DOMAIN AsMap(u) : AsMap(other) = M!With(AsMap(u), k, d)
    BY <1>3, <2>1, AssignedAt
  <2> QED  BY <1>3, <2>2 DEF d
<1>9. ASSUME NEW i \in DOMAIN table.values,
             NEW e \in insert_range(erase_it(table, i - 1), <<table.values[i]>>), ~e.thrown, other = e.table
      PROVE  Consistent(Vals, other) /\ AsMap(other) = AsMap(table)
  <2> DEFINE w == erase_it(table, i - 1)
             v == table.values[i]
  <2>1. Erased(Vals, table, i - 1, w) /\ i - 1 \in Places(table) /\ (i - 1) + 1 = i
    BY <1>1, <1>7, EraseItFacts
  <2> HIDE DEF w
  <2>2. Ready(Vals, w) /\ EntriesOf(w) = EntriesOf(table) \ {v}
    BY <1>1, <2>1, ErasedEntries
  <2>3. v \in EntryType(Vals) /\ v \in EntriesOf(table)
    BY <1>1, <2>1, EntriesFacts
  <2> DEFINE c == <<v>>
  <2>4. c \in Seq(EntryType(Vals)) /\ {c[j] : j \in DOMAIN c} = {v}
    <3> DEFINE E == EntryType(Vals)
    <3>1. v \in E
      BY <2>3
    <3> HIDE DEF v, E
    <3>2. c \in Seq(E) /\ DOMAIN c = {1} /\ c[1] = v
      BY <3>1
    <3> QED  BY <3>2 DEF E
  <2>5. Ended(Vals, e) /\ Gained(w, {v}, e)
    <3>1. e \in insert_range(w, c)
      BY DEF w
    <3> HIDE DEF v, c
    <3>2. Gained(w, {c[j] : j \in DOMAIN c}, e) /\ Ended(Vals, e)
      BY <2>2, <2>4, <3>1, RangeInserted
    <3> QED  BY <2>4, <3>2
  <2> HIDE DEF v, c
  <2>6. Consistent(Vals, other)
    BY <1>9, <2>5 DEF Ended, Left
  <2>7. EntriesOf(other) = EntriesOf(table)
    <3>1. EntriesOf(w) \subseteq EntriesOf(other) /\ EntriesOf(other) \subseteq EntriesOf(w) \cup {v}
          /\ v.key \in {x.key : x \in EntriesOf(other)}
      BY <1>9, <2>5 DEF Gained
    <3>2. \A x, y \in EntriesOf(table) : x.key = y.key => x = y
      <4>1. IsMap(AsMap(table), EntriesOf(table)) /\ EntriesOf(table) \in SUBSET EntryType(Vals)
        BY <1>1, AsMapIs DEF Consistent
      <4> QED  BY <4>1, MapFacts
    <3>3. v \in EntriesOf(other)
      BY <2>2, <2>3, <3>1, <3>2
    <3> QED  BY <2>2, <2>3, <3>1, <3>3
  <2>8. /\ IsMap(AsMap(other), EntriesOf(other)) /\ IsMap(AsMap(table), EntriesOf(table))
    BY <1>1, <2>6, AsMapIs DEF Consistent
  <2> QED  BY <2>6, <2>7, <2>8, SameMap
<1>10. Default \in {e.val : e \in Entries} \cup {Default}
  OBVIOUS
<1>11. ASSUME NEW u \in Copies, NEW i \in DOMAIN table.values, other = assign(u, i - 1, Default)
       PROVE  AsMap(other) \in M!Others
  BY <1>8, <1>10, <1>11 DEF M!Others
<1>12. ASSUME AsMap(other) = AsMap(table) PROVE AsMap(other) \in M!Others
  BY <1>12 DEF M!Others
<1> QED  BY <1>2, <1>4, <1>8, <1>9, <1>11, <1>12

LEMMA CompareCallMap ==
    ASSUME TableInv, NEW other \in Others, Compare(other)
    PROVE  M!MapNext
<1>1. Ready(Vals, table) /\ Usable
  BY DEF TableInv, Keeps, Usable, Compare
<1>2. Consistent(Vals, other) /\ AsMap(other) \in M!Others
  BY <1>1, OtherMap
<1>3. equal(table, other) <=> AsMap(table) = AsMap(other)
  BY <1>1, <1>2, EqualFacts
<1>4. equal(table, other) = (AsMap(table) = AsMap(other))
  <2>1. equal(table, other) \in BOOLEAN
    BY Zenon DEF equal
  <2> QED  BY <1>3, <2>1
<1>5. ret' = M!Compared(AsMap(other), AsMap(table) = AsMap(other)) /\ AsMap(table') = AsMap(table)
  BY <1>4, SameCompared DEF Compare
<1>6. M!Compare(AsMap(other))
  BY <1>5 DEF M!Compare
<1> QED  BY <1>2, <1>6 DEF M!MapNext

(* A copy assignment leaves the map it had, or the other.                  *)
LEMMA CopyAssignMap ==
    ASSUME TableInv, NEW other \in Sources, CopyAssign(other)
    PROVE  M!MapNext
<1>1. PICK e \in copy_assign(table, other) :
          table' = e.table /\ ret' = Assigned(AsMap(other), e.thrown)
  BY DEF CopyAssign
<1>2. Ready(Vals, other) /\ Consistent(Vals, table)
  BY SourceFacts DEF TableInv, Keeps
<1>3. table'.values = other.values \/ (e.thrown /\ table'.values = table.values)
  BY <1>1, <1>2, CopyAssignFacts
<1>4. e.thrown \in BOOLEAN
  BY <1>2, CopyAssignFacts DEF Ended
<1>5. AsMap(table') = AsMap(other) \/ (e.thrown /\ AsMap(table') = AsMap(table))
  BY <1>3, SameValues
<1>6. ret' = M!Assigned(AsMap(other), e.thrown)
  BY <1>1, SameAssigned
<1>7. M!CopyAssign(AsMap(other))
  BY <1>4, <1>5, <1>6 DEF M!CopyAssign
<1> QED  BY <1>7, SourceMap DEF M!MapNext

-----------------------------------------------------------------------------
LEMMA MapStarts == ASSUME TabInit PROVE M!MapInit
<1>1. PICK n \in Counts : \E e \in Constructed(n) : table = e.table
  BY DEF TabInit, Made
<1>2. Consistent(Vals, table) /\ table.values = << >>
  <2>1. PICK e \in Constructed(n) : table = e.table
    BY <1>1
  <2>2. n \in Nat
    BY TableEntries
  <2> QED  BY <2>1, <2>2, ConstructedFacts DEF Ended, Left
<1>3. IsMap(AsMap(table), {})
  BY <1>2, AsMapIs, NoEntries DEF Consistent
<1>4. AsMap(table) = M!NoMap
  BY <1>3, NoMapIs, SameMap
<1> QED  BY <1>4 DEF TabInit, M!MapInit, Nothing, M!Nothing

LEMMA MapSteps ==
    ASSUME TableInv, [TabNext]_tabvars
    PROVE  [M!MapNext]_<<AsMap(table), ret>>
<1>1. TableInv'
  BY TabNextInv
<1>2. CASE UNCHANGED tabvars
  BY <1>2 DEF tabvars
<1>3. ASSUME NEW e \in Entries, TryEmplace(e) \/ Emplace(e) \/ InsertOrAssign(e) \/ Subscript(e)
      PROVE  M!MapNext
  BY <1>1, <1>3, InsertCallsMap
<1>4. ASSUME \/ \E key \in TableKeys : EraseKey(key)
             \/ \E i \in DOMAIN table.values : EraseIt(i)
             \/ \E i, j \in DOMAIN table.values : i < j /\ EraseRange(i, j)
             \/ \E ks \in Preds : EraseIf(ks)
      PROVE  M!MapNext
  BY <1>1, <1>4, EraseCallsMap
<1>5. ASSUME \/ \E n \in Counts : Reserve(n) \/ Rehash(n)
             \/ \E load \in Loads : SetLoad(load)
             \/ CopyConstruct
      PROVE  M!MapNext
  BY <1>1, <1>5, SameCallsMap
<1>6. ASSUME NEW key \in TableKeys, Find(key) \/ At(key) PROVE M!MapNext
  BY <1>6, FindCallsMap
<1>7. ASSUME NEW other \in Others, Compare(other) PROVE M!MapNext
  BY <1>7, CompareCallMap
<1>8. ASSUME NEW c \in Lists, InsertRange(c) \/ AssignList(c) \/ \E n \in Counts : Construct(n, c)
      PROVE  M!MapNext
  BY <1>1, <1>8, ListCallsMap
<1>9. ASSUME Clear \/ MoveAway PROVE M!MapNext
  BY <1>1, <1>9, EmptyCallsMap
<1>10. ASSUME NEW c \in Containers, Replace(c) PROVE M!MapNext
  BY <1>1, <1>10, ReplaceCallMap
<1>11. ASSUME ExtractAll PROVE M!MapNext
  BY <1>1, <1>11, ExtractAllMap
<1>12. ASSUME NEW other \in Sources, CopyAssign(other) PROVE M!MapNext
  BY <1>12, CopyAssignMap
<1> QED  BY <1>2, <1>3, <1>4, <1>5, <1>6, <1>7, <1>8, <1>9, <1>10, <1>11, <1>12 DEF TabNext

(* HashTable implements FlatMap: whatever the hashes, the loads and the    *)
(* failures of memory, each call does to the map and returns what its      *)
(* abstract counterpart may.                                               *)
THEOREM TableRefinesMap == TabSpec => MapSpec
<1>1. TabInit => M!MapInit
  BY MapStarts
<1>2. TableInv /\ [TabNext]_tabvars => [M!MapNext]_<<AsMap(table), ret>>
  BY MapSteps
<1> QED  BY <1>1, <1>2, TableInvariant, PTL DEF TabSpec, MapSpec, M!MapSpec

=============================================================================
