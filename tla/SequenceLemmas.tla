---------------------------- MODULE SequenceLemmas ----------------------------
(***************************************************************************)
(* Facts about sequences that the other proofs rest on: induction over the *)
(* natural numbers, the order in which SortedBy puts the elements of a set,*)
(* and where FlattenSeq puts the elements of the sequences it joins.       *)
(*                                                                         *)
(* Induction is stated for a set of numbers, not for a predicate: it is the*)
(* minimal element of the complement, which WFMin gives, that has none.    *)
(***************************************************************************)
EXTENDS Sorting, Sequences, SequencesExt, FiniteSetTheorems,
        WellFoundedInduction, TLAPS

(* A set with 0 that is closed under successor has every natural number.   *)
LEMMA NatSetInduction ==
    ASSUME NEW S, 0 \in S, \A n \in Nat : n \in S => n + 1 \in S
    PROVE  Nat \subseteq S
<1> DEFINE T == Nat \ S
<1> SUFFICES ASSUME T # {} PROVE FALSE
  OBVIOUS
<1>1. PICK x \in T : \A y \in T : ~(<<y, x>> \in OpToRel(<, Nat))
  <2>1. T \subseteq Nat
    OBVIOUS
  <2> HIDE DEF T
  <2> QED  BY <2>1, WFMin, NatLessThanWellFounded
<1>2. x \in Nat /\ x # 0 /\ x - 1 \in Nat /\ x - 1 < x
  OBVIOUS
<1>3. <<x - 1, x>> \in OpToRel(<, Nat)
  BY <1>2 DEF OpToRel
<1>4. x - 1 \in S
  BY <1>1, <1>2, <1>3
<1> QED  BY <1>2, <1>4

(* The same up to a bound.                                                 *)
LEMMA UpToInduction ==
    ASSUME NEW N \in Nat, NEW S, 0 \in S,
           \A n \in 0..(N - 1) : n \in S => n + 1 \in S
    PROVE  0..N \subseteq S
<1> DEFINE U == {n \in Nat : n =< N => n \in S}
<1>1. Nat \subseteq U
  <2>1. 0 \in U
    OBVIOUS
  <2>2. \A n \in Nat : n \in U => n + 1 \in U
    OBVIOUS
  <2> HIDE DEF U
  <2> QED  BY <2>1, <2>2, NatSetInduction
<1> QED  BY <1>1

(* A set of numbers that is not empty has a least element.                 *)
LEMMA LeastElement ==
    ASSUME NEW S, S \subseteq Nat, S # {}
    PROVE  \E k \in S : \A j \in S : k =< j
<1>1. PICK k \in S : \A j \in S : ~(<<j, k>> \in OpToRel(<, Nat))
  BY WFMin, NatLessThanWellFounded
<1>2. \A j \in S : ~(j < k)
  BY <1>1 DEF OpToRel
<1> QED  BY <1>2

(* An interval from 1 is finite.                                           *)
LEMMA UptoFinite ==
    ASSUME NEW n \in Nat
    PROVE  IsFiniteSet(1..n) /\ Cardinality(1..n) = n
BY FS_Interval

-----------------------------------------------------------------------------
(* The keys of the elements of S are numbers, and no two are equal.        *)
DistinctKeys(S, key) ==
    /\ \A x \in S : key[x] \in Int
    /\ \A x, y \in S : key[x] = key[y] => x = y

(* s lists each element of S once, in ascending order of the keys.         *)
ListsInOrder(s, S, key) ==
    /\ Cardinality(S) \in Nat
    /\ s \in [1..Cardinality(S) -> S]
    /\ \A i, j \in 1..Cardinality(S) : i < j => key[s[i]] < key[s[j]]
    /\ \A i, j \in 1..Cardinality(S) : s[i] = s[j] => i = j
    /\ \A x \in S : \E i \in 1..Cardinality(S) : s[i] = x

(* The rank of an element is its place among all: one for each place.      *)
LEMMA RankFacts ==
    ASSUME NEW S, IsFiniteSet(S), NEW key, DistinctKeys(S, key)
    PROVE  /\ Cardinality(S) \in Nat
           /\ \A x \in S : Rank(S, key, x) \in 1..Cardinality(S)
           /\ \A x, y \in S : key[x] < key[y] => Rank(S, key, x) < Rank(S, key, y)
           /\ \A i \in 1..Cardinality(S) : \E x \in S : Rank(S, key, x) = i
<1>0. /\ \A x \in S : key[x] \in Int
      /\ \A x, y \in S : key[x] = key[y] => x = y
  BY DEF DistinctKeys
<1> DEFINE Upto(x) == {y \in S : key[y] =< key[x]}
           n == Cardinality(S)
<1>1. n \in Nat
  BY FS_CardinalityType
<1>2. ASSUME NEW x \in S
      PROVE  Rank(S, key, x) \in 1..n /\ IsFiniteSet(Upto(x))
  <2>1. Upto(x) \in SUBSET S /\ Upto(x) # {} /\ Rank(S, key, x) = Cardinality(Upto(x))
    BY <1>0 DEF Rank
  <2> HIDE DEF Upto
  <2>2. IsFiniteSet(Upto(x)) /\ Cardinality(Upto(x)) =< n
    BY <2>1, FS_Subset
  <2>3. Cardinality(Upto(x)) \in Nat /\ Cardinality(Upto(x)) # 0
    BY <2>1, <2>2, FS_CardinalityType, FS_EmptySet
  <2> QED  BY <1>1, <2>1, <2>2, <2>3
<1>3. ASSUME NEW x \in S, NEW y \in S, key[x] < key[y]
      PROVE  Rank(S, key, x) < Rank(S, key, y)
  <2>1. Upto(x) \in SUBSET Upto(y) /\ Upto(x) # Upto(y)
    <3>1. y \in Upto(y) /\ y \notin Upto(x)
      BY <1>0, <1>3
    <3>2. Upto(x) \subseteq Upto(y)
      BY <1>0, <1>3
    <3> QED  BY <3>1, <3>2
  <2>2. /\ Rank(S, key, x) = Cardinality(Upto(x)) /\ Rank(S, key, y) = Cardinality(Upto(y))
        /\ IsFiniteSet(Upto(y)) /\ Rank(S, key, x) \in Nat /\ Rank(S, key, y) \in Nat
    BY <1>1, <1>2 DEF Rank
  <2> HIDE DEF Upto
  <2>3. Cardinality(Upto(x)) =< Cardinality(Upto(y)) /\ Cardinality(Upto(x)) # Cardinality(Upto(y))
    BY <2>1, <2>2, FS_Subset
  <2> QED  BY <2>2, <2>3
<1>4. \A i \in 1..n : \E x \in S : Rank(S, key, x) = i
  <2> DEFINE r == [x \in S |-> Rank(S, key, x)]
  <2>1. r \in [S -> 1..n]
    BY <1>2
  <2>2. \A x, y \in S : r[x] = r[y] => x = y
    <3> SUFFICES ASSUME NEW x \in S, NEW y \in S, x # y PROVE r[x] # r[y]
      OBVIOUS
    <3>1. key[x] < key[y] \/ key[y] < key[x]
      BY <1>0
    <3>2. Rank(S, key, x) < Rank(S, key, y) \/ Rank(S, key, y) < Rank(S, key, x)
      BY <1>3, <3>1
    <3>3. r[x] \in Int /\ r[y] \in Int /\ r[x] = Rank(S, key, x) /\ r[y] = Rank(S, key, y)
      BY <1>1, <2>1
    <3> HIDE DEF r
    <3> QED  BY <3>2, <3>3
  <2>3. IsFiniteSet(1..n) /\ Cardinality(1..n) = n
    BY <1>1, FS_Interval
  <2>4. \A i \in 1..n : \E x \in S : r[x] = i
    <3> HIDE DEF r
    <3>1. r \in Injection(S, 1..n)
      BY <2>1, <2>2 DEF Injection, IsInjective
    <3>2. r \in Surjection(S, 1..n)
      BY <2>3, <3>1, FS_Injection
    <3> QED  BY <3>2 DEF Surjection
  <2> QED  BY <2>4
<1> QED  BY <1>1, <1>2, <1>3, <1>4

(* SortedBy lists each element once, in ascending order of the keys.       *)
LEMMA SortedByFacts ==
    ASSUME NEW S, IsFiniteSet(S), NEW key, DistinctKeys(S, key)
    PROVE  ListsInOrder(SortedBy(S, key), S, key)
<1>0. /\ \A x \in S : key[x] \in Int
      /\ \A x, y \in S : key[x] = key[y] => x = y
  BY DEF DistinctKeys
<1> DEFINE s == SortedBy(S, key)
           n == Cardinality(S)
<1>1. /\ n \in Nat
      /\ \A x \in S : Rank(S, key, x) \in 1..n
      /\ \A x, y \in S : key[x] < key[y] => Rank(S, key, x) < Rank(S, key, y)
      /\ \A i \in 1..n : \E x \in S : Rank(S, key, x) = i
  BY RankFacts
<1>2. s = [i \in 1..n |-> CHOOSE x \in S : Rank(S, key, x) = i]
  BY DEF SortedBy
<1> HIDE DEF s, n
<1>3. \A i \in 1..n : s[i] \in S /\ Rank(S, key, s[i]) = i
  BY <1>1, <1>2
<1>4. s \in [1..n -> S]
  BY <1>2, <1>3
<1>5. ASSUME NEW i \in 1..n, NEW j \in 1..n, i < j PROVE key[s[i]] < key[s[j]]
  <2>1. s[i] \in S /\ s[j] \in S /\ Rank(S, key, s[i]) = i /\ Rank(S, key, s[j]) = j
    BY <1>3
  <2>2. key[s[i]] # key[s[j]]
    BY <1>0, <1>5, <2>1
  <2>3. ~(key[s[j]] < key[s[i]])
    <3>1. SUFFICES ASSUME key[s[j]] < key[s[i]] PROVE FALSE
      OBVIOUS
    <3>2. j < i
      BY <1>1, <2>1, <3>1
    <3> QED  BY <1>1, <1>5, <3>2
  <2>4. key[s[i]] \in Int /\ key[s[j]] \in Int
    BY <1>0, <2>1
  <2> QED  BY <2>2, <2>3, <2>4
<1>6. \A x \in S : \E i \in 1..n : s[i] = x
  <2> SUFFICES ASSUME NEW x \in S PROVE \E i \in 1..n : s[i] = x
    OBVIOUS
  <2> DEFINE i == Rank(S, key, x)
  <2>1. i \in 1..n
    BY <1>1
  <2>2. s[i] \in S /\ Rank(S, key, s[i]) = i
    BY <1>3, <2>1
  <2>3. ~(key[x] < key[s[i]]) /\ ~(key[s[i]] < key[x])
    <3>1. i \in Int
      BY <2>1
    <3>2. key[x] < key[s[i]] => i < i
      BY <1>1, <2>2
    <3>3. key[s[i]] < key[x] => i < i
      BY <1>1, <2>2
    <3> HIDE DEF i
    <3> QED  BY <3>1, <3>2, <3>3
  <2>4. key[x] = key[s[i]]
    <3>1. key[x] \in Int /\ key[s[i]] \in Int
      BY <1>0, <2>2
    <3> QED  BY <2>3, <3>1
  <2> QED  BY <1>0, <2>1, <2>2, <2>4
<1>7. \A i, j \in 1..n : s[i] = s[j] => i = j
  BY <1>1, <1>3
<1> QED  BY <1>1, <1>4, <1>5, <1>6, <1>7 DEF s, n, ListsInOrder

(* Ascending is SortedBy with the elements themselves for keys.            *)
LEMMA AscendingFacts ==
    ASSUME NEW S, IsFiniteSet(S), S \subseteq Int
    PROVE  ListsInOrder(Ascending(S), S, [x \in S |-> x])
<1> DEFINE key == [x \in S |-> x]
<1>1. DistinctKeys(S, key)
  BY DEF DistinctKeys
<1> QED  BY <1>1, SortedByFacts DEF Ascending

(* A list of the numbers 1..n in order has each in its own place.          *)
LEMMA InOrderIdentity ==
    ASSUME NEW n \in Nat, NEW s \in [1..n -> 1..n],
           \A i, j \in 1..n : i < j => s[i] < s[j]
    PROVE  \A i \in 1..n : s[i] = i
<1>1. \A i \in 1..n : s[i] \in 1..n
  OBVIOUS
<1> DEFINE Up == {i \in Nat : i \in 1..n => s[i] >= i}
           Down == {i \in Nat : n - i \in 1..n => s[n - i] =< n - i}
<1>2. Nat \subseteq Up
  <2>1. 0 \in Up
    OBVIOUS
  <2>2. ASSUME NEW i \in Nat, i \in Up PROVE i + 1 \in Up
    <3> SUFFICES ASSUME i + 1 \in 1..n PROVE s[i + 1] >= i + 1
      OBVIOUS
    <3>1. CASE i = 0
      BY <1>1, <3>1
    <3>2. CASE i # 0
      <4>1. i \in 1..n /\ s[i] >= i /\ s[i] < s[i + 1]
        BY <2>2, <3>2
      <4> QED  BY <1>1, <4>1
    <3> QED  BY <3>1, <3>2
  <2> HIDE DEF Up
  <2> QED  BY <2>1, <2>2, NatSetInduction
<1>3. Nat \subseteq Down
  <2>1. 0 \in Down
    BY <1>1
  <2>2. ASSUME NEW i \in Nat, i \in Down PROVE i + 1 \in Down
    <3> SUFFICES ASSUME n - (i + 1) \in 1..n PROVE s[n - (i + 1)] =< n - (i + 1)
      OBVIOUS
    <3>1. /\ n - i \in 1..n /\ n - (i + 1) < n - i
          /\ s[n - i] =< n - i /\ s[n - (i + 1)] < s[n - i]
      BY <2>2
    <3> QED  BY <1>1, <3>1
  <2> HIDE DEF Down
  <2> QED  BY <2>1, <2>2, NatSetInduction
<1>4. ASSUME NEW i \in 1..n PROVE s[i] = i
  <2>1. i \in Nat /\ n - i \in Nat /\ n - (n - i) = i
    OBVIOUS
  <2>2. i \in Up /\ (n - i) \in Down
    <3> HIDE DEF Up, Down
    <3> QED  BY <1>2, <1>3, <2>1
  <2>3. s[i] >= i /\ s[i] =< i
    BY <2>1, <2>2
  <2> QED  BY <1>1, <2>3
<1> QED  BY <1>4

-----------------------------------------------------------------------------
(* s is a sequence, of whatever elements.                                  *)
IsSeq(s) == \E S : s \in Seq(S)

(* E tells where the first m sequences of ss end in s, one after the other.*)
IsJoinedUpto(m, s, ss, E) ==
    /\ IsSeq(s)
    /\ E[0] = 0
    /\ \A i \in 1..m : E[i] \in Nat /\ E[i] = E[i - 1] + Len(ss[i])
    /\ Len(s) = E[m]
    /\ \A i \in 1..m : \A j \in 1..Len(ss[i]) :
           E[i - 1] + j \in 1..Len(s) /\ s[E[i - 1] + j] = ss[i][j]
    /\ \A p \in 1..Len(s) :
           \E i \in 1..m : \E j \in 1..Len(ss[i]) : p = E[i - 1] + j

IsJoined(s, ss, E) == IsJoinedUpto(Len(ss), s, ss, E)

(* Sequences stay sequences when an element or another one is added.       *)
LEMMA SeqFacts == ASSUME NEW s, IsSeq(s) PROVE Len(s) \in Nat /\ DOMAIN s = 1..Len(s)
<1>1. PICK S : s \in Seq(S)
  BY DEF IsSeq
<1> QED  BY <1>1

(* Append adds one element at the end.                                     *)
LEMMA SeqAppend ==
    ASSUME NEW s, IsSeq(s), NEW e
    PROVE  /\ IsSeq(Append(s, e))
           /\ Len(Append(s, e)) = Len(s) + 1
           /\ \A i \in 1..Len(s) : Append(s, e)[i] = s[i]
           /\ Append(s, e)[Len(s) + 1] = e
<1>1. PICK S : s \in Seq(S)
  BY DEF IsSeq
<1>2. s \in Seq(S \cup {e})
  BY <1>1
<1>3. Append(s, e) \in Seq(S \cup {e})
  BY <1>2
<1>4. IsSeq(Append(s, e))
  BY <1>3 DEF IsSeq
<1> QED  BY <1>2, <1>4

(* Concatenation keeps both sequences, one after the other.                *)
LEMMA SeqConcat ==
    ASSUME NEW s, IsSeq(s), NEW t, IsSeq(t)
    PROVE  /\ IsSeq(s \o t)
           /\ Len(s \o t) = Len(s) + Len(t)
           /\ \A i \in 1..Len(s) : (s \o t)[i] = s[i]
           /\ \A i \in 1..Len(t) : (s \o t)[Len(s) + i] = t[i]
<1>1. PICK S : s \in Seq(S)
  BY DEF IsSeq
<1>2. PICK T : t \in Seq(T)
  BY DEF IsSeq
<1>3. s \in Seq(S \cup T) /\ t \in Seq(S \cup T)
  BY <1>1, <1>2
<1>4. s \o t \in Seq(S \cup T)
  BY <1>3
<1>5. IsSeq(s \o t)
  BY <1>4 DEF IsSeq
<1> QED  BY <1>3, <1>5

(* A function on 1..n is a sequence.                                       *)
LEMMA SeqOfFunction ==
    ASSUME NEW n \in Nat, NEW s, s = [i \in 1..n |-> s[i]]
    PROVE  IsSeq(s) /\ Len(s) = n
<1> DEFINE S == {s[i] : i \in 1..n}
<1>1. [i \in 1..n |-> s[i]] \in Seq(S)
  OBVIOUS
<1>2. s \in Seq(S)
  <2> HIDE DEF S
  <2> QED  BY <1>1
<1>3. IsSeq(s)
  BY <1>2 DEF IsSeq
<1>4. DOMAIN s = 1..n
  OBVIOUS
<1>5. DOMAIN s = 1..Len(s) /\ Len(s) \in Nat
  BY <1>3, SeqFacts
<1> QED  BY <1>3, <1>4, <1>5

(* The recursive function behind FlattenSeq.                               *)
LEMMA FlattenFunction ==
    ASSUME NEW ss, Len(ss) \in Nat, Len(ss) # 0
    PROVE  \E F : /\ F = [i \in 1..Len(ss) |->
                            IF i = 1 THEN ss[i] ELSE F[i - 1] \o ss[i]]
                  /\ FlattenSeq(ss) = F[Len(ss)]
<1> DEFINE n == Len(ss)
           Upto(G, m) == G = [i \in 1..m |-> IF i = 1 THEN ss[i] ELSE G[i - 1] \o ss[i]]
           Exist == {m \in Nat : \E G : Upto(G, m)}
<1>1. 0 \in Exist
  <2> DEFINE G == [i \in 1..0 |-> 0]
  <2>1. Upto(G, 0)
    OBVIOUS
  <2> QED  BY <2>1
<1>2. ASSUME NEW m \in Nat, m \in Exist PROVE m + 1 \in Exist
  <2>1. PICK G : Upto(G, m)
    BY <1>2
  <2> DEFINE H == [i \in 1..(m + 1) |->
                      IF i = m + 1
                      THEN IF i = 1 THEN ss[i] ELSE G[i - 1] \o ss[i]
                      ELSE G[i]]
  <2>2. \A i \in 1..(m + 1) :
            H[i] = IF i = 1 THEN ss[i] ELSE H[i - 1] \o ss[i]
    <3> SUFFICES ASSUME NEW i \in 1..(m + 1)
                 PROVE  H[i] = IF i = 1 THEN ss[i] ELSE H[i - 1] \o ss[i]
      OBVIOUS
    <3>1. i # 1 => i - 1 \in 1..m /\ H[i - 1] = G[i - 1]
      OBVIOUS
    <3>2. CASE i = m + 1
      BY <3>1, <3>2
    <3>3. CASE i # m + 1
      <4>1. i \in 1..m /\ H[i] = G[i]
        BY <3>3
      <4>2. G[i] = IF i = 1 THEN ss[i] ELSE G[i - 1] \o ss[i]
        BY <2>1, <4>1
      <4> QED  BY <3>1, <4>1, <4>2
    <3> QED  BY <3>2, <3>3
  <2>3. H = [i \in 1..(m + 1) |-> H[i]]
    OBVIOUS
  <2>4. Upto(H, m + 1)
    <3> HIDE DEF H
    <3> QED  BY <2>2, <2>3
  <2> HIDE DEF H, Upto
  <2>5. m + 1 \in Nat /\ \E K : Upto(K, m + 1)
    BY <2>4
  <2> QED  BY <2>5
<1>3. \E G : Upto(G, n)
  <2>1. Nat \subseteq Exist
    <3> HIDE DEF Exist
    <3> QED  BY <1>1, <1>2, NatSetInduction
  <2> QED  BY <2>1
<1> DEFINE F == CHOOSE G : Upto(G, n)
<1>4. Upto(F, n)
  BY <1>3
<1>5. FlattenSeq(ss) = F[n]
  BY DEF FlattenSeq
<1> HIDE DEF F
<1> QED  BY <1>4, <1>5

(* One more sequence is joined.                                            *)
LEMMA JoinedNext ==
    ASSUME NEW m \in Nat, NEW s, NEW ss, NEW E, IsJoinedUpto(m, s, ss, E),
           IsSeq(ss[m + 1]), E[m + 1] = E[m] + Len(ss[m + 1])
    PROVE  IsJoinedUpto(m + 1, s \o ss[m + 1], ss, E)
<1> DEFINE t == ss[m + 1]
           u == s \o t
<1>1. /\ IsSeq(s) /\ E[0] = 0 /\ Len(s) = E[m]
      /\ \A i \in 1..m : E[i] \in Nat /\ E[i] = E[i - 1] + Len(ss[i])
      /\ \A i \in 1..m : \A j \in 1..Len(ss[i]) :
             E[i - 1] + j \in 1..Len(s) /\ s[E[i - 1] + j] = ss[i][j]
      /\ \A p \in 1..Len(s) :
             \E i \in 1..m : \E j \in 1..Len(ss[i]) : p = E[i - 1] + j
  BY DEF IsJoinedUpto
<1>2. /\ IsSeq(u) /\ Len(u) = Len(s) + Len(t) /\ Len(s) \in Nat /\ Len(t) \in Nat
      /\ \A i \in 1..Len(s) : u[i] = s[i]
      /\ \A i \in 1..Len(t) : u[Len(s) + i] = t[i]
  <2>1. IsSeq(s) /\ IsSeq(t)
    BY <1>1
  <2> HIDE DEF t
  <2> QED  BY <2>1, SeqFacts, SeqConcat
<1>3. E[m] \in Nat /\ E[m + 1] = E[m] + Len(t) /\ (m + 1) - 1 = m
  BY <1>1, <1>2
<1>4. ss[m + 1] = t
  OBVIOUS
<1> HIDE DEF t, u
<1>5. \A i \in 1..(m + 1) : E[i] \in Nat /\ E[i] = E[i - 1] + Len(ss[i])
  <2> SUFFICES ASSUME NEW i \in 1..(m + 1)
               PROVE  E[i] \in Nat /\ E[i] = E[i - 1] + Len(ss[i])
    OBVIOUS
  <2>1. CASE i = m + 1
    BY <1>2, <1>3, <1>4, <2>1
  <2>2. CASE i # m + 1
    <3>1. i \in 1..m
      BY <2>2
    <3> QED  BY <1>1, <3>1
  <2> QED  BY <2>1, <2>2
<1>6. \A i \in 1..(m + 1) : \A j \in 1..Len(ss[i]) :
          E[i - 1] + j \in 1..Len(u) /\ u[E[i - 1] + j] = ss[i][j]
  <2> SUFFICES ASSUME NEW i \in 1..(m + 1), NEW j \in 1..Len(ss[i])
               PROVE  E[i - 1] + j \in 1..Len(u) /\ u[E[i - 1] + j] = ss[i][j]
    OBVIOUS
  <2>1. CASE i = m + 1
    <3>1. E[i - 1] = Len(s) /\ ss[i] = t /\ j \in 1..Len(t)
      BY <1>1, <1>3, <1>4, <2>1
    <3> QED  BY <1>2, <3>1
  <2>2. CASE i # m + 1
    <3>1. i \in 1..m
      BY <2>2
    <3>2. E[i - 1] + j \in 1..Len(s) /\ s[E[i - 1] + j] = ss[i][j]
      BY <1>1, <3>1
    <3>3. u[E[i - 1] + j] = s[E[i - 1] + j]
      BY <1>2, <3>2
    <3>4. E[i - 1] + j \in 1..Len(u)
      <4> DEFINE q == E[i - 1] + j
      <4>1. q \in 1..Len(s)
        BY <3>2
      <4> HIDE DEF q
      <4>2. q \in 1..Len(u)
        BY <1>2, <4>1
      <4> QED  BY <4>2 DEF q
    <3> QED  BY <3>2, <3>3, <3>4
  <2> QED  BY <2>1, <2>2
<1>7. \A p \in 1..Len(u) :
          \E i \in 1..(m + 1) : \E j \in 1..Len(ss[i]) : p = E[i - 1] + j
  <2> SUFFICES ASSUME NEW p \in 1..Len(u)
               PROVE  \E i \in 1..(m + 1) : \E j \in 1..Len(ss[i]) : p = E[i - 1] + j
    OBVIOUS
  <2>1. CASE p \in 1..Len(s)
    <3>1. PICK i \in 1..m : \E j \in 1..Len(ss[i]) : p = E[i - 1] + j
      BY <1>1, <2>1
    <3>2. i \in 1..(m + 1)
      OBVIOUS
    <3> QED  BY <3>1, <3>2
  <2>2. CASE p \notin 1..Len(s)
    <3>1. p - Len(s) \in 1..Len(t) /\ p = Len(s) + (p - Len(s))
      BY <1>2, <2>2
    <3>2. E[(m + 1) - 1] = Len(s)
      BY <1>1, <1>3
    <3>3. \E j \in 1..Len(ss[m + 1]) : p = E[(m + 1) - 1] + j
      BY <3>1, <3>2, <1>4
    <3> QED  BY <3>3
  <2> QED  BY <2>1, <2>2
<1>8. Len(u) = E[m + 1]
  BY <1>1, <1>2, <1>3
<1> QED  BY <1>1, <1>2, <1>5, <1>6, <1>7, <1>8 DEF IsJoinedUpto, u, t

(* FlattenSeq has the sequences it joins one after the other.              *)
LEMMA FlattenFacts ==
    ASSUME NEW ss, IsSeq(ss), \A i \in 1..Len(ss) : IsSeq(ss[i])
    PROVE  \E E : IsJoined(FlattenSeq(ss), ss, E)
<1> DEFINE n == Len(ss)
<1>0. n \in Nat
  BY SeqFacts
<1>1. CASE n = 0
  <2> DEFINE E == [i \in 0..0 |-> 0]
  <2>1. FlattenSeq(ss) = ss
    BY <1>1 DEF FlattenSeq
  <2>2. IsJoined(ss, ss, E)
    BY <1>1 DEF IsJoined, IsJoinedUpto
  <2> QED  BY <2>1, <2>2
<1>2. CASE n # 0
  <2>1. PICK F : /\ F = [i \in 1..n |-> IF i = 1 THEN ss[i] ELSE F[i - 1] \o ss[i]]
                 /\ FlattenSeq(ss) = F[n]
    BY <1>0, <1>2, FlattenFunction
  <2>2. \A i \in 1..n : F[i] = IF i = 1 THEN ss[i] ELSE F[i - 1] \o ss[i]
    BY <2>1
  <2>3. PICK E : E = [i \in 0..n |-> IF i = 0 THEN 0 ELSE Len(F[i])]
    OBVIOUS
  <2>4. E[0] = 0 /\ \A i \in 1..n : E[i] = Len(F[i])
    BY <1>0, <2>3
  <2>5. \A i \in 1..n : IsSeq(ss[i]) /\ Len(ss[i]) \in Nat
    BY SeqFacts
  <2> DEFINE Good == {m \in Nat : m \in 1..n => IsJoinedUpto(m, F[m], ss, E)}
  <2>6. 0 \in Good
    OBVIOUS
  <2>7. ASSUME NEW m \in Nat, m \in Good PROVE m + 1 \in Good
    <3> SUFFICES ASSUME m + 1 \in 1..n
                 PROVE  IsJoinedUpto(m + 1, F[m + 1], ss, E)
      OBVIOUS
    <3>1. IsSeq(ss[m + 1]) /\ Len(ss[m + 1]) \in Nat
      BY <2>5
    <3>2. CASE m = 0
      <4>1. /\ F[1] = ss[1] /\ E[0] = 0 /\ E[1] = Len(ss[1])
            /\ IsSeq(ss[1]) /\ Len(ss[1]) \in Nat
        BY <2>2, <2>4, <3>1, <3>2
      <4>2. IsJoinedUpto(1, ss[1], ss, E)
        BY <4>1 DEF IsJoinedUpto
      <4> QED  BY <3>2, <4>1, <4>2
    <3>3. CASE m # 0
      <4>1. m \in 1..n /\ m + 1 # 1 /\ (m + 1) - 1 = m
        BY <1>0, <3>3
      <4>2. IsJoinedUpto(m, F[m], ss, E)
        BY <2>7, <4>1
      <4>3. F[m + 1] = F[m] \o ss[m + 1]
        BY <2>2, <4>1
      <4>4. IsSeq(F[m]) /\ Len(F[m]) = E[m]
        BY <4>2 DEF IsJoinedUpto
      <4>5. E[m + 1] = Len(F[m] \o ss[m + 1])
        BY <2>4, <4>3
      <4>6. E[m + 1] = E[m] + Len(ss[m + 1])
        <5>1. Len(F[m] \o ss[m + 1]) = Len(F[m]) + Len(ss[m + 1])
          <6>1. \A a, b : IsSeq(a) /\ IsSeq(b) => Len(a \o b) = Len(a) + Len(b)
            BY ONLY SeqConcat
          <6> QED  BY ONLY <3>1, <4>4, <6>1, Zenon
        <5> QED  BY <4>4, <4>5, <5>1
      <4> QED  BY <3>1, <4>2, <4>3, <4>6, JoinedNext
    <3> QED  BY <3>2, <3>3
  <2>8. n \in Good
    <3> HIDE DEF Good
    <3> QED  BY <1>0, <2>6, <2>7, NatSetInduction
  <2>9. n \in 1..n
    BY <1>0, <1>2
  <2> QED  BY <2>1, <2>8, <2>9 DEF IsJoined
<1> QED  BY <1>1, <1>2

(* Joining sequences without repetitions that have nothing in common gives *)
(* one without repetitions, of all their elements.                         *)
LEMMA FlattenDistinct ==
    ASSUME NEW ss, IsSeq(ss), \A i \in 1..Len(ss) : IsSeq(ss[i]),
           \A i \in 1..Len(ss) : \A j, k \in 1..Len(ss[i]) :
               ss[i][j] = ss[i][k] => j = k,
           \A h, i \in 1..Len(ss) : h # i =>
               \A j \in 1..Len(ss[h]), k \in 1..Len(ss[i]) : ss[h][j] # ss[i][k]
    PROVE  LET s == FlattenSeq(ss)
           IN  /\ IsSeq(s)
               /\ \A p, q \in 1..Len(s) : s[p] = s[q] => p = q
               /\ \A p \in 1..Len(s) :
                      \E i \in 1..Len(ss) : \E j \in 1..Len(ss[i]) : s[p] = ss[i][j]
               /\ \A i \in 1..Len(ss) : \A j \in 1..Len(ss[i]) :
                      \E p \in 1..Len(s) : s[p] = ss[i][j]
<1> DEFINE s == FlattenSeq(ss)
           n == Len(ss)
<1>1. PICK E : IsJoinedUpto(n, s, ss, E)
  BY FlattenFacts DEF IsJoined
<1> HIDE DEF s
<1>2. /\ IsSeq(s)
      /\ \A i \in 1..n : \A j \in 1..Len(ss[i]) :
             E[i - 1] + j \in 1..Len(s) /\ s[E[i - 1] + j] = ss[i][j]
      /\ \A p \in 1..Len(s) :
             \E i \in 1..n : \E j \in 1..Len(ss[i]) : p = E[i - 1] + j
  BY <1>1 DEF IsJoinedUpto
<1>3. \A p \in 1..Len(s) :
          \E i \in 1..n : \E j \in 1..Len(ss[i]) : p = E[i - 1] + j /\ s[p] = ss[i][j]
  BY <1>2
<1>4. ASSUME NEW p \in 1..Len(s), NEW q \in 1..Len(s), s[p] = s[q] PROVE p = q
  <2>1. PICK h \in 1..n : \E j \in 1..Len(ss[h]) : p = E[h - 1] + j /\ s[p] = ss[h][j]
    BY <1>3
  <2>2. PICK j \in 1..Len(ss[h]) : p = E[h - 1] + j /\ s[p] = ss[h][j]
    BY <2>1
  <2>3. PICK i \in 1..n : \E k \in 1..Len(ss[i]) : q = E[i - 1] + k /\ s[q] = ss[i][k]
    BY <1>3
  <2>4. PICK k \in 1..Len(ss[i]) : q = E[i - 1] + k /\ s[q] = ss[i][k]
    BY <2>3
  <2>5. h = i
    BY <1>4, <2>2, <2>4
  <2>6. j = k
    BY <1>4, <2>2, <2>4, <2>5
  <2> QED  BY <2>2, <2>4, <2>5, <2>6
<1>5. \A i \in 1..n : \A j \in 1..Len(ss[i]) : \E p \in 1..Len(s) : s[p] = ss[i][j]
  <2> SUFFICES ASSUME NEW i \in 1..n, NEW j \in 1..Len(ss[i])
               PROVE  \E p \in 1..Len(s) : s[p] = ss[i][j]
    OBVIOUS
  <2>1. E[i - 1] + j \in 1..Len(s) /\ s[E[i - 1] + j] = ss[i][j]
    BY <1>2
  <2> QED  BY <2>1
<1>6. \A p \in 1..Len(s) : \E i \in 1..n : \E j \in 1..Len(ss[i]) : s[p] = ss[i][j]
  <2> TAKE p \in 1..Len(s)
  <2>1. PICK i \in 1..n : \E j \in 1..Len(ss[i]) : p = E[i - 1] + j /\ s[p] = ss[i][j]
    BY <1>3
  <2>2. PICK j \in 1..Len(ss[i]) : s[p] = ss[i][j]
    BY <2>1
  <2> QED  BY <2>2
<1> QED  BY <1>2, <1>4, <1>5, <1>6, Zenon DEF s

(* A sequence has finitely many elements, and so have finitely many        *)
(* sequences together.                                                     *)
LEMMA RangeFinite == ASSUME NEW s, IsSeq(s) PROVE IsFiniteSet(Range(s))
<1>1. Len(s) \in Nat /\ DOMAIN s = 1..Len(s) /\ s = [i \in 1..Len(s) |-> s[i]]
  BY SeqFacts DEF IsSeq
<1>2. \A i \in 1..Len(s) : s[i] \in Range(s)
  BY <1>1 DEF Range
<1>3. s \in [1..Len(s) -> Range(s)]
  BY <1>1, <1>2
<1>4. \A x \in Range(s) : \E i \in 1..Len(s) : s[i] = x
  BY <1>1 DEF Range
<1>5. s \in Surjection(1..Len(s), Range(s))
  BY <1>3, <1>4 DEF Surjection
<1>6. IsFiniteSet(1..Len(s))
  BY <1>1, UptoFinite
<1> QED  BY <1>5, <1>6, FS_Surjection

(* Finitely many sequences have finitely many elements in all.             *)
LEMMA RangesFinite ==
    ASSUME NEW n \in Nat, NEW f, \A k \in 1..n : IsSeq(f[k])
    PROVE  IsFiniteSet(UNION {Range(f[k]) : k \in 1..n})
<1> DEFINE g == [k \in 1..n |-> Range(f[k])]
<1>1. PICK h : h = g
  OBVIOUS
<1>2. h = [k \in 1..n |-> h[k]] /\ DOMAIN h = 1..n
  BY <1>1
<1>3. IsFiniteSet(Range(h))
  BY <1>2, SeqOfFunction, RangeFinite
<1>4. Range(h) = {Range(f[k]) : k \in 1..n}
  BY <1>1, <1>2 DEF Range
<1>5. \A T \in Range(h) : IsFiniteSet(T)
  BY <1>4, RangeFinite
<1> QED  BY <1>3, <1>4, <1>5, FS_UNION

(* The ends of joined sequences ascend.                                    *)
LEMMA EndsAscend ==
    ASSUME NEW s, NEW ss, NEW E, IsJoined(s, ss, E), Len(ss) \in Nat,
           \A i \in 1..Len(ss) : Len(ss[i]) \in Nat
    PROVE  /\ \A i \in 0..Len(ss) : E[i] \in Nat
           /\ \A i, j \in 0..Len(ss) : i =< j => E[i] =< E[j]
<1> DEFINE n == Len(ss)
<1>1. E[0] = 0 /\ \A i \in 1..n : E[i] \in Nat /\ E[i] = E[i - 1] + Len(ss[i])
  BY DEF IsJoined, IsJoinedUpto
<1>2. \A i \in 0..n : E[i] \in Nat
  BY <1>1
<1> HIDE DEF n
<1>3. n \in Nat
  BY DEF n
<1>4. ASSUME NEW i \in 0..n PROVE \A j \in 0..n : i =< j => E[i] =< E[j]
  <2> DEFINE S == {j \in 0..n : i =< j => E[i] =< E[j]}
  <2>1. 0 \in S
    BY <1>2, <1>3
  <2>2. ASSUME NEW j \in 0..(n - 1), j \in S PROVE j + 1 \in S
    <3>1. j + 1 \in 1..n /\ (j + 1) - 1 = j /\ j \in 0..n
      BY <1>3
    <3>2. E[j + 1] = E[j] + Len(ss[j + 1]) /\ Len(ss[j + 1]) \in Nat
      BY <1>1, <3>1 DEF n
    <3>3. E[i] \in Nat /\ E[j] \in Nat /\ E[j + 1] \in Nat
      BY <1>2, <3>1
    <3>4. i =< j => E[i] =< E[j]
      BY <2>2
    <3>5. i =< j + 1 => E[i] =< E[j + 1]
      <4>1. CASE i =< j
        BY <3>2, <3>3, <3>4, <4>1
      <4>2. CASE i = j + 1
        BY <3>3, <4>2
      <4> QED  BY <4>1, <4>2
    <3> QED  BY <3>1, <3>5
  <2>3. 0..n \subseteq S
    <3> HIDE DEF S
    <3> QED  BY <1>3, <2>1, <2>2, UpToInduction
  <2> QED  BY <2>3
<1> QED  BY <1>2, <1>4 DEF n

(* f lists n sequences of at most one element each.                        *)
AreOptions(f, n) ==
    /\ f = [i \in 1..n |-> f[i]]
    /\ \A i \in 1..n : IsSeq(f[i]) /\ Len(f[i]) =< 1 /\ (Len(f[i]) = 0 <=> f[i] = << >>)

(* Joining them lists the elements there are, in order.                    *)
LEMMA FlattenOptions ==
    ASSUME NEW n \in Nat, NEW f, AreOptions(f, n),
           NEW S, S = {i \in 1..n : f[i] # << >>}
    PROVE  /\ IsSeq(FlattenSeq(f))
           /\ Len(FlattenSeq(f)) = Cardinality(S)
           /\ \A j \in 1..Cardinality(S) :
                  /\ Ascending(S)[j] \in S
                  /\ FlattenSeq(f)[j] = f[Ascending(S)[j]][1]
           /\ \A i, j \in 1..Cardinality(S) : i < j => Ascending(S)[i] < Ascending(S)[j]
           /\ IsSeq(Ascending(S)) /\ Len(Ascending(S)) = Cardinality(S)
<1> DEFINE a == Ascending(S)
           s == FlattenSeq(f)
           m == Cardinality(S)
<1>0. /\ f = [i \in 1..n |-> f[i]]
      /\ \A i \in 1..n : IsSeq(f[i]) /\ Len(f[i]) =< 1 /\ (Len(f[i]) = 0 <=> f[i] = << >>)
  BY DEF AreOptions
<1>1. IsSeq(f) /\ Len(f) = n
  BY <1>0, SeqOfFunction
<1>2. PICK E : IsJoined(s, f, E)
  BY <1>0, <1>1, FlattenFacts
<1>3. /\ IsSeq(s) /\ E[0] = 0 /\ Len(s) = E[n]
      /\ \A i \in 1..n : E[i] \in Nat /\ E[i] = E[i - 1] + Len(f[i])
      /\ \A i \in 1..n : \A j \in 1..Len(f[i]) :
             E[i - 1] + j \in 1..Len(s) /\ s[E[i - 1] + j] = f[i][j]
      /\ \A p \in 1..Len(s) :
             \E i \in 1..n : \E j \in 1..Len(f[i]) : p = E[i - 1] + j
  BY <1>1, <1>2 DEF IsJoined, IsJoinedUpto
<1>4. \A i \in 1..n : Len(f[i]) \in Nat
  BY <1>0, SeqFacts
<1>5. /\ \A i \in 0..n : E[i] \in Nat
      /\ \A i, j \in 0..n : i =< j => E[i] =< E[j]
  BY <1>1, <1>2, <1>4, EndsAscend
<1>6. /\ \A i \in S : i \in 1..n /\ Len(f[i]) = 1
      /\ \A i \in 1..n : Len(f[i]) # 0 => i \in S
  <2>1. ASSUME NEW i \in 1..n 
          PROVE  (Len(f[i]) = 1 <=> f[i] # << >>) /\ (Len(f[i]) # 0 => Len(f[i]) = 1)
    <3>1. Len(f[i]) \in Nat /\ Len(f[i]) =< 1
      BY <1>0, <1>4
    <3>2. Len(f[i]) = 0 \/ Len(f[i]) = 1
      <4>1. \A k \in Nat : k =< 1 => k = 0 \/ k = 1
        OBVIOUS
      <4> QED  BY <3>1, <4>1, Zenon
    <3>3. Len(f[i]) = 0 <=> f[i] = << >>
      BY <1>0
    <3> QED  BY <3>2, <3>3
  <2> QED  BY <2>1
<1>13. Len(s) \in Nat
  BY <1>3, SeqFacts
<1> HIDE DEF a, s, m
<1>7. \A i \in S : /\ E[i] = E[i - 1] + 1
                   /\ E[i] \in 1..Len(s)
                   /\ s[E[i]] = f[i][1]
  <2> SUFFICES ASSUME NEW i \in S
               PROVE  /\ E[i] = E[i - 1] + 1
                      /\ E[i] \in 1..Len(s)
                      /\ s[E[i]] = f[i][1]
    OBVIOUS
  <2>1. i \in 1..n /\ Len(f[i]) = 1 /\ 1 \in 1..Len(f[i])
    BY <1>6
  <2>2. E[i] = E[i - 1] + 1 /\ E[i - 1] + 1 \in 1..Len(s) /\ s[E[i - 1] + 1] = f[i][1]
    BY <1>3, <2>1
  <2> QED  BY <2>2
<1>8. \A i, j \in S : i < j => E[i] < E[j]
  <2> SUFFICES ASSUME NEW i \in S, NEW j \in S, i < j PROVE E[i] < E[j]
    OBVIOUS
  <2>1. i \in 0..n /\ j - 1 \in 0..n /\ i =< j - 1
    <3>1. i \in 1..n /\ j \in 1..n
      BY <1>6
    <3> QED  BY <3>1
  <2>2. E[i] =< E[j - 1]
    BY <1>5, <2>1
  <2>3. E[i] \in Nat /\ E[j - 1] \in Nat /\ E[j] = E[j - 1] + 1
    BY <1>5, <1>7, <2>1
  <2> QED  BY <2>2, <2>3
<1>9. \A p \in 1..Len(s) : \E i \in S : E[i] = p
  <2> SUFFICES ASSUME NEW p \in 1..Len(s) PROVE \E i \in S : E[i] = p
    OBVIOUS
  <2>1. PICK i \in 1..n : \E j \in 1..Len(f[i]) : p = E[i - 1] + j
    BY <1>3
  <2>2. Len(f[i]) = 1 /\ p = E[i - 1] + 1 /\ i \in S
    <3>1. Len(f[i]) \in Nat /\ Len(f[i]) # 0
      BY <1>4, <2>1
    <3>2. i \in S /\ Len(f[i]) = 1
      BY <1>6, <3>1
    <3> QED  BY <2>1, <3>2
  <2> QED  BY <1>7, <2>1, <2>2
<1>10. IsFiniteSet(S) /\ S \subseteq Int
  <2>1. S \subseteq 1..n
    BY <1>6
  <2>2. IsFiniteSet(1..n) /\ 1..n \subseteq Int
    BY UptoFinite
  <2>3. IsFiniteSet(S)
    BY <2>1, <2>2, FS_Subset, Zenon
  <2> QED  BY <2>1, <2>2, <2>3
<1>11. ListsInOrder(a, S, [x \in S |-> x])
  BY <1>10, AscendingFacts DEF a
<1>12. /\ m \in Nat
       /\ a \in [1..m -> S]
       /\ \A i, j \in 1..m : i < j => a[i] < a[j]
  <2>1. m \in Nat /\ a \in [1..m -> S]
    BY <1>11 DEF ListsInOrder, m
  <2>2. \A i, j \in 1..m : i < j => [x \in S |-> x][a[i]] < [x \in S |-> x][a[j]]
    BY <1>11 DEF ListsInOrder, m
  <2> QED  BY <2>1, <2>2
<1>14. Len(s) = m
  <2> DEFINE g == [i \in S |-> E[i]]
  <2>1. g \in [S -> 1..Len(s)]
    BY <1>7
  <2>2. \A i, j \in S : g[i] = g[j] => i = j
    <3>1. \A i, j \in S : i = j \/ i < j \/ j < i
      <4>1. \A i, j \in 1..n : i = j \/ i < j \/ j < i
        OBVIOUS
      <4> QED  BY <1>6, <4>1
    <3>2. \A i \in S : g[i] = E[i] /\ E[i] \in Int
      BY <1>7
    <3> HIDE DEF g
    <3> QED  BY <1>8, <3>1, <3>2
  <2>3. \A p \in 1..Len(s) : \E i \in S : g[i] = p
    BY <1>9
  <2> HIDE DEF g
  <2>4. g \in Bijection(S, 1..Len(s))
    BY <2>1, <2>2, <2>3 DEF Bijection, Injection, Surjection, IsInjective
  <2>5. Cardinality(1..Len(s)) = Len(s)
    BY <1>13, UptoFinite
  <2> QED  BY <1>10, <2>4, <2>5, FS_Bijection DEF m, ExistsBijection
<1>15. \A j \in 1..m : E[a[j]] = j
  <2> DEFINE h == [j \in 1..m |-> E[a[j]]]
  <2>1. \A j \in 1..m : a[j] \in S
    BY <1>12
  <2>2. h \in [1..m -> 1..m]
    <3> QED  BY <1>7, <1>14, <2>1
  <2>3. \A i, j \in 1..m : i < j => h[i] < h[j]
    <3> QED  BY <1>8, <1>12, <2>1
  <2>4. \A j \in 1..m : h[j] = j
    <3> HIDE DEF h
    <3> QED  BY <1>12, <2>2, <2>3, InOrderIdentity
  <2> QED  BY <2>4
<1>16. \A j \in 1..m : a[j] \in S /\ s[j] = f[a[j]][1]
  <2> QED  BY <1>7, <1>12, <1>15
<1>17. IsSeq(a) /\ Len(a) = m
  <2>1. a = [i \in 1..m |-> a[i]]
    BY <1>12
  <2> QED  BY <1>12, <2>1, SeqOfFunction
<1> QED  BY <1>3, <1>12, <1>14, <1>16, <1>17 DEF a, s, m
=============================================================================
