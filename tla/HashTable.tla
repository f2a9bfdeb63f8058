------------------------------ MODULE HashTable ------------------------------
(***************************************************************************)
(* A table of unordered_dense.h, and the calls a program may make of it.   *)
(* Every action is one call; a call that needs memory may fail.            *)
(***************************************************************************)
EXTENDS DenseTable, FiniteSets

CONSTANTS
    Entries,    \* the entries inserted: a set of [key, val]
    Containers, \* the sequences of entries given to replace
    Lists,      \* the sequences of entries inserted by one call
    Loads,      \* the load factors a program asks for
    Counts,     \* the counts given to reserve, rehash and the constructor
    Preds,      \* the sets of keys that erase_if is asked to erase
    Default     \* a value-initialised value

ASSUME HashTableAssumption ==
    /\ Entries \subseteq [key : DOMAIN Hash, val : {e.val : e \in Entries}]
    /\ Containers \cup Lists \subseteq Seq(Entries)
    /\ \A load \in Loads : IsLoad(load)
    /\ Counts \subseteq Nat

VARIABLES
    table,
    indexed,    \* FALSE: extract() && has taken the values, the buckets are stale
    ret         \* history: what the last call returned

tabvars == <<table, indexed, ret>>

TableKeys == {e.key : e \in Entries}

Nothing == [is |-> "nothing"]
Thrown  == [is |-> "exception"]
ThrownCleared == [is |-> "exception in an assignment"]
Missing == [is |-> "out_of_range"]
Entry(key, val, is_new) == [is |-> "entry", key |-> key, val |-> val, is_new |-> is_new]

Compared(m, equals) == [is |-> "compared", with |-> m, equal |-> equals]
Assigned(m, thrown) == [is |-> "copy assignment", from |-> m, thrown |-> thrown]
Gone(values, places) == [is |-> "gone", entries |-> MapOf(values, places)]

TabInit ==
    /\ table \in Made(UNION {Constructed(n) : n \in Counts})
    /\ indexed = TRUE
    /\ ret = Nothing

(* An index there is, and it is one of the values.  After a failure, or    *)
(* extract() &&, a program may only clear, refill or assign the table.     *)
Usable == indexed /\ bucket_count(table) > 0

-----------------------------------------------------------------------------
(* Calls that only ask.                                                    *)
Finds(key, missing) ==
    /\ Usable \/ table.values = << >>
    /\ LET i == do_find(table, key)
       IN  ret' = IF i = end(table) THEN missing
                  ELSE LET e == table.values[i + 1] IN Entry(e.key, e.val, FALSE)
    /\ UNCHANGED <<table, indexed>>

(* find, count, contains and equal_range.                                  *)
Find(key) == Finds(key, Nothing)

At(key) == Finds(key, Missing)

(* operator==, with a table that other calls have made.                    *)
Compare(other) ==
    /\ Usable
    /\ ret' = Compared(AsMap(other), equal(table, other))
    /\ UNCHANGED <<table, indexed>>

(* What an insertion r leaves and returns.                                 *)
Inserts(r) ==
    /\ Usable
    /\ table' = r.end.table
    /\ ret' = IF r.end.thrown THEN Thrown
              ELSE LET e == table'.values[r.idx + 1] IN Entry(e.key, e.val, r.is_new)
    /\ UNCHANGED indexed

TryEmplace(e)     == Usable /\ \E r \in do_try_emplace(table, e) : Inserts(r)
Emplace(e)        == Usable /\ \E r \in emplace(table, e) : Inserts(r)
InsertOrAssign(e) == Usable /\ \E r \in do_insert_or_assign(table, e) : Inserts(r)

(* map[key] = val: operator[] makes a default value, which is assigned.    *)
Subscript(e) ==
    /\ Usable
    /\ \E r \in do_try_emplace(table, [e EXCEPT !.val = Default]) :
           Inserts(IF r.end.thrown THEN r
                   ELSE [r EXCEPT !.end.table = assign(@, r.idx, e.val)])

Erases(t, places) ==
    /\ table' = t
    /\ ret' = Gone(table.values, places)
    /\ UNCHANGED indexed

PlacesOf(keys) == {i \in DOMAIN table.values : table.values[i].key \in keys}

(* erase(key) and extract(key), which hands over the value it finds.       *)
EraseKey(key) ==
    /\ Usable
    /\ LET b == EraseAt(table, key)
       IN  Erases(do_erase_key(table, key),
                  IF table.values = << >> \/ b = -1 THEN {} ELSE {at(table, b).value_idx + 1})

EraseIt(i)           == Usable /\ Erases(erase_it(table, i - 1), {i})
EraseRange(i, j)     == Usable /\ Erases(erase_range(table, i - 1, j), i..j)
EraseIf(keys)        == Usable /\ Erases(erase_if(table, keys), PlacesOf(keys))

-----------------------------------------------------------------------------
(* Calls on the whole table.                                               *)
Becomes(e) ==
    /\ table' = e.table
    /\ ret' = IF e.thrown THEN Thrown ELSE Nothing

(* The counts for which some index is large enough under the load factor:  *)
(* for others the code comes to shift a size_t by its width.               *)
Fits(n) == calc_shifts_for_size(n, table.max_load_factor) > 0

Reserve(n) ==
    /\ indexed /\ Fits(Max({n, size(table)}))
    /\ \E e \in reserve(table, n) : Becomes(e)
    /\ UNCHANGED indexed

Rehash(n) ==
    /\ indexed /\ Fits(Max({n, size(table)}))
    /\ \E e \in rehash(table, n) : Becomes(e)
    /\ UNCHANGED indexed

SetLoad(load) ==
    /\ indexed
    /\ Becomes(Ends(max_load_factor(table, load)))
    /\ UNCHANGED indexed

(* insert(first, last) and insert(ilist).                                  *)
InsertRange(entries) ==
    /\ Usable
    /\ \E e \in insert_range(table, entries) : Becomes(e)
    /\ UNCHANGED indexed

(* operator=(ilist): the index must be there, for the insertions.          *)
AssignList(entries) ==
    /\ bucket_count(table) > 0
    /\ \E e \in insert_range(clear(table), entries) :
           /\ table' = e.table
           /\ ret' = IF e.thrown THEN ThrownCleared ELSE Nothing
    /\ indexed' = TRUE

(* The program goes on with a new table; when its constructor fails, with  *)
(* the one it has.                                                         *)
Construct(count, entries) ==
    \E e \in Filled(count, entries) :
        IF e.thrown THEN Becomes(Throws(table)) /\ UNCHANGED indexed
        ELSE Becomes(e) /\ indexed' = TRUE

Clear ==
    /\ Becomes(Ends(clear(table)))
    /\ indexed' = TRUE

Replace(container) ==
    /\ Fits(Len(container)) \/ Len(container) > max_bucket_count
    /\ \E e \in replace(table, container) : Becomes(e) /\ indexed' = (indexed \/ ~e.thrown)

(* extract() &&.                                                           *)
ExtractAll ==
    /\ indexed
    /\ table' = [table EXCEPT !.values = << >>]
    /\ indexed' = FALSE
    /\ ret' = Gone(table.values, DOMAIN table.values)

(* The program goes on with a copy, or, when it cannot be made, with the   *)
(* table it has; what is moved keeps all its members and needs no step.    *)
CopyConstruct ==
    /\ Usable \/ table.values = << >>
    /\ \E e \in Copied(table) :
           IF e.thrown THEN Becomes(Throws(table)) /\ UNCHANGED indexed
           ELSE Becomes(e) /\ indexed' = TRUE

(* The program goes on with the table that others were moved from.         *)
MoveAway ==
    /\ Becomes(Ends(MovedFrom(table)))
    /\ indexed' = TRUE

(* Other tables of the program: one moved from, one that was filled, and,  *)
(* when this one may be copied, a copy of it.                               *)
Fillings == Made(UNION {Filled(n, entries) : n \in Counts, entries \in Lists})
Copies   == IF Usable \/ table.values = << >> THEN Made(Copied(table)) ELSE {}
Sources  == {MovedFrom(table)} \cup Fillings \cup Copies

(* To compare with, a copy with one entry changed, or in another order.    *)
Others ==
    Sources
    \cup {assign(c, i - 1, Default) : c \in Copies, i \in DOMAIN table.values}
    \cup IF Usable
         THEN Made(UNION {insert_range(erase_it(table, i - 1), <<table.values[i]>>) :
                             i \in DOMAIN table.values})
         ELSE {}

(* operator=(table const&): the table may be in any state before.          *)
CopyAssign(other) ==
    /\ \E e \in copy_assign(table, other) :
           /\ table' = e.table
           /\ ret' = Assigned(AsMap(other), e.thrown)
    /\ indexed' = TRUE

TabNext ==
    \/ \E e \in Entries : TryEmplace(e) \/ Emplace(e) \/ InsertOrAssign(e) \/ Subscript(e)
    \/ \E key \in TableKeys : EraseKey(key)
    \/ \E i \in DOMAIN table.values : EraseIt(i)
    \/ \E i, j \in DOMAIN table.values : i < j /\ EraseRange(i, j)
    \/ \E keys \in Preds : EraseIf(keys)
    \/ \E n \in Counts : Reserve(n) \/ Rehash(n)
    \/ \E load \in Loads : SetLoad(load)
    \/ \E key \in TableKeys : Find(key) \/ At(key)
    \/ \E other \in Others : Compare(other)
    \/ \E other \in Sources : CopyAssign(other)
    \/ \E entries \in Lists : InsertRange(entries) \/ AssignList(entries)
    \/ \E n \in Counts, entries \in Lists : Construct(n, entries)
    \/ Clear
    \/ \E container \in Containers : Replace(container)
    \/ ExtractAll
    \/ CopyConstruct
    \/ MoveAway

TabSpec == TabInit /\ [][TabNext]_tabvars

-----------------------------------------------------------------------------
(* A search finds every key that is in the table, at its place, and no     *)
(* other: the stop at the first poorer bucket never comes too early.       *)
FindsExactly ==
    Usable =>
        \A key \in TableKeys :
            LET i == do_find(table, key)
                places == PlacesOf({key})
            IN  IF i = end(table) THEN places = {} ELSE places = {i + 1}

Home(i) == bucket_idx_from_hash(table, key_at(table, i))

(* Every value is in one bucket, which is as far from its home as it says, *)
(* and no bucket is ahead of a poorer one: what probing relies on.         *)
IndexSound ==
    Usable =>
        LET Buckets == 0..(bucket_count(table) - 1)
            taken == {b \in Buckets : at(table, b) # EmptyBucket}
        IN  /\ Cardinality(taken) = size(table)
            /\ {at(table, b).value_idx : b \in taken} = 0..(size(table) - 1)
            /\ \A b \in taken :
                   LET i == at(table, b).value_idx
                       d == (b - Home(i)) % bucket_count(table)
                       before == at(table, next(table, b, bucket_count(table) - 1))
                   IN  /\ at(table, b).dist_and_fingerprint = Wanted(key_at(table, i), d)
                       /\ d > 0 => before.dist_and_fingerprint + DistInc
                                       >= at(table, b).dist_and_fingerprint

(* An insertion that does not make a larger index finds an empty bucket:   *)
(* place_and_shift_up would go round for ever.                             *)
RoomLeft ==
    Usable => \A e \in Entries :
        \/ is_full(emplace_back(table, e))
        \/ \E b \in DOMAIN table.buckets : table.buckets[b] = EmptyBucket

(* The table is a map: each call does to the entries what it promises,     *)
(* and returns what it should, whatever the layout and the failures.       *)
M == INSTANCE FlatMap WITH
        map        <- AsMap(table),
        Keys       <- TableKeys,
        Values     <- {e.val : e \in Entries} \cup {Default},
        Containers <- {{c[i] : i \in DOMAIN c} : c \in Containers},
        Lists      <- {{c[i] : i \in DOMAIN c} : c \in Lists}

MapSpec == M!MapSpec
=============================================================================
