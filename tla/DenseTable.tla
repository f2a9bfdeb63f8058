------------------------------ MODULE DenseTable ------------------------------
(***************************************************************************)
(* The hash table of unordered_dense.h, on which the report builder's maps *)
(* and sets are built: values in one dense sequence, and an index of       *)
(* buckets that leads from a hash to a place in that sequence (Robin Hood  *)
(* probing, backward shift deletion).                                      *)
(*                                                                         *)
(* A table is a record; each operator is one of its operations.  Places in *)
(* the values and buckets are counted from 0, as in the code.              *)
(***************************************************************************)
EXTENDS Integers, Sequences, FiniteSetsExt

CONSTANTS
    Hash,           \* mixed_hash of each key
    HashBits,       \* width of a hash: 64 in the code
    InitialBits,    \* a new table has 2^InitialBits buckets: 2 in the code
    IndexBits,      \* width of value_idx_type: 32 in the code
    DistInc,        \* Bucket::dist_inc, the number of fingerprints: 256
    DefaultLoad     \* default_max_load_factor, a fraction: <<4, 5>>

IsLoad(f) == f \in (Nat \ {0}) \X (Nat \ {0}) /\ f[1] =< f[2]

ASSUME DenseTableAssumption ==
    /\ {HashBits, InitialBits, IndexBits, DistInc} \subseteq Nat \ {0}
    /\ InitialBits < HashBits
    /\ InitialBits =< IndexBits /\ IndexBits =< HashBits
    /\ \A x \in 0..HashBits : 2^x \in Nat \ {0} /\ 2^HashBits = 2^x * 2^(HashBits - x)
    /\ \A x, y \in 0..HashBits : x < y => 2 * 2^x =< 2^y
    /\ \A key \in DOMAIN Hash : Hash[key] \in 0..(2^HashBits - 1)
    /\ IsLoad(DefaultLoad)

max_bucket_count == 2^IndexBits
initial_shifts   == HashBits - InitialBits

Bucket(daf, idx) == [dist_and_fingerprint |-> daf, value_idx |-> idx]
EmptyBucket == Bucket(0, 0)

size(t)         == Len(t.values)
bucket_count(t) == Len(t.buckets)
at(t, b)        == t.buckets[b + 1]
key_at(t, i)    == t.values[i + 1].key

mixed_hash(key) == Hash[key]

dist_and_fingerprint_from_hash(key) == DistInc + (mixed_hash(key) % DistInc)
bucket_idx_from_hash(t, key) == (mixed_hash(key) \div 2^t.shifts) % max_bucket_count

(* next(b), taken d times.                                                 *)
next(t, b, d) == (b + d) % bucket_count(t)

-----------------------------------------------------------------------------
(* Probing: d buckets away from the home of a key.                         *)
Here(t, key, d)    == at(t, next(t, bucket_idx_from_hash(t, key), d))
Stored(t, key, d)  == Here(t, key, d).dist_and_fingerprint
Wanted(key, d)     == dist_and_fingerprint_from_hash(key) + d * DistInc
SameKey(t, key, d) == key_at(t, Here(t, key, d).value_idx) = key
Hit(t, key, d)     == Wanted(key, d) = Stored(t, key, d) /\ SameKey(t, key, d)

(* Every loop over the buckets has ended once it came back to the home of  *)
(* the key: what is stored is at most bucket_count away from its own home. *)
Distances(t) == 0..bucket_count(t)

(* Where the key goes in an index that does not have it.                   *)
next_while_less(t, key) ==
    LET d == Min({x \in Distances(t) : Wanted(key, x) >= Stored(t, key, x)})
    IN  [daf |-> Wanted(key, d), place |-> next(t, bucket_idx_from_hash(t, key), d)]

(* The loop of do_try_emplace, emplace and replace: up to the key, or to   *)
(* where it goes.                                                          *)
Probe(t, key) ==
    LET d == Min({x \in Distances(t) :
                    Hit(t, key, x) \/ Wanted(key, x) > Stored(t, key, x)})
    IN  [found |-> Hit(t, key, d), daf |-> Wanted(key, d),
         place |-> next(t, bucket_idx_from_hash(t, key), d),
         idx   |-> Here(t, key, d).value_idx]

end(t) == size(t)

(* do_find: the first two buckets are only compared.                       *)
do_find(t, key) ==
    IF t.values = << >> THEN end(t)
    ELSE LET d == Min({x \in 0..(bucket_count(t) + 2) :
                         Hit(t, key, x) \/ (x >= 2 /\ Wanted(key, x) > Stored(t, key, x))})
         IN  IF Hit(t, key, d) THEN Here(t, key, d).value_idx ELSE end(t)

(* operator==: the keys of b are looked up in a.                           *)
equal(a, b) ==
    /\ size(a) = size(b)
    /\ \A e \in {b.values[j] : j \in DOMAIN b.values} :
           LET i == do_find(a, e.key)
           IN  i # end(a) /\ a.values[i + 1].val = e.val

(* Mutant of place_and_shift_up: what is shifted keeps its distance.       *)
place_and_shift_same(t, bucket, place) ==
    LET n == Min({d \in Distances(t) : at(t, next(t, place, d)) = EmptyBucket})
        moved(d) == at(t, next(t, place, d - 1))
    IN  [t EXCEPT !.buckets =
            [i \in DOMAIN @ |->
                LET d == (i - 1 - place) % bucket_count(t)
                IN  IF d = 0 THEN bucket ELSE IF d =< n THEN moved(d) ELSE @[i]]]

(* place_and_shift_up: the buckets up to the next empty one move along.    *)
place_and_shift_up(t, bucket, place) ==
    LET n == Min({d \in Distances(t) : at(t, next(t, place, d)) = EmptyBucket})
        moved(d) == LET old == at(t, next(t, place, d - 1))
                    IN  Bucket(old.dist_and_fingerprint + DistInc, old.value_idx)
    IN  [t EXCEPT !.buckets =
            [i \in DOMAIN @ |->
                LET d == (i - 1 - place) % bucket_count(t)
                IN  IF d = 0 THEN bucket ELSE IF d =< n THEN moved(d) ELSE @[i]]]

-----------------------------------------------------------------------------
(* The size of the index.                                                  *)
calc_num_buckets(shifts) == Min({max_bucket_count, 2^(HashBits - shifts)})

LoadOf(n, load) == (n * load[1]) \div load[2]

calc_shifts_for_size(s, load) ==
    Max({0} \cup {x \in 1..initial_shifts : LoadOf(calc_num_buckets(x), load) >= s})

(* Mutant of is_full: one more than the capacity fits.                     *)
is_overfull(t) == size(t) > t.max_bucket_capacity + 1

(* No element can be added; asked when the new value is there already.     *)
is_full(t) == size(t) > t.max_bucket_capacity

deallocate_buckets(t) == [t EXCEPT !.buckets = << >>, !.max_bucket_capacity = 0]

Capacity(n, load) == IF n = max_bucket_count THEN n ELSE LoadOf(n, load)

(* allocate_buckets_from_shift: there are no buckets before.               *)
allocate_buckets_from_shift(t) ==
    LET n == calc_num_buckets(t.shifts)
    IN  [t EXCEPT !.buckets = [i \in 1..n |-> EmptyBucket],
                  !.max_bucket_capacity = Capacity(n, t.max_load_factor)]

clear_buckets(t) == [t EXCEPT !.buckets = [i \in DOMAIN @ |-> EmptyBucket]]

Index(t, i) ==
    LET to == next_while_less(t, key_at(t, i))
    IN  place_and_shift_up(t, Bucket(to.daf, i), to.place)

clear_and_fill_buckets_from_values(t) ==
    LET filled[i \in 0..size(t)] ==
            IF i = 0 THEN clear_buckets(t) ELSE Index(filled[i - 1], i - 1)
    IN  filled[size(t)]

(* The entries at some places, as a map.                                   *)
MapOf(values, places) ==
    [k \in {values[i].key : i \in places} |->
        values[CHOOSE i \in places : values[i].key = k].val]
AsMap(t) == MapOf(t.values, DOMAIN t.values)

(* How a call ends: the table it leaves, and whether it threw.             *)
Ends(t)   == [table |-> t, thrown |-> FALSE]
Throws(t) == [table |-> t, thrown |-> TRUE]
Made(ends) == {e.table : e \in {x \in ends : ~x.thrown}}

(* A new index of 2^(HashBits - shifts) buckets for the values: when there *)
(* is no memory for it, the table is left without one.                     *)
Reindexed(t, shifts) ==
    LET u == deallocate_buckets([t EXCEPT !.shifts = shifts])
    IN  {Ends(clear_and_fill_buckets_from_values(allocate_buckets_from_shift(u))),
         Throws(u)}

pop_back(t) == [t EXCEPT !.values = SubSeq(@, 1, Len(@) - 1)]

increase_size(t) ==
    IF t.max_bucket_capacity = max_bucket_count THEN {Throws(pop_back(t))}
    ELSE Reindexed(t, t.shifts - 1)

-----------------------------------------------------------------------------
(* Inserting.                                                              *)
emplace_back(t, entry) == [t EXCEPT !.values = Append(@, entry)]

(* do_place_element, and the end of emplace: u has the new value.          *)
Place(u, daf, place) ==
    IF is_full(u) THEN increase_size(u)
    ELSE {Ends(place_and_shift_up(u, Bucket(daf, size(u) - 1), place))}

(* The value may find no memory, before anything has changed.              *)
do_place_element(t, daf, place, entry) ==
    {Throws(t)} \cup Place(emplace_back(t, entry), daf, place)

(* What an insertion returns besides: the place, and whether it is new.    *)
Found(t, i) == {[end |-> Ends(t), idx |-> i, is_new |-> FALSE]}
Placed(ends, i) == {[end |-> e, idx |-> i, is_new |-> TRUE] : e \in ends}

do_try_emplace(t, entry) ==
    LET p == Probe(t, entry.key)
    IN  IF p.found THEN Found(t, p.idx)
        ELSE Placed(do_place_element(t, p.daf, p.place, entry), size(t))

(* emplace, of a map and of a set: the value is there before it is known   *)
(* to be new.                                                              *)
emplace(t, entry) ==
    LET u == emplace_back(t, entry)
        p == Probe(u, entry.key)
    IN  Placed({Throws(t)}, size(t)) \cup
        IF p.found THEN Found(pop_back(u), p.idx)
        ELSE Placed(Place(u, p.daf, p.place), size(t))

(* insert(first, last): one after the other, until one fails.             *)
insert_range(t, entries) ==
    LET one(e, entry) == IF e.thrown THEN {e} ELSE {r.end : r \in emplace(e.table, entry)}
        after[n \in 0..Len(entries)] ==
            IF n = 0 THEN {Ends(t)} ELSE UNION {one(e, entries[n]) : e \in after[n - 1]}
    IN  after[Len(entries)]

assign(t, i, val) == [t EXCEPT !.values[i + 1].val = val]

do_insert_or_assign(t, entry) ==
    {IF r.is_new THEN r ELSE [r EXCEPT !.end.table = assign(@, r.idx, entry.val)] :
        r \in do_try_emplace(t, entry)}

-----------------------------------------------------------------------------
(* Erasing.                                                                *)

(* The bucket of the value at place i: the search from the home of the key *)
(* only compares places.                                                   *)
bucket_of(t, key, i) ==
    LET d == Min({x \in Distances(t) : Here(t, key, x).value_idx = i})
    IN  next(t, bucket_idx_from_hash(t, key), d)

(* The shift of do_erase: up to a bucket that is empty or at its home.     *)
shift_down(t, b) ==
    LET n == Min({d \in Distances(t) \ {0} :
                    at(t, next(t, b, d)).dist_and_fingerprint < 2 * DistInc})
        moved(d) == LET old == at(t, next(t, b, d + 1))
                    IN  Bucket(old.dist_and_fingerprint - DistInc, old.value_idx)
    IN  [t EXCEPT !.buckets =
            [i \in DOMAIN @ |->
                LET d == (i - 1 - b) % bucket_count(t)
                IN  IF d < n - 1 THEN moved(d) ELSE IF d = n - 1 THEN EmptyBucket ELSE @[i]]]

(* Mutant of do_erase: the bucket of the value that moves is not updated.  *)
do_erase_stale(t, b) ==
    LET i == at(t, b).value_idx
        back == size(t) - 1
        u == shift_down(t, b)
    IN  pop_back([u EXCEPT !.values[i + 1] = t.values[back + 1]])

(* do_erase: the last value takes the place of the one that goes.          *)
do_erase(t, b) ==
    LET i == at(t, b).value_idx
        back == size(t) - 1
        u == shift_down(t, b)
        moves_to == bucket_of(u, key_at(t, back), back)
    IN  IF i = back THEN pop_back(u)
        ELSE pop_back([u EXCEPT !.values[i + 1] = t.values[back + 1],
                                !.buckets[moves_to + 1].value_idx = i])

(* The place of a key for do_erase_key, which skips other keys that have   *)
(* the same fingerprint; -1 when the key is not there.                     *)
EraseAt(t, key) ==
    LET first == Min({x \in Distances(t) : Wanted(key, x) >= Stored(t, key, x)})
        d == Min({x \in first..(bucket_count(t) + 1) :
                    Wanted(key, x) # Stored(t, key, x) \/ SameKey(t, key, x)})
    IN  IF Wanted(key, d) = Stored(t, key, d)
        THEN next(t, bucket_idx_from_hash(t, key), d) ELSE -1

do_erase_key(t, key) ==
    IF t.values = << >> \/ EraseAt(t, key) = -1 THEN t ELSE do_erase(t, EraseAt(t, key))

(* erase(iterator) and extract(iterator).                                  *)
erase_it(t, i) == do_erase(t, bucket_of(t, key_at(t, i), i))

(* erase(first, last): from the left as long as values from the end fill   *)
(* the places, then from the right.                                        *)
erase_range(t, first, last) ==
    LET mid == first + Min({last - first, size(t) - last})
        nth(n) == IF first + n < mid THEN first + n ELSE last - 1 - (n - (mid - first))
        after[n \in 0..(last - first)] ==
            IF n = 0 THEN t ELSE erase_it(after[n - 1], nth(n - 1))
    IN  after[last - first]

(* Mutant of erase_if: from front to back.                                 *)
erase_if_forward(t, gone) ==
    LET turn(u, i) == IF i < size(u) /\ key_at(u, i) \in gone THEN erase_it(u, i) ELSE u
        after[n \in 0..size(t)] == IF n = 0 THEN t ELSE turn(after[n - 1], n - 1)
    IN  after[size(t)]

(* std::erase_if, back to front; pred holds of the keys in gone.           *)
erase_if(t, gone) ==
    LET turn(u, i) == IF key_at(u, i) \in gone THEN erase_it(u, i) ELSE u
        after[n \in 0..size(t)] == IF n = 0 THEN t ELSE turn(after[n - 1], size(t) - n)
    IN  after[size(t)]

clear(t) == clear_buckets([t EXCEPT !.values = << >>])

-----------------------------------------------------------------------------
(* Whole tables.                                                           *)
NewTable ==
    [values |-> << >>, buckets |-> << >>, max_bucket_capacity |-> 0,
     max_load_factor |-> DefaultLoad, shifts |-> initial_shifts]

rehash(t, count) ==
    LET shifts == calc_shifts_for_size(Max({count, size(t)}), t.max_load_factor)
    IN  IF shifts # t.shifts THEN Reindexed(t, shifts) ELSE {Ends(t)}

reserve(t, capa) ==
    LET shifts == calc_shifts_for_size(Max({capa, size(t)}), t.max_load_factor)
    IN  {Throws(t)} \cup
        IF bucket_count(t) = 0 \/ shifts < t.shifts THEN Reindexed(t, shifts) ELSE {Ends(t)}

(* table(bucket_count); the default table has bucket_count = 0.            *)
Constructed(count) ==
    IF count = 0 THEN {Ends(allocate_buckets_from_shift(NewTable)), Throws(NewTable)}
    ELSE reserve(NewTable, count)

(* The constructors that are given a range or a list.                      *)
Filled(count, entries) ==
    UNION {IF e.thrown THEN {e} ELSE insert_range(e.table, entries) : e \in Constructed(count)}

max_load_factor(t, load) ==
    [t EXCEPT !.max_load_factor = load,
              !.max_bucket_capacity =
                  IF bucket_count(t) # max_bucket_count THEN LoadOf(bucket_count(t), load) ELSE @]

(* copy_buckets: t has the values already, and no buckets.                 *)
copy_buckets(t, other) ==
    LET u == [t EXCEPT !.shifts = other.shifts]
    IN  IF t.values = << >> THEN {Ends(allocate_buckets_from_shift(t)), Throws(t)}
        ELSE {Ends([allocate_buckets_from_shift(u) EXCEPT !.buckets = other.buckets]), Throws(u)}

(* table(table const&): the values, and then the buckets, may find no      *)
(* memory.                                                                 *)
Copied(other) ==
    {Throws(NewTable)}
    \cup copy_buckets([NewTable EXCEPT !.values = other.values,
                                       !.max_load_factor = other.max_load_factor], other)

(* Mutant of copy_assign: the table's own values go before the other's are *)
(* there.                                                                  *)
copy_assign_early(t, other) ==
    LET bare == [deallocate_buckets(t) EXCEPT !.values = << >>]
    IN  {Throws(bare)}
        \cup copy_buckets([bare EXCEPT !.values = other.values, !.shifts = initial_shifts,
                                       !.max_load_factor = other.max_load_factor], other)

(* operator=(table const&) with another table: the buckets go first.  When *)
(* the values find no memory, the table's own stay; when the buckets do    *)
(* not, the other's are there: both without an index.                      *)
copy_assign(t, other) ==
    LET bare == deallocate_buckets(t)
    IN  {Throws(bare)}
        \cup copy_buckets([bare EXCEPT !.values = other.values, !.shifts = initial_shifts,
                                       !.max_load_factor = other.max_load_factor], other)

(* table(table&&), operator=(table&&) and swap: what arrives is what was   *)
(* there, and what is left behind is empty.  They are noexcept: without    *)
(* memory for the new index of what is left behind, the program ends.      *)
MovedFrom(other) ==
    allocate_buckets_from_shift(
        [other EXCEPT !.values = << >>, !.shifts = initial_shifts, !.max_load_factor = DefaultLoad])

(* One turn of the loop of replace.                                        *)
ReplaceStep(s) ==
    LET t == s.table
        p == Probe(t, key_at(t, s.next))
        back == t.values[size(t)]
    IN  IF p.found
        THEN [s EXCEPT !.table = pop_back([t EXCEPT !.values[s.next + 1] = back])]
        ELSE [table |-> place_and_shift_up(t, Bucket(p.daf, s.next), p.place), next |-> s.next + 1]

(* replace(container): its duplicates go.                                  *)
replace(t, container) ==
    LET shifts == calc_shifts_for_size(Len(container), t.max_load_factor)
        fresh == bucket_count(t) = 0 \/ shifts < t.shifts
        bare == deallocate_buckets([t EXCEPT !.shifts = shifts])
        ready == clear_buckets(IF fresh THEN allocate_buckets_from_shift(bare) ELSE t)
        turn[n \in 0..Len(container)] ==
            IF n = 0 THEN [table |-> [ready EXCEPT !.values = container], next |-> 0]
            ELSE ReplaceStep(turn[n - 1])
    IN  IF Len(container) > max_bucket_count THEN {Throws(t)}
        ELSE {Ends(turn[Len(container)].table)} \cup (IF fresh THEN {Throws(bare)} ELSE {})
=============================================================================
