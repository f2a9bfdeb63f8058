------------------------------- MODULE FlatMap -------------------------------
(***************************************************************************)
(* What a hash table promises, whatever its layout: a map from keys to     *)
(* values, and what the last call returned.                                *)
(***************************************************************************)
EXTENDS Functions, FiniteSets

CONSTANTS
    Keys,
    Values,
    Containers, \* the sets of entries the map is filled with at once
    Lists       \* the sets of entries inserted by one call

VARIABLES
    map,        \* a function from some of the keys to values
    ret         \* the last call's result

NoMap   == [k \in {} |-> k]
Nothing == [is |-> "nothing"]
Thrown  == [is |-> "exception"]
ThrownCleared == [is |-> "exception in an assignment"]
Missing == [is |-> "out_of_range"]
Entry(key, val, is_new) == [is |-> "entry", key |-> key, val |-> val, is_new |-> is_new]
Gone(m) == [is |-> "gone", entries |-> m]

Compared(m, equals) == [is |-> "compared", with |-> m, equal |-> equals]
Assigned(m, thrown) == [is |-> "copy assignment", from |-> m, thrown |-> thrown]

With(m, key, val) == [k \in DOMAIN m \cup {key} |-> IF k = key THEN val ELSE m[k]]

MapInit == map = NoMap /\ ret = Nothing

Insert(key, val) ==
    /\ map' = IF key \in DOMAIN map THEN map ELSE With(map, key, val)
    /\ ret' = Entry(key, map'[key], key \notin DOMAIN map)

InsertOrAssign(key, val) ==
    /\ map' = With(map, key, val)
    /\ ret' = Entry(key, val, key \notin DOMAIN map)

(* An entry is found or not, as it stays: a missing one throws, or not.    *)
Find(key) ==
    /\ ret' \in IF key \in DOMAIN map THEN {Entry(key, map[key], FALSE)} ELSE {Nothing, Missing}
    /\ UNCHANGED map

KeysOf(entries) == {e.key : e \in entries}

(* A value for each key, from the entries given.                           *)
MapsOf(entries) ==
    {m \in [KeysOf(entries) -> Values] :
        \A k \in DOMAIN m : [key |-> k, val |-> m[k]] \in entries}

(* Other maps: any that some calls make of this one, or of a list.         *)
Others ==
    {map, NoMap} \cup {With(map, k, v) : k \in DOMAIN map, v \in Values}
    \cup UNION {MapsOf(entries) : entries \in Lists}

Compare(other) == ret' = Compared(other, map = other) /\ UNCHANGED map

(* A copy assignment that throws leaves one of the two maps, whole.        *)
CopyAssign(other) ==
    \E thrown \in BOOLEAN :
        /\ map' = other \/ (thrown /\ map' = map)
        /\ ret' = Assigned(other, thrown)

(* m has what base has, and for each key it has besides one of the entries.*)
Extends(m, base, entries) ==
    /\ DOMAIN base \subseteq DOMAIN m
    /\ \A k \in DOMAIN m :
           IF k \in DOMAIN base THEN m[k] = base[k] ELSE [key |-> k, val |-> m[k]] \in entries

(* The entries whose keys are not there yet.                               *)
InsertAll(entries) ==
    /\ DOMAIN map' = DOMAIN map \cup KeysOf(entries)
    /\ Extends(map', map, entries)
    /\ ret' = Nothing

(* Everything is replaced: by nothing, or by entries, with one value for   *)
(* each key.                                                               *)
Become(entries) ==
    /\ DOMAIN map' = KeysOf(entries)
    /\ Extends(map', NoMap, entries)
    /\ ret' = Nothing

(* A call that throws has made none of its entries, or some; an assignment *)
(* has cleared the map first.                                              *)
Throw(entries) == Extends(map', map, entries) /\ ret' = Thrown
ThrowCleared(entries) == Extends(map', NoMap, entries) /\ ret' = ThrownCleared

Erase(keys) ==
    /\ map' = Restrict(map, DOMAIN map \ keys)
    /\ ret' = Gone(Restrict(map, keys))

(* Calls that change how the map is kept, and not what it holds.           *)
Rearrange == UNCHANGED map /\ ret' = Nothing

MapNext ==
    \/ \E key \in Keys : Find(key)
    \/ \E key \in Keys, val \in Values : Insert(key, val) \/ InsertOrAssign(key, val)
    \/ \E entries \in Lists : InsertAll(entries) \/ ThrowCleared(entries)
    \/ \E keys \in SUBSET DOMAIN map : Erase(keys)
    \/ \E entries \in Containers \cup Lists \cup {{}} : Become(entries)
    \/ \E entries \in {{}} \cup Lists \cup {{[key |-> k, val |-> v]} : k \in Keys, v \in Values} :
           Throw(entries)
    \/ Rearrange
    \/ \E other \in Others : Compare(other) \/ CopyAssign(other)

MapSpec == MapInit /\ [][MapNext]_<<map, ret>>
=============================================================================
