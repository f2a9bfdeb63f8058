------------------------------- MODULE IdStores -------------------------------
(***************************************************************************)
(* ord_id_store and unique_id_store of containers.h: ids for strings, in   *)
(* the order in which they were first saved, over an sv_store.             *)
(***************************************************************************)
EXTENDS SvStore

CONSTANTS
    Strings,    \* the strings saved: sequences of characters
    MaxSaves    \* bound of the model: calls of save

ASSUME IdStoresAssumption == Strings \subseteq Seq(Nat)

VARIABLES
    kind,       \* which of the two stores this is
    keys,       \* the base vector: views by id, counted from 0
    prev,       \* the view saved last
    prev_id,    \* its id (unique_id_store)
    ids,        \* the map from stored strings to ids (unique_id_store)
    results     \* history: what each call of save was given and returned

vars == <<blocks, kind, keys, prev, prev_id, ids, results>>

Fresh ==
    /\ blocks = << >>
    /\ keys = <<NullView>>
    /\ prev = NullView
    /\ prev_id = 0
    /\ ids = [s \in {} |-> 0]
    /\ results = << >>

Init == kind \in {"ord", "unique"} /\ Fresh

Returns(key, v, id) ==
    /\ Len(results) < MaxSaves
    /\ results' = Append(results, [key |-> key, view |-> v, id |-> id])

(* save of a null view, in both stores.                                    *)
SaveNull ==
    /\ Returns(NullSv, NullView, 0)
    /\ UNCHANGED <<blocks, kind, keys, prev, prev_id, ids>>

(* key = store.add(key), and the key gets the next id.                     *)
Store(key, r) ==
    /\ blocks' = r.blocks
    /\ keys' = Append(keys, r.view)
    /\ prev' = r.view
    /\ Returns(key, r.view, Len(keys))

(* ord_id_store::save.                                                     *)
OrdSaveAgain(key) ==
    /\ kind = "ord"
    /\ Read(prev) = key
    /\ Returns(key, prev, Len(keys) - 1)
    /\ UNCHANGED <<blocks, kind, keys, prev, prev_id, ids>>

OrdSave(key) ==
    /\ kind = "ord"
    /\ Read(prev) # key
    /\ \E r \in Added(key) : Store(key, r)
    /\ UNCHANGED <<kind, prev_id, ids>>

(* unique_id_store::save: the same as before, a new key or a known one.    *)
UniqueSaveAgain(key) ==
    /\ kind = "unique"
    /\ Read(prev) = key
    /\ Returns(key, prev, prev_id)
    /\ UNCHANGED <<blocks, kind, keys, prev, prev_id, ids>>

(* Mutant of UniqueSaveNew: the id is not entered in the map.              *)
UniqueSaveForgets(key) ==
    /\ kind = "unique"
    /\ Read(prev) # key
    /\ key \notin DOMAIN ids
    /\ \E r \in Added(key) : Store(key, r)
    /\ prev_id' = Len(keys)
    /\ UNCHANGED <<kind, ids>>

UniqueSaveNew(key) ==
    /\ kind = "unique"
    /\ Read(prev) # key
    /\ key \notin DOMAIN ids
    /\ \E r \in Added(key) : Store(key, r)
    /\ ids' = [s \in DOMAIN ids \cup {key} |-> IF s = key THEN Len(keys) ELSE ids[s]]
    /\ prev_id' = Len(keys)
    /\ UNCHANGED kind

(* Mutant of UniqueSaveKnown: prev_id is left as it was.                   *)
UniqueSaveKeepsPrevId(key) ==
    /\ kind = "unique"
    /\ Read(prev) # key
    /\ key \in DOMAIN ids
    /\ prev' = keys[ids[key] + 1]
    /\ Returns(key, prev', ids[key])
    /\ UNCHANGED <<blocks, kind, keys, prev_id, ids>>

UniqueSaveKnown(key) ==
    /\ kind = "unique"
    /\ Read(prev) # key
    /\ key \in DOMAIN ids
    /\ prev' = keys[ids[key] + 1]
    /\ prev_id' = ids[key]
    /\ Returns(key, prev', ids[key])
    /\ UNCHANGED <<blocks, kind, keys, ids>>

Next ==
    \/ SaveNull
    \/ \E key \in Strings :
           \/ OrdSaveAgain(key) \/ OrdSave(key)
           \/ UniqueSaveAgain(key) \/ UniqueSaveNew(key) \/ UniqueSaveKnown(key)

Spec == Init /\ [][Next]_vars

-----------------------------------------------------------------------------
(* The caller keeps the views and ids it was given.                        *)
Given == {results[i] : i \in DOMAIN results}

(* A view, once returned, reads the same string whatever is added later,   *)
(* and never beyond the memory of its block.                               *)
ViewsStable ==
    \A r \in Given : r.key # NullSv => Read(r.view) = r.key /\ InBounds(r.view)

(* Different entries never share characters.                               *)
ViewsDisjoint ==
    \A i, j \in DOMAIN keys :
        (i # j /\ keys[i].size > 0 /\ keys[j].size > 0) => Disjoint(keys[i], keys[j])

(* An id leads back to the string it was returned for.                     *)
IdsDecode ==
    \A r \in Given :
        r.id + 1 \in DOMAIN keys
            /\ (r.key # NullSv => Read(keys[r.id + 1]) = r.key)

(* unique_id_store gives every string but the empty one a single id,       *)
(* ord_id_store gives one id to a string saved several times in a row.     *)
OneIdPerString ==
    \A i, j \in DOMAIN results :
        (i < j /\ results[i].key = results[j].key /\ results[i].key # << >>
            /\ (kind = "unique" \/ \A k \in i..j : results[k].key = results[i].key))
        => results[i].id = results[j].id
=============================================================================
