----------------------------- MODULE MCContainers -----------------------------
(* The containers of the report builder on small instances. They keep their *)
(* state apart, so a behaviour is one container's life: which one is chosen *)
(* in the initial state, and the variables of the others stay as they were. *)
EXTENDS IdStores, HashTable, StringTableImpl, TLC

CONSTANTS key_a, key_b, key_c, key_d, key_e, p1, p2, p3     \* keys of the table, and addresses

ContainersInit ==
    /\ kind \in {"ord", "unique", "table", "string_table"}
    /\ Fresh /\ TabInit /\ StrInit
    /\ kind = "table" \/ bucket_count(table) = 2

ContainersNext ==
    \/ kind \in {"ord", "unique"} /\ Next /\ UNCHANGED <<tabvars, strvars>>
    \/ kind = "table" /\ TabNext /\ UNCHANGED <<vars, strvars>>
    \/ /\ kind = "string_table" /\ StrNext
       /\ UNCHANGED <<kind, keys, prev, prev_id, ids, results, tabvars>>

ContainersSpec == ContainersInit /\ [][ContainersNext]_<<vars, tabvars, strvars>>

(* What the last call returned decides nothing that follows.               *)
ContainersView == <<vars, table, indexed, strtab, lookup, cstr_lookup>>

(* The empty string, strings that fill a block of three characters in      *)
(* different ways, and one that is longer than a block.                    *)
MCStrings == {<< >>, <<1>>, <<1, 2>>, <<2, 1, 1>>, <<1, 1, 2, 2>>}
MCInserted == {NullSv, <<1>>, <<2, 1, 1>>}
MCText == (p1 :> <<1>>) @@ (p2 :> <<1>>) @@ (p3 :> <<1, 2>>)

(* Three keys whose home is the last bucket, two of them with the same      *)
(* fingerprint, and two keys whose homes those three run into.             *)
MCHash ==
    (key_a :> 6) @@ (key_b :> 6) @@ (key_c :> 7) @@ (key_d :> 1) @@ (key_e :> 5)
    @@ (<< >> :> 7) @@ (<<1>> :> 6) @@ (<<2, 1, 1>> :> 6) @@ (<<1, 2>> :> 0)
    @@ (p1 :> 4) @@ (p2 :> 4) @@ (p3 :> 7) @@ (NullStr :> 0)

KeyVal(k, v) == [key |-> k, val |-> v]
MCEntries == {KeyVal(k, 1) : k \in {key_a, key_b, key_c, key_d, key_e}} \cup {KeyVal(key_b, 2)}

(* Duplicates that the last value replaces, and more than fits.            *)
MCContainersGiven == {
    <<KeyVal(key_b, 1), KeyVal(key_b, 2), KeyVal(key_c, 1)>>,
    <<KeyVal(key_e, 1), KeyVal(key_d, 1), KeyVal(key_c, 1), KeyVal(key_b, 1), KeyVal(key_a, 1)>>}

MCLists == {<<KeyVal(key_b, 2), KeyVal(key_b, 1), KeyVal(key_d, 1)>>}

MCLoads  == {<<1, 2>>, <<4, 5>>}
MCLoad   == <<4, 5>>
MCCounts == {0, 3}
MCPreds  == {{key_a, key_c}, {key_b, key_d}, {key_c, key_d, key_e}}
=============================================================================
