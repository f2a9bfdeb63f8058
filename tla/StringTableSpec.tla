--------------------------- MODULE StringTableSpec ---------------------------
(***************************************************************************)
(* What a string_table promises: calls of insert and insert_cstr, each of  *)
(* which returns the index of its string, the same one every time.         *)
(***************************************************************************)
EXTENDS StringTable

CONSTANT Strings    \* the strings given to insert

VARIABLES st, ret

StInit == st = EmptyTable /\ ret = 0

InsertString(key) ==
    /\ st' = Insert(st, key)
    /\ ret' = Index(st', key)

InsertAddress(p) ==
    /\ st' = InsertCstr(st, p)
    /\ ret' = IndexCstr(st', p)

StNext ==
    \/ \E key \in Strings : InsertString(key)
    \/ \E p \in DOMAIN Text \cup {NullStr} : InsertAddress(p)

StSpec == StInit /\ [][StNext]_<<st, ret>>
=============================================================================
