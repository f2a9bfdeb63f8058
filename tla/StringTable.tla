----------------------------- MODULE StringTable -----------------------------
(***************************************************************************)
(* string_table of output_record.h: strings that are written to the report *)
(* once and referred to by their index, counted from 0.                    *)
(*                                                                         *)
(* The store that keeps a copy of the characters is in SvStore.            *)
(***************************************************************************)
EXTENDS Integers, Sequences

CONSTANTS
    Text,       \* the characters at each C string's address: [addresses -> strings]
    NullStr,    \* the null pointer
    Empty       \* the empty string

ASSUME StringTableAssumption == NullStr \notin DOMAIN Text

EmptyTable == [strtab |-> << >>, lookup |-> << >>, cstr_lookup |-> << >>]

(* _safe_sv: a null pointer is the empty string.                           *)
SafeSv(p) == IF p = NullStr THEN Empty ELSE Text[p]

(* The map f with key at val.                                              *)
Put(f, key, val) == [k \in {key} \cup DOMAIN f |-> IF k = key THEN val ELSE f[k]]

(* insert_static(key), and insert(key), which copies key to the store      *)
(* before it does the same.                                                *)
Insert(st, key) ==
    IF key \in DOMAIN st.lookup
    THEN st
    ELSE [st EXCEPT !.strtab = Append(@, key),
                    !.lookup = Put(@, key, Len(st.strtab))]

InsertAll(st, keys) ==
    LET f[k \in 0..Len(keys)] == IF k = 0 THEN st ELSE Insert(f[k - 1], keys[k])
    IN  f[Len(keys)]

(* Mutant of InsertCstr: a string that is not in the cache is taken for a  *)
(* new one.                                                                *)
InsertCstrAsNew(st, p) ==
    IF p \in DOMAIN st.cstr_lookup
    THEN st
    ELSE LET i == Len(st.strtab)
         IN  [strtab      |-> Append(st.strtab, SafeSv(p)),
              lookup      |-> Put(st.lookup, SafeSv(p), i),
              cstr_lookup |-> Put(st.cstr_lookup, p, i)]

(* insert_cstr(p): p itself is the key of a cache.                         *)
InsertCstr(st, p) ==
    IF p \in DOMAIN st.cstr_lookup
    THEN st
    ELSE LET s == Insert(st, SafeSv(p))
         IN  [s EXCEPT !.cstr_lookup = Put(@, p, s.lookup[SafeSv(p)])]

InsertAllCstr(st, ps) ==
    LET f[k \in 0..Len(ps)] == IF k = 0 THEN st ELSE InsertCstr(f[k - 1], ps[k])
    IN  f[Len(ps)]

(* What the two calls return.                                              *)
Index(st, key) == st.lookup[key]
IndexCstr(st, p) == st.cstr_lookup[p]

(* How a reader of the report decodes an index.                            *)
StringAt(st, i) == st.strtab[i + 1]

(* No string is in the table twice, and both caches agree with it.         *)
TableConsistent(st) ==
    /\ DOMAIN st.lookup = {st.strtab[k] : k \in 1..Len(st.strtab)}
    /\ \A key \in DOMAIN st.lookup : StringAt(st, st.lookup[key]) = key
    /\ \A j, k \in 1..Len(st.strtab) : st.strtab[j] = st.strtab[k] => j = k
    /\ \A p \in DOMAIN st.cstr_lookup : StringAt(st, st.cstr_lookup[p]) = SafeSv(p)
=============================================================================
