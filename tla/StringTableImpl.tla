--------------------------- MODULE StringTableImpl ---------------------------
(***************************************************************************)
(* string_table of output_record.h in detail: its two hash tables, the     *)
(* store that owns the characters, and views instead of strings.           *)
(***************************************************************************)
EXTENDS SvStore, DenseTable

CONSTANTS
    Inserted,   \* what insert is given: characters, or NullSv
    Text,       \* the characters at each C string's address
    NullStr     \* the null pointer

VARIABLES
    strtab,         \* views of the store, and of C strings, by index
    lookup,         \* hash table from characters to an index
    cstr_lookup,    \* hash table from the address of a C string to an index
    index           \* history: what the last call returned

strvars == <<strtab, lookup, cstr_lookup, index>>

Owned(view)   == [owned |-> TRUE, view |-> view]
Static(chars) == [owned |-> FALSE, chars |-> chars]
Chars(e) == IF e.owned THEN Read(e.view) ELSE e.chars

npos == -1

(* Views are compared by their characters: a null one equals an empty one. *)
Content(sv) == IF sv = NullSv THEN << >> ELSE sv

SafeSv(p) == IF p = NullStr THEN << >> ELSE Text[p]

Addresses == DOMAIN Text \cup {NullStr}

ASSUME StringTableImplAssumption ==
    /\ Inserted \subseteq Seq(Nat) \cup {NullSv}
    /\ NullStr \notin DOMAIN Text /\ \A p \in DOMAIN Text : Text[p] \in Seq(Nat)
    /\ Addresses \cup {Content(sv) : sv \in Inserted} \cup {SafeSv(p) : p \in Addresses}
           \subseteq DOMAIN Hash

NewTables == Made(Constructed(0))

StrInit ==
    /\ blocks = << >> /\ strtab = << >>
    /\ lookup \in NewTables
    /\ cstr_lookup \in NewTables
    /\ index = 0

IndexAt(t, i) == t.values[i + 1].val

(* A call that has no memory throws, and ends the report: not modelled.    *)
Returned(rs) == {r \in rs : ~r.end.thrown}

(* Mutant of insert_static: an index is taken before it is known to be new. *)
insert_static_always(key, e) ==
    \E r \in Returned(do_try_emplace(lookup, [key |-> key, val |-> Len(strtab)])) :
        /\ lookup' = r.end.table
        /\ strtab' = Append(strtab, e)
        /\ index' = IndexAt(lookup', r.idx)

insert_static(key, e) ==
    \E r \in Returned(do_try_emplace(lookup, [key |-> key, val |-> Len(strtab)])) :
        /\ lookup' = r.end.table
        /\ strtab' = IF r.is_new THEN Append(strtab, e) ELSE strtab
        /\ index' = IndexAt(lookup', r.idx)

(* insert of a string that is found, and of one that is copied first.      *)
InsertKnown(sv) ==
    LET i == do_find(lookup, Content(sv))
    IN  /\ i # end(lookup)
        /\ index' = IndexAt(lookup, i)
        /\ UNCHANGED <<blocks, strtab, lookup, cstr_lookup>>

InsertCopy(sv) ==
    /\ do_find(lookup, Content(sv)) = end(lookup)
    /\ \E a \in Added(sv) :
           /\ blocks' = a.blocks
           /\ insert_static(Content(sv), Owned(a.view))
    /\ UNCHANGED cstr_lookup

(* insert_cstr: by address, and with npos until the string has its index.  *)
InsertCached(p) ==
    \E r \in do_try_emplace(cstr_lookup, [key |-> p, val |-> npos]) :
        /\ ~r.is_new
        /\ index' = IndexAt(cstr_lookup, r.idx)
        /\ UNCHANGED <<blocks, strtab, lookup, cstr_lookup>>

InsertAddress(p) ==
    \E r \in Returned(do_try_emplace(cstr_lookup, [key |-> p, val |-> npos])) :
        /\ r.is_new
        /\ insert_static(SafeSv(p), Static(SafeSv(p)))
        /\ cstr_lookup' = assign(r.end.table, r.idx, index')
        /\ UNCHANGED blocks

StrNext ==
    \/ \E sv \in Inserted : InsertKnown(sv) \/ InsertCopy(sv)
    \/ \E p \in Addresses : InsertCached(p) \/ InsertAddress(p)

StrSpec == StrInit /\ [][StrNext]_<<blocks, strvars>>

-----------------------------------------------------------------------------
(* The tables, the store and the views together do what string_table       *)
(* promises: one index for each string, for good, by either way in.        *)
Abstract ==
    INSTANCE StringTableSpec WITH
        Strings <- {Content(sv) : sv \in Inserted},
        Empty   <- << >>,
        st      <- [strtab      |-> [i \in DOMAIN strtab |-> Chars(strtab[i])],
                    lookup      |-> AsMap(lookup),
                    cstr_lookup |-> AsMap(cstr_lookup)],
        ret     <- index

StringTableSpec == Abstract!StSpec
=============================================================================
