------------------------------- MODULE Events -------------------------------
(***************************************************************************)
(* event_record as the hooks store it and output_event as the report gives *)
(* it, without their traces, and the size a reader of a log can recover    *)
(* for a freed block.                                                      *)
(***************************************************************************)
EXTENDS Integers, Sequences

CONSTANTS
    Threads,    \* threads of the traced program
    Addr,       \* addresses the underlying allocator hands out
    Null,       \* the null pointer
    Sizes       \* sizes the program asks for

ASSUME EventsAssumption ==
    /\ Null \notin Addr
    /\ Sizes \subseteq Nat

NoStamp == 0

Ptr == Addr \cup {Null}

Event ==
    [type : {"ALLOC", "FREE"},
     size : Nat,                \* alloc_size: 0 for a FREE until the report
     ptr  : Ptr,                \* alloc_ptr
     hint : Ptr,                \* alloc_hint: realloc's argument
     by   : Threads,            \* whose local_context stores the event
     born : Nat,                \* history: position of the freed block's ALLOC
     held : Nat]                \* history: real size of the freed block

AllocEvent(t, n, p, h) ==
    [type |-> "ALLOC", size |-> n, ptr |-> p, hint |-> h, by |-> t,
     born |-> NoStamp, held |-> 0]

FreeEvent(t, p, b, n) ==
    [type |-> "FREE", size |-> 0, ptr |-> p, hint |-> Null, by |-> t,
     born |-> b, held |-> n]

(* The events before position j that set the size compute_free_sizes holds *)
(* for address a.                                                          *)
SizeSetters(l, j, a) == {i \in 1..(j - 1) : l[i].ptr = a /\ l[i].type # "FREE"}

(* j is the last of the positions in S.                                    *)
IsLast(j, S) == j \in S /\ \A k \in S : k =< j

(* The size of the last of them, 0 if there is none.                       *)
SavedAt(l, j, a) ==
    LET S == SizeSetters(l, j, a)
    IN  IF \E i \in S : IsLast(i, S)
        THEN l[CHOOSE i \in S : IsLast(i, S)].size
        ELSE 0

(* The size due to the FREE event at position j: that of the last          *)
(* allocation logged before it at its address.                             *)
SavedSize(l, j) == SavedAt(l, j, l[j].ptr)

(* It is the size of the block that the FREE event released, for every     *)
(* block whose allocation is logged.                                       *)
SizesRecoverable(l) ==
    \A j \in 1..Len(l) :
        (l[j].type = "FREE" /\ l[j].born # NoStamp)
            => SavedSize(l, j) = l[j].held
=============================================================================
