-------------------------- MODULE ComputeFreeSizes --------------------------
(***************************************************************************)
(* compute_free_sizes of output_record.cpp: one pass over the events of a  *)
(* report, which fills in the size of every FREE.                          *)
(***************************************************************************)
EXTENDS Events

VARIABLES
    out,            \* output_events
    at,             \* position in out of the next event to visit
    alloc_sizes     \* the map from addresses to sizes: 0 where there is none

sizeVars == <<out, at, alloc_sizes>>

NoSizes == [a \in Ptr |-> 0]

SizesInit ==
    /\ out \in Seq(Event)
    /\ at = 1
    /\ alloc_sizes = NoSizes

(* Mutant of SizeRow: try_emplace, which keeps the first size.             *)
SizeRowKeepsFirst ==
    /\ at =< Len(out)
    /\ LET e == out[at]
       IN  IF e.type # "FREE"
           THEN /\ alloc_sizes' = IF alloc_sizes[e.ptr] # 0 THEN alloc_sizes
                                  ELSE [alloc_sizes EXCEPT ![e.ptr] = e.size]
                /\ UNCHANGED out
           ELSE /\ out' = [out EXCEPT ![at].size = alloc_sizes[e.ptr]]
                /\ UNCHANGED alloc_sizes
    /\ at' = at + 1

(* The body of the loop: an allocation, failed or not, saves its size, a   *)
(* free uses the saved one.                                                *)
SizeRow ==
    /\ at =< Len(out)
    /\ LET e == out[at]
       IN  IF e.type # "FREE"
           THEN /\ alloc_sizes' = [alloc_sizes EXCEPT ![e.ptr] = e.size]
                /\ UNCHANGED out
           ELSE /\ out' = [out EXCEPT ![at].size = alloc_sizes[e.ptr]]
                /\ UNCHANGED alloc_sizes
    /\ at' = at + 1

SizesSpec == SizesInit /\ [][SizeRow]_sizeVars

(* The loop invariant: every FREE visited has the size of the last         *)
(* allocation at its address, and the map holds those sizes.               *)
FreesSized ==
    /\ \A j \in 1..(at - 1) :
           out[j].type = "FREE" => out[j].size = SavedSize(out, j)
    /\ \A a \in Ptr : alloc_sizes[a] = SavedAt(out, at, a)
=============================================================================
