---------------------------- MODULE MCAllocators ----------------------------
(* A process where dlsym finds every function, and one without memalign,   *)
(* as on macOS; elements of an odd size, and of an alignment that is more  *)
(* than the default.                                                       *)
EXTENDS Allocators

MCLibraries == {CFunctions, CFunctions \ {"memalign"}}

MCElemTypes == {[size |-> 3, align |-> 1], [size |-> 4, align |-> 1],
                [size |-> 5, align |-> 1], [size |-> 2, align |-> 2]}
=============================================================================
