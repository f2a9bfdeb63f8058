------------------------------ MODULE EventLog ------------------------------
(***************************************************************************)
(* What the runtime promises to whoever reads its report: one chronological*)
(* log of allocation and free events from which the size of every freed    *)
(* block can be recovered.                                                 *)
(*                                                                         *)
(* Position i of the log is the event whose id is i - 1 (EVENT_COUNTER     *)
(* starts at 0).  The log is all the events of the program, whichever      *)
(* thread's local_context they are stored in.  live[a] is the position of  *)
(* the ALLOC event of the block now at address a, or NoStamp when there is *)
(* no block there or its allocation was not recorded.                      *)
(***************************************************************************)
EXTENDS Events

VARIABLES log, live

-----------------------------------------------------------------------------
LogInit ==
    /\ log = << >>
    /\ live = [a \in Addr |-> NoStamp]

(* An allocation that failed (p = Null) is logged too.                     *)
LogAlloc(t, n, p, h) ==
    /\ p # Null => live[p] = NoStamp
    /\ log' = Append(log, AllocEvent(t, n, p, h))
    /\ live' = [a \in Addr |-> IF a = p THEN Len(log) + 1 ELSE live[a]]

LogFree(t, p, n) ==
    /\ live[p] # NoStamp => n = log[live[p]].size
    /\ log' = Append(log, FreeEvent(t, p, live[p], n))
    /\ live' = [live EXCEPT ![p] = NoStamp]

(* Blocks released with no FREE event: realloc's argument, and frees made  *)
(* while nothing is recorded.                                              *)
Released(A) == live' = [a \in Addr |-> IF a \in A THEN NoStamp ELSE live[a]]

Forget(A) == Released(A) /\ UNCHANGED log

LogNext ==
    \/ \E t \in Threads, n \in Sizes \cup {0}, p \in Ptr, h \in Ptr :
           LogAlloc(t, n, p, h)
    \/ \E t \in Threads, p \in Addr, n \in Sizes : LogFree(t, p, n)
    \/ \E A \in SUBSET Addr : Forget(A)

logVars == <<log, live>>

LogSpec == LogInit /\ [][LogNext]_logVars

-----------------------------------------------------------------------------
LogTypeOK ==
    /\ log \in Seq(Event)
    /\ live \in [Addr -> Nat]

(* The log alone gives every freed block its real size, provided that its  *)
(* allocation was recorded: address reuse never makes a FREE take the size *)
(* of another block.  compute_free_sizes relies on it.                     *)
FreeSizes == SizesRecoverable(log)

(* The strengthening: a live block's ALLOC is the last allocation logged   *)
(* at its address, and it still is for the ALLOC of every logged FREE.     *)
LiveIsLast ==
    \A a \in Addr : live[a] # NoStamp =>
        /\ live[a] \in 1..Len(log)
        /\ log[live[a]].type = "ALLOC"
        /\ log[live[a]].ptr = a
        /\ \A i \in (live[a] + 1)..Len(log) : log[i].ptr # a

FreesMatch ==
    \A j \in 1..Len(log) :
        (log[j].type = "FREE" /\ log[j].born # NoStamp) =>
            LET b == log[j].born
            IN  /\ b \in 1..(j - 1)
                /\ log[b].type = "ALLOC"
                /\ log[b].ptr = log[j].ptr
                /\ log[b].size = log[j].held
                /\ \A i \in (b + 1)..(j - 1) : log[i].ptr # log[j].ptr
=============================================================================
