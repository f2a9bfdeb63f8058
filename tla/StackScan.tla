------------------------------ MODULE StackScan ------------------------------
(***************************************************************************)
(* How the objects under destruction are found when a block is freed.      *)
(*                                                                         *)
(* The plugin makes every destructor call save_state, which writes a block *)
(* of _mp_frame_information into the destructor's stack frame.  The hook   *)
(* walks the stack (mp_unwind) and searches each frame for such a block    *)
(* (mp_extract_events).  Nothing clears the stack: the frame of a call     *)
(* holds what earlier calls left there until it is written over.           *)
(*                                                                         *)
(* The stack of one thread, in words; addresses grow from the innermost    *)
(* frame outwards.  A word of a block is the number of the call of         *)
(* save_state that wrote it and its place in the block, 0 for the tag: the *)
(* checksum is good when the words at all places are of the same call.     *)
(***************************************************************************)
EXTENDS Integers, Sequences, Sorting, SequencesExt

CONSTANTS
    StackSize,      \* bound of the model: words of stack
    FrameSizes,     \* bound of the model: sizes of a frame, in words
    MaxCount,       \* bound of the model: calls of save_state
    InfoWords,      \* _mp_frame_information_elem_count: 5 in the code
    TypeDataAt,     \* the place of type_data in a block: 3 in the code
    SearchWords,    \* words searched from the start of a frame: 16
    MaxFrames,      \* BACKTRACE_BUFFER_SIZE: 1024
    MaxObjects,     \* OBJECT_BUFFER_SIZE: 1024
    TraceFrames,    \* size of the arrays of mp_unwind_show_trace: 1024
    SizeValues      \* the values of a size_t: 2^64

ASSUME StackScanAssumption ==
    /\ StackSize \in Nat \ {0}
    /\ FrameSizes \subseteq Nat \ {0}
    /\ InfoWords \in Nat \ {0}
    /\ SearchWords \in Nat
    /\ MaxFrames \in Nat \ {0}
    /\ MaxObjects \in Nat
    /\ TypeDataAt \in 1..(InfoWords - 1)
    /\ TraceFrames \in Nat
    /\ SizeValues \in Nat /\ MaxFrames < SizeValues

VARIABLES
    stack,          \* the word at each address
    frames,         \* the live frames, innermost first
    event_counter   \* _mp_event_counter

vars == <<stack, frames, event_counter>>

Plain == <<0, 0>>                   \* a word of no block
Word(id, k) == <<id, k>>
IsTag(w) == w # Plain /\ w[2] = 0
IsTypeData(w) == w # Plain /\ w[2] = TypeDataAt

NoInfo == [id |-> 0, offset |-> 0]

(* The caller of everything, and a function it called.                     *)
Init ==
    /\ stack = [a \in 0..(StackSize - 1) |-> Plain]
    /\ frames = << [sp |-> StackSize - 1, info |-> NoInfo],
                   [sp |-> StackSize, info |-> NoInfo] >>
    /\ event_counter = 0

-----------------------------------------------------------------------------
sp == frames[1].sp

Overwrite(words) == [a \in DOMAIN stack |-> IF a \in words THEN Plain ELSE stack[a]]

Push(n, info) == frames' = <<[sp |-> sp - n, info |-> info]>> \o frames

(* A function that is no instrumented destructor is called; the words it   *)
(* does not initialise keep what they held.                                *)
Call(n) ==
    /\ n =< sp
    /\ Push(n, NoInfo)
    /\ \E written \in SUBSET ((sp - n)..(sp - 1)) : stack' = Overwrite(written)
    /\ UNCHANGED event_counter

(* Mutant of save_state: the block is in a scope that ends before the body, *)
(* which may put other values there.                                       *)
save_state_scoped(n, offset) ==
    /\ n =< sp
    /\ event_counter < MaxCount
    /\ event_counter' = event_counter + 1
    /\ Push(n, [id |-> event_counter', offset |-> offset])
    /\ LET start == sp - n + offset
           block == start..(start + InfoWords - 1)
       IN  \E written \in SUBSET ((sp - n)..(sp - 1)) :
               stack' = [a \in DOMAIN stack |->
                   IF a \in block \ written THEN Word(event_counter', a - start)
                                            ELSE Overwrite(written)[a]]

(* A destructor is called: save_state(this, alloca(40), type_data) comes   *)
(* first, with the block anywhere in the frame.                            *)
save_state(n, offset) ==
    /\ n =< sp
    /\ event_counter < MaxCount
    /\ event_counter' = event_counter + 1
    /\ Push(n, [id |-> event_counter', offset |-> offset])
    /\ LET start == sp - n + offset
           block == start..(start + InfoWords - 1)
       IN  \E written \in SUBSET ((sp - n)..(sp - 1)) :
               stack' = [a \in DOMAIN stack |->
                   IF a \in block THEN Word(event_counter', a - start)
                                  ELSE Overwrite(written)[a]]

(* A function returns.  What it left there stays below the stack, but for  *)
(* what a signal handler or a leaf's red zone may write over it.           *)
Return ==
    /\ Len(frames) > 2
    /\ frames' = Tail(frames)
    /\ \E written \in SUBSET (sp..(frames[2].sp - 1)) : stack' = Overwrite(written)
    /\ UNCHANGED event_counter

-----------------------------------------------------------------------------
Least(m, n) == IF m =< n THEN m ELSE n

(* mp_unwind stops without counting the outermost frame.                   *)
mp_unwind == Least(Len(frames) - 1, MaxFrames)

(* check_frame: the checksum over the words at p.                          *)
check_frame(p) == \A k \in 0..(InfoWords - 1) : stack[p + k] = Word(stack[p][1], k)

(* Mutants of SearchSize: the search goes on to the end of the frame, or   *)
(* misses the last place where a block fits.                               *)
SearchToEnd(i) == Least(frames[i + 1].sp - frames[i].sp, SearchWords)
SearchShort(i) == Least(frames[i + 1].sp - frames[i].sp - InfoWords, SearchWords)

SearchSize(i) == Least(frames[i + 1].sp - frames[i].sp - InfoWords + 1, SearchWords)

(* The places in frame i that hold a tag and are searched.                 *)
Tags(i) ==
    {k \in 0..(SearchSize(i) - 1) : IsTag(stack[frames[i].sp + k])}

(* Mutant of FrameInfo: no break, every block of the frame is taken.       *)
FrameInfoAll(i) ==
    LET found == Ascending({k \in Tags(i) : check_frame(frames[i].sp + k)})
    IN  [j \in DOMAIN found |->
            [trace_index |-> i - 1, id |-> stack[frames[i].sp + found[j]][1],
             at |-> frames[i].sp + found[j]]]

(* The first of them ends the search of the frame, good or bad.            *)
FrameInfo(i) ==
    IF Tags(i) = {} THEN << >>
    ELSE LET k == CHOOSE k \in Tags(i) : \A j \in Tags(i) : k =< j
             p == frames[i].sp + k
         IN  IF check_frame(p)
             THEN <<[trace_index |-> i - 1, id |-> stack[p][1], at |-> p]>>
             ELSE << >>

(* The difference of two size_t, and so what spp_count - 1 is.              *)
SizeT(n) == n % SizeValues

mp_extract_events(spp_count) ==
    LET all == FlattenSeq([i \in 1..SizeT(spp_count - 1) |-> FrameInfo(i)])
    IN  SubSeq(all, 1, Least(Len(all), MaxObjects))

(* What record_alloc_with_events records of a block freed in this state.   *)
object_trace == mp_extract_events(mp_unwind)

(* mp_unwind_show_trace has a copy of the walk and of the search, with none *)
(* of their limits: it walks out to the last frame.                        *)
ShowSize(i) == Least(frames[i + 1].sp - frames[i].sp - InfoWords + 1, SearchWords)

ShowTags(i) == {p \in frames[i].sp..(frames[i].sp + ShowSize(i) - 1) : IsTag(stack[p])}

(* Mutant of ShowFrame: a block that is not good does not end the search.  *)
ShowFrameGood(i) ==
    LET good == {p \in ShowTags(i) : check_frame(p)}
    IN  IF good = {} THEN [print |-> "none"]
        ELSE LET p == CHOOSE p \in good : \A q \in good : p =< q
             IN  [print |-> "info", id |-> stack[p][1], at |-> p]

FirstShown(i) == CHOOSE p \in ShowTags(i) : \A q \in ShowTags(i) : p =< q

(* What is printed of frame i.                                             *)
ShowFrame(i) ==
    IF ShowTags(i) = {} THEN [print |-> "none"]
    ELSE LET p == FirstShown(i)
         IN  IF check_frame(p) THEN [print |-> "info", id |-> stack[p][1], at |-> p]
             ELSE [print |-> "bad_checksum"]

(* *info.type_data is read before check_good is: where the word is no      *)
(* type_data of a block, the read may fault, or go well and be forgotten.  *)
MayFault(i) ==
    ShowTags(i) # {} /\ ~IsTypeData(stack[FirstShown(i) + TypeDataAt])

Printed(n) == [i \in 1..n |-> ShowFrame(i)]

(* The traces a call may leave behind: whole, cut off before a frame that  *)
(* faults or, with more frames than its arrays hold, anything at all.      *)
mp_unwind_show_trace ==
    IF Len(frames) > TraceFrames THEN {[end |-> "overrun", printed |-> << >>]}
    ELSE {[end |-> "complete", printed |-> Printed(Len(frames) - 1)]}
         \cup {[end |-> "fault", printed |-> Printed(i - 1)] :
                  i \in {i \in 1..(Len(frames) - 1) : MayFault(i)}}

-----------------------------------------------------------------------------
Next ==
    \/ \E n \in FrameSizes : Call(n)
    \/ \E n \in FrameSizes, o \in 0..StackSize : o + InfoWords =< n /\ save_state(n, o)
    \/ Return

Spec == Init /\ [][Next]_vars

-----------------------------------------------------------------------------
Reported == {object_trace[i] : i \in DOMAIN object_trace}

(* A recorded object is what one call of save_state wrote, all of it in    *)
(* the frame it is said to be in: the search neither leaves the frame nor  *)
(* takes a block that is partly written over.                              *)
WholeBlocks ==
    \A o \in Reported :
        LET i == o.trace_index + 1
        IN  /\ i < Len(frames)
            /\ frames[i].sp =< o.at /\ o.at + InfoWords =< frames[i + 1].sp
            /\ \A k \in 0..(InfoWords - 1) : stack[o.at + k] = Word(o.id, k)

(* No destructor call is recorded twice, and the objects of an event are   *)
(* listed from the innermost frame outwards.                               *)
Distinct ==
    \A i, j \in DOMAIN object_trace :
        i < j => /\ object_trace[i].id # object_trace[j].id
                 /\ object_trace[i].trace_index < object_trace[j].trace_index

(* The destructors running in the frames that are searched, with a block   *)
(* near enough to the start of the frame to be found.                      *)
Running(i) == frames[i].info.id # 0 /\ frames[i].info.offset < SearchWords

Dead(i, k) == IsTag(stack[frames[i].sp + k])
                  /\ ~(frames[i].info.id # 0 /\ frames[i].info.offset = k)

(* Where frames hold no remains of earlier calls, exactly the objects being*)
(* destroyed are recorded, the innermost ones if there are too many.       *)
LiveExactly ==
    (\A i \in 1..(mp_unwind - 1) :
        \A k \in 0..(frames[i + 1].sp - frames[i].sp - 1) : ~Dead(i, k))
    => LET live == Ascending({i \in 1..(mp_unwind - 1) : Running(i)})
       IN  [j \in DOMAIN object_trace |-> object_trace[j].id] =
               [j \in 1..Least(Len(live), MaxObjects) |-> frames[live[j]].info.id]

(* What is recorded of a block is what the trace shows of the same stack,  *)
(* up to the limits of the record and as far as the trace gets: the two    *)
(* searches agree on every frame that is printed.                          *)
TraceAgrees ==
    \A trace \in mp_unwind_show_trace : trace.end # "overrun" =>
        LET n == Least(Len(trace.printed), mp_unwind - 1)
            shown == Ascending({i \in 1..n : trace.printed[i].print = "info"})
            m == Least(Len(shown), MaxObjects)
        IN  /\ m =< Len(object_trace)
            /\ \A j \in 1..m :
                   object_trace[j] = [trace_index |-> shown[j] - 1,
                                      id |-> trace.printed[shown[j]].id,
                                      at |-> trace.printed[shown[j]].at]
            /\ \A j \in (m + 1)..Len(object_trace) : object_trace[j].trace_index >= n

(* Where frames hold no remains of earlier calls, the trace of a stack that *)
(* its arrays hold is printed to the end.                                  *)
TraceCompletes ==
    /\ Len(frames) =< TraceFrames
    /\ \A i \in 1..(Len(frames) - 1) :
           \A k \in 0..(frames[i + 1].sp - frames[i].sp - 1) : ~Dead(i, k)
    => \A trace \in mp_unwind_show_trace :
           trace.end = "complete" /\ Len(trace.printed) = Len(frames) - 1

(* Every object recorded is one whose destructor is running: "size of      *)
(* object being destroyed", says output_record.h.                          *)
OnlyLive ==
    \A o \in Reported : frames[o.trace_index + 1].info.id = o.id
=============================================================================
