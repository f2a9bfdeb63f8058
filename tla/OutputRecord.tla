----------------------------- MODULE OutputRecord -----------------------------
(***************************************************************************)
(* make_output_record: how the events that generate_report collected become*)
(* the tables of the report.                                               *)
(*                                                                         *)
(* The program first logs events (EventLog); the drain then gives them one *)
(* context after another, and the report is built in one thread:           *)
(*   collect -> objects, frames (output_frame_table) -> types, members     *)
(*   (output_type_data) -> events -> sizes -> done                         *)
(* each a loop whose index is at.  Indices in the report count from 0.     *)
(*                                                                         *)
(* cpptrace and dladdr are external: what they answer for each program     *)
(* counter is chosen in Init.                                              *)
(***************************************************************************)
EXTENDS EventLog, ComputeFreeSizes, StringTable, Sorting, SequencesExt

CONSTANTS
    Traces,         \* call stacks of the program: sequences of program counters
    ObjectTraces,   \* objects under destruction: sequences of type_data addresses
    TypeData,       \* what is at each type_data address: name, fields, bases
    Resolutions,    \* what cpptrace and dladdr may know of each program counter
    EmptyLiteral,   \* the address of the literal "" in output_frame_table
    Demangled(_),   \* cpptrace::demangle
    MaxEvents       \* bound of the model: events in the log

ASSUME OutputRecordAssumption ==
    /\ \A tr \in Traces : tr \in Seq(Nat)
    /\ \A ot \in ObjectTraces : ot \in Seq(DOMAIN TypeData)
    /\ DOMAIN TypeData \subseteq Nat
    /\ \A td \in DOMAIN TypeData :
           /\ TypeData[td].field_names \in Seq(DOMAIN Text \cup {NullStr})
           /\ TypeData[td].base_types \in Seq(DOMAIN Text \cup {NullStr})
    /\ \A res \in Resolutions, tr \in Traces : \A pc \in Range(tr) :
           res[pc].frames \in Seq(Range(res[pc].frames))
    /\ EmptyLiteral \in DOMAIN Text /\ Text[EmptyLiteral] = Empty
    /\ IsFiniteSet(Threads)

VARIABLES
    info,       \* trace and object_trace of each logged event
    resolved,   \* what cpptrace and dladdr know, one of Resolutions
    phase,      \* the loop being run
    source,     \* the drained events: positions in log
    strs,       \* string_table
    frames,     \* output_frame_table
    types,      \* output_type_data
    pc_ids,     \* pc_id of each output event
    objects     \* object_info of each output event

recordVars == <<log, live, info>>
tables == <<strs, frames, types, pc_ids, objects>>
vars == <<recordVars, resolved, phase, source, tables, sizeVars>>

NoFrames == [pc |-> << >>, object_path |-> << >>, object_symbol |-> << >>,
             offsets |-> <<0>>, func |-> << >>, is_inline |-> << >>]
NoTypes == [type_data |-> << >>, type |-> << >>, field_off |-> <<0>>,
            base_off |-> <<0>>, field_names |-> << >>, base_types |-> << >>]

Init ==
    /\ LogInit
    /\ info = << >>
    /\ resolved \in Resolutions
    /\ phase = "run"
    /\ source = << >>
    /\ strs = EmptyTable
    /\ frames = NoFrames
    /\ types = NoTypes
    /\ pc_ids = << >>
    /\ objects = << >>
    /\ out = << >>
    /\ at = 1
    /\ alloc_sizes = NoSizes

-----------------------------------------------------------------------------
(* A hook records an event: RECORD_ALLOC without the objects on the stack, *)
(* the second for a block that realloc resizes in place; and               *)
(* RECORD_ALLOC_WITH_OBJECT_INFO with them.                                *)
Record ==
    /\ phase = "run"
    /\ Len(log) < MaxEvents
    /\ \E t \in Threads, tr \in Traces :
           \/ \E n \in Sizes, p \in Ptr :
                  LogAlloc(t, n, p, Null)
                    /\ info' = Append(info, [trace |-> tr, objects |-> << >>])
           \/ \E n \in Sizes, p \in {a \in Addr : live[a] # NoStamp} :
                  /\ log' = Append(log, AllocEvent(t, n, p, p))
                  /\ live' = [live EXCEPT ![p] = Len(log) + 1]
                  /\ info' = Append(info, [trace |-> tr, objects |-> << >>])
           \/ \E p \in {a \in Addr : live[a] # NoStamp}, ot \in ObjectTraces :
                  LogFree(t, p, log[live[p]].size)
                    /\ info' = Append(info, [trace |-> tr, objects |-> ot])
    /\ UNCHANGED <<resolved, phase, source, tables, sizeVars>>

Orders == {c \in [1..Cardinality(Threads) -> Threads] : IsInjective(c)}

(* What drain left in generate_report's counter: the events of one context *)
(* after those of another, in any order of the contexts.                   *)
Drained(c) ==
    FlattenSeq([i \in DOMAIN c |-> Ascending({k \in 1..Len(log) : log[k].by = c[i]})])

collect_pcs(evs) == Ascending(UNION {Range(info[k].trace) : k \in Range(evs)})

collect_type_data(evs) ==
    Ascending(UNION {Range(info[k].objects) : k \in Range(evs)})

(* compute_lookup: the index of each value.                                *)
Lookup(values) ==
    [v \in Range(values) |-> (CHOOSE k \in DOMAIN values : values[k] = v) - 1]

(* resolve(): for each pc its inline frames, innermost first, and last the *)
(* frame of the function they were inlined into.                           *)
StackFrames(pcs) == FlattenSeq([i \in DOMAIN pcs |-> resolved[pcs[i]].frames])

(* run_sanity_check_on_frames throws on a mismatch.                        *)
FramesMatch(pcs) ==
    LET all == StackFrames(pcs)
    IN  Cardinality({j \in DOMAIN all : ~all[j].is_inline}) = Len(pcs)

(* MP_ASSERT_EQ throws unless there is an object frame for each pc.        *)
ObjectFramesMatch(pcs) ==
    Cardinality({i \in DOMAIN pcs : resolved[pcs[i]].has_object}) = Len(pcs)

MakeOutputRecord ==
    /\ phase = "run"
    /\ \E c \in Orders : source' = Drained(c)
    /\ LET pcs == collect_pcs(source')
       IN  /\ frames' = [frames EXCEPT !.pc = pcs]
           /\ phase' = IF FramesMatch(pcs) /\ ObjectFramesMatch(pcs)
                        THEN "objects" ELSE "failed"
    /\ types' = [types EXCEPT !.type_data = collect_type_data(source')]
    /\ UNCHANGED <<recordVars, resolved, strs, pc_ids, objects, sizeVars>>

(* The end of one loop and the start of the next.                          *)
EndLoop(from, count, to) ==
    /\ phase = from
    /\ at > count
    /\ at' = 1
    /\ phase' = to
    /\ UNCHANGED <<recordVars, resolved, source, tables, out, alloc_sizes>>

InLoop(where, count) ==
    /\ phase = where
    /\ at =< count
    /\ at' = at + 1
    /\ UNCHANGED <<recordVars, resolved, phase, source, out, alloc_sizes>>

-----------------------------------------------------------------------------
(* dladdr on each pc: path and symbol, else cpptrace's path and no symbol. *)
ObjectRow ==
    /\ InLoop("objects", Len(frames.pc))
    /\ LET r == resolved[frames.pc[at]]
       IN  IF r.found
           THEN /\ strs' = InsertAllCstr(strs, <<r.dli_fname, r.dli_sname>>)
                /\ frames' = [frames EXCEPT
                       !.object_path = Append(@, IndexCstr(strs', r.dli_fname)),
                       !.object_symbol = Append(@, IndexCstr(strs', r.dli_sname))]
           ELSE /\ strs' = InsertCstr(Insert(strs, r.object_path), EmptyLiteral)
                /\ frames' = [frames EXCEPT
                       !.object_path = Append(@, Index(strs', r.object_path)),
                       !.object_symbol = Append(@, IndexCstr(strs', EmptyLiteral))]
    /\ UNCHANGED <<types, pc_ids, objects>>

(* The name of a frame, repaired with dladdr's if cpptrace has none or is  *)
(* wrong about the object.                                                 *)
FuncName(r, f) ==
    IF (r.no_address \/ f.symbol = Empty) /\ r.found /\ r.dli_sname # NullStr
    THEN Demangled(Text[r.dli_sname])
    ELSE f.symbol

(* Mutant of FrameRow: a function's slice ends before its own frame.       *)
FrameRowShort ==
    /\ InLoop("frames", Len(StackFrames(frames.pc)))
    /\ LET f    == StackFrames(frames.pc)[at]
           pc_i == Len(frames.offsets)
           name == FuncName(resolved[frames.pc[pc_i]], f)
       IN  /\ strs' = InsertAll(strs, <<f.symbol, name>>)
           /\ frames' = [frames EXCEPT
                  !.func = Append(@, Index(strs', name)),
                  !.is_inline = Append(@, f.is_inline),
                  !.offsets = IF f.is_inline THEN @ ELSE Append(@, at - 1)]
    /\ UNCHANGED <<types, pc_ids, objects>>

(* One frame.  pc_i, the pc it belongs to, is counted up by the non-inline *)
(* frames.                                                                 *)
FrameRow ==
    /\ InLoop("frames", Len(StackFrames(frames.pc)))
    /\ LET f    == StackFrames(frames.pc)[at]
           pc_i == Len(frames.offsets)
           name == FuncName(resolved[frames.pc[pc_i]], f)
       IN  /\ strs' = InsertAll(strs, <<f.symbol, name>>)
           /\ frames' = [frames EXCEPT
                  !.func = Append(@, Index(strs', name)),
                  !.is_inline = Append(@, f.is_inline),
                  !.offsets = IF f.is_inline THEN @ ELSE Append(@, at)]
    /\ UNCHANGED <<types, pc_ids, objects>>

-----------------------------------------------------------------------------
(* Mutant of TypeRow: the counts are not added up.                         *)
TypeRowNoTotals ==
    /\ InLoop("types", Len(types.type_data))
    /\ LET ent == TypeData[types.type_data[at]]
       IN  /\ strs' = InsertCstr(strs, ent.type)
           /\ types' = [types EXCEPT
                  !.type = Append(@, IndexCstr(strs', ent.type)),
                  !.field_off = Append(@, Len(ent.field_names)),
                  !.base_off = Append(@, Len(ent.base_types))]
    /\ UNCHANGED <<frames, pc_ids, objects>>

(* The first loop of output_type_data: names, and the ends of each type's  *)
(* slices of the field and base arrays.                                    *)
TypeRow ==
    /\ InLoop("types", Len(types.type_data))
    /\ LET ent == TypeData[types.type_data[at]]
       IN  /\ strs' = InsertCstr(strs, ent.type)
           /\ types' = [types EXCEPT
                  !.type = Append(@, IndexCstr(strs', ent.type)),
                  !.field_off = Append(@, @[at] + Len(ent.field_names)),
                  !.base_off = Append(@, @[at] + Len(ent.base_types))]
    /\ UNCHANGED <<frames, pc_ids, objects>>

(* The second: the fields and bases of one type, from field_i and base_i.  *)
MemberRow ==
    /\ InLoop("members", Len(types.type_data))
    /\ LET ent == TypeData[types.type_data[at]]
           Indices(ps) == [j \in DOMAIN ps |-> IndexCstr(strs', ps[j])]
       IN  /\ strs' = InsertAllCstr(strs, ent.field_names \o ent.base_types)
           /\ types' = [types EXCEPT
                  !.field_names = @ \o Indices(ent.field_names),
                  !.base_types = @ \o Indices(ent.base_types)]
    /\ UNCHANGED <<frames, pc_ids, objects>>

-----------------------------------------------------------------------------
(* Mutant of event_ordering: the events as they were drained.              *)
drained_ordering == [i \in DOMAIN source |-> i]

(* compute_event_ordering: indices into the events, sorted by id.          *)
event_ordering == SortedBy(DOMAIN source, source)

(* One output event: its trace and objects refer to the tables.            *)
EventRow ==
    /\ phase = "events"
    /\ at =< Len(source)
    /\ at' = at + 1
    /\ LET k     == source[event_ordering[at]]
           tr    == info[k].trace
           ot    == info[k].objects
           pcs   == Lookup(frames.pc)
           tds   == Lookup(types.type_data)
       IN  /\ out' = Append(out, log[k])
           /\ pc_ids' = Append(pc_ids, [i \in DOMAIN tr |-> pcs[tr[i]]])
           /\ strs' = InsertAllCstr(strs, [i \in DOMAIN ot |-> TypeData[ot[i]].type])
           /\ objects' = Append(objects, [i \in DOMAIN ot |->
                  [type |-> IndexCstr(strs', TypeData[ot[i]].type),
                   type_data |-> tds[ot[i]]]])
    /\ UNCHANGED <<recordVars, resolved, phase, source, frames, types,
                   alloc_sizes>>

(* compute_free_sizes.                                                     *)
SizesStep ==
    /\ phase = "sizes"
    /\ SizeRow
    /\ UNCHANGED <<recordVars, resolved, phase, source, tables>>

Loops ==
    \/ EndLoop("objects", Len(frames.pc), "frames")
    \/ EndLoop("frames", Len(StackFrames(frames.pc)), "types")
    \/ EndLoop("types", Len(types.type_data), "members")
    \/ EndLoop("members", Len(types.type_data), "events")
    \/ EndLoop("events", Len(source), "sizes")
    \/ phase = "sizes" /\ at > Len(out) /\ phase' = "done"
          /\ UNCHANGED <<recordVars, resolved, source, tables, sizeVars>>

Ended == phase \in {"done", "failed"} /\ UNCHANGED vars

Next ==
    \/ Record \/ MakeOutputRecord
    \/ ObjectRow \/ FrameRow \/ TypeRow \/ MemberRow \/ EventRow \/ SizesStep
    \/ Loops
    \/ Ended

Spec == Init /\ [][Next]_vars

-----------------------------------------------------------------------------
Done == phase = "done"

Slice(s, off, i) == SubSeq(s, off[i + 1] + 1, off[i + 2])

Decode(is) == [k \in DOMAIN is |-> StringAt(strs, is[k])]

(* However the contexts were drained, the report lists every event of the  *)
(* program once, in the order in which the hooks stamped them.             *)
Chronological ==
    Done => /\ Len(out) = Len(log)
            /\ \A k \in 1..Len(log) :
                   [out[k] EXCEPT !.size = log[k].size] = log[k]

(* In the report every FREE has the size of the block it released.         *)
ReportSizes ==
    Done => \A k \in 1..Len(out) :
        (out[k].type = "FREE" /\ out[k].born # NoStamp) => out[k].size = out[k].held

(* The call stack of an event, decoded through pc_id, offsets and func.    *)
DecodedStack(k) ==
    FlattenSeq([i \in DOMAIN pc_ids[k] |->
        Decode(Slice(frames.func, frames.offsets, pc_ids[k][i]))])

(* It names what cpptrace and dladdr know of the return addresses the hook *)
(* recorded, frame by frame, inline frames included.                       *)
CallStacks ==
    Done => \A k \in 1..Len(log) :
        DecodedStack(k) =
            FlattenSeq([i \in DOMAIN info[k].trace |->
                LET r == resolved[info[k].trace[i]]
                IN  [j \in DOMAIN r.frames |-> FuncName(r, r.frames[j])]])

(* The objects an event destroys, decoded through the type table, have the *)
(* name, the fields and the bases of their own type.                       *)
ObjectTypes ==
    Done => \A k \in 1..Len(log) :
        /\ Len(objects[k]) = Len(info[k].objects)
        /\ \A i \in DOMAIN objects[k] :
               LET o   == objects[k][i]
                   ent == TypeData[info[k].objects[i]]
                   Texts(ps) == [j \in DOMAIN ps |-> SafeSv(ps[j])]
               IN  /\ StringAt(strs, o.type) = SafeSv(ent.type)
                   /\ StringAt(strs, types.type[o.type_data + 1]) = SafeSv(ent.type)
                   /\ Decode(Slice(types.field_names, types.field_off, o.type_data))
                          = Texts(ent.field_names)
                   /\ Decode(Slice(types.base_types, types.base_off, o.type_data))
                          = Texts(ent.base_types)

(* The string table never lists a string twice, and neither of its caches  *)
(* ever leads to another string.                                           *)
StringsConsistent == TableConsistent(strs)
=============================================================================
