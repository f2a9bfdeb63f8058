--------------------------- MODULE MCOutputRecord ---------------------------
(* OutputRecord for two program counters, two types and a few strings. *)
EXTENDS OutputRecord

(* Two addresses with the same characters: one name in two shared objects. *)
MCText == [lib |-> "lib.so", sym |-> "_Zf", lit |-> "",
           T |-> "T", U |-> "U", U2 |-> "U", m |-> "m", n |-> "n"]

MCTraces == {<<2>>, <<2, 1>>}

MCTypeData == <<
    [type |-> "T", field_names |-> <<"m", "n">>, base_types |-> <<"U">>],
    [type |-> "U2", field_names |-> <<"m">>, base_types |-> << >>] >>

MCObjectTraces == {<< >>, <<2>>, <<2, 1>>}

MCDemangled(s) == IF s = "_Zf" THEN "f" ELSE s

Frame(s, i) == [symbol |-> s, is_inline |-> i]
Known == [frames |-> <<Frame("g", TRUE), Frame("f", FALSE)>>, no_address |-> FALSE,
          has_object |-> TRUE,
          object_path |-> "lib.so",
          found |-> TRUE, dli_fname |-> "lib", dli_sname |-> "sym"]
NoName == [Known EXCEPT !.frames = <<Frame("", FALSE)>>]
NoDladdr == [NoName EXCEPT !.found = FALSE, !.dli_fname = NullStr, !.dli_sname = NullStr]
Static == [Known EXCEPT !.no_address = TRUE, !.dli_sname = NullStr]
Lost == [Known EXCEPT !.frames = <<Frame("g", TRUE)>>]
NoObject == [Known EXCEPT !.has_object = FALSE]

MCResolutions == {<<Known, NoName>>, <<NoName, Known>>, <<NoDladdr, Static>>, <<Known, Lost>>,
                  <<NoObject, NoName>>}
=============================================================================
