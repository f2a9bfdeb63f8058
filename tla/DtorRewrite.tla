----------------------------- MODULE DtorRewrite -----------------------------
(***************************************************************************)
(* The Clang plugin on one translation unit (dtor_visitor.h,              *)
(* ast_consumer.h, ast_tools): which declarations of destructors it       *)
(* rewrites, what it puts into them, and what the code generator, which   *)
(* also runs while the unit is still being parsed, makes of that.         *)
(***************************************************************************)
EXTENDS Naturals, Sequences, FiniteSets, SequencesExt

CONSTANTS
    Classes,
    ClassKinds,     \* [deleted, trivial, pattern: BOOLEAN, decls: sequence]
    Layouts,        \* [size: Nat, fields, bases: sequences]
    CharBits,       \* ctx.getCharWidth()
    Preludes        \* which of the plugin's names the unit declares

NoBody == [form |-> "none", stmts |-> << >>]

\* A destructor is defined once; an implicit one is declared once, and a deleted
\* one has no body.  No source calls save_state in a destructor.
ASSUME DtorRewriteAssumption ==
    /\ CharBits \in Nat \ {0}
    /\ \A l \in Layouts : /\ l.fields \in Seq(Range(l.fields))
                          /\ l.bases \in Seq(Range(l.bases))
                          /\ \A k \in DOMAIN l.fields : l.fields[k].bits \in Nat
    /\ \A k \in ClassKinds :
           /\ \A i \in DOMAIN k.decls :
                  LET b == k.decls[i].body
                  IN  /\ b \in [form : {"none", "compound", "try"},
                                stmts : Seq(Range(b.stmts))]
                      /\ \A j \in DOMAIN b.stmts : b.stmts[j].op # "call"
                      /\ k.deleted => b = NoBody
                      /\ k.decls[i].implicit => DOMAIN k.decls = {i}
           /\ \A i, j \in DOMAIN k.decls :
                  (k.decls[i].body # NoBody /\ k.decls[j].body # NoBody) => i = j

VARIABLES
    kind, layout,   \* of each class, what the source says
    prelude,
    body,           \* of each declaration, in the AST
    noinline,       \* the declarations that have the attribute
    phase,
    parsed,         \* the declarations seen by the parser
    dtors,          \* dtor_visitor::dtors, as far as the loop has not got
    emitted         \* the bodies as the code generator has seen them

vars == <<kind, layout, prelude, body, noinline, phase, parsed, dtors, emitted>>

-----------------------------------------------------------------------------
(* A destructor is declared once, or twice if it is defined out of line.   *)
(* A body is a form and statements; a function-try-block is its own form.  *)
Decls == Classes \X {1, 2}
Kind(d) == kind[d[1]]
Declared(d) == d[2] \in DOMAIN Kind(d).decls
Source(d) == Kind(d).decls[d[2]]

SourceBody(d) == IF Declared(d) THEN Source(d).body ELSE NoBody

HasBodyHere(d) == body[d] # NoBody
Redecls(d) == {e \in Decls : e[1] = d[1]}
HasBody(d) == \E e \in Redecls(d) : HasBodyHere(e)
GetBody(d) == body[CHOOSE e \in Redecls(d) : HasBodyHere(e)]

-----------------------------------------------------------------------------
(* ast_tools::invoke_hook: arrays, the type data that point to them, and   *)
(* the call.                                                               *)
StructFields == <<"size", "type", "base_count", "field_count", "field_names",
                  "field_types", "field_sizes", "field_offsets", "base_types",
                  "base_sizes", "base_offsets">>

Column(seq, f) == [i \in DOMAIN seq |-> seq[i][f]]

\* A virtual base has no entry in ASTRecordLayout::BaseOffsets, which answers 0.
BaseOffset(b) == IF b.virtual THEN 0 ELSE b.offset

Arrays(l) == <<
    <<"FIELD_NAMES", Column(l.fields, "name")>>,
    <<"FIELD_TYPES", Column(l.fields, "type")>>,
    <<"FIELD_SIZES", Column(l.fields, "size")>>,
    <<"FIELD_OFFSETS", [i \in DOMAIN l.fields |-> l.fields[i].bits \div CharBits]>>,
    <<"BASE_TYPES", Column(l.bases, "type")>>,
    <<"BASE_SIZES", Column(l.bases, "size")>>,
    <<"BASE_OFFSETS", [i \in DOMAIN l.bases |-> BaseOffset(l.bases[i])]>> >>

Value(v) == [ref |-> FALSE, of |-> v]
Address(a) == [ref |-> TRUE, of |-> a]

\* Mutant of InitList: sizes and offsets in the other order.
OffsetsFirst(c, l) ==
    <<Value(l.size), Value(c), Value(Len(l.bases)), Value(Len(l.fields)),
      Address("FIELD_NAMES"), Address("FIELD_TYPES"),
      Address("FIELD_OFFSETS"), Address("FIELD_SIZES"),
      Address("BASE_TYPES"), Address("BASE_SIZES"), Address("BASE_OFFSETS")>>

InitList(c, l) ==
    <<Value(l.size), Value(c), Value(Len(l.bases)), Value(Len(l.fields)),
      Address("FIELD_NAMES"), Address("FIELD_TYPES"),
      Address("FIELD_SIZES"), Address("FIELD_OFFSETS"),
      Address("BASE_TYPES"), Address("BASE_SIZES"), Address("BASE_OFFSETS")>>

Decl(var, init) == [op |-> "decl", var |-> var, init |-> init]
Call(arg) == [op |-> "call", arg |-> arg]

Payload(c) ==
    LET a == Arrays(layout[c]) IN
    [i \in DOMAIN a |-> Decl(a[i][1], a[i][2])]
    \o <<Decl("TYPE_DATA", InitList(c, layout[c])), Call("TYPE_DATA")>>

Prepend(b, stmts) == [b EXCEPT !.stmts = stmts \o b.stmts]

Join(stmts, b) == [form |-> "compound", stmts |-> stmts \o b.stmts]

-----------------------------------------------------------------------------
Init ==
    /\ kind \in [Classes -> ClassKinds]
    /\ layout \in [Classes -> Layouts]
    /\ prelude \in Preludes
    /\ body = [d \in Decls |-> SourceBody(d)]
    /\ noinline = {}
    /\ phase = "parse"
    /\ parsed = {}
    /\ dtors = {}
    /\ emitted = [d \in Decls |-> NoBody]

\* The compiler parses a declaration.  A definition that must be in this
\* object file (it is not inline) goes to the code generator at once.
Parse(d) ==
    /\ phase = "parse"
    /\ Declared(d) /\ d \notin parsed
    /\ d[2] = 2 => <<d[1], 1>> \in parsed
    /\ parsed' = parsed \cup {d}
    /\ emitted' = [emitted EXCEPT ![d] = IF Source(d).eager THEN body[d] ELSE @]
    /\ UNCHANGED <<kind, layout, prelude, body, noinline, phase, dtors>>

\* What TraverseDecl visits and inserts into the set dtors: every declaration,
\* implicit code and instantiations too, some of them more than once.
\* Mutant of VisitCXXDestructorDecl: canonical declarations only.
CanonicalOnly == {d \in parsed : d[2] = 1}

VisitCXXDestructorDecl == parsed

\* ast_consumer::HandleTranslationUnit.
Traverse ==
    /\ phase = "parse"
    /\ parsed = {d \in Decls : Declared(d)}
    /\ dtors' = VisitCXXDestructorDecl
    /\ phase' = "rewrite"
    /\ UNCHANGED <<kind, layout, prelude, body, noinline, parsed, emitted>>

\* maybe_perform_rewrite.  (A destructor always has a parent, and that a
\* definition: the guards for these are not needed here.)
\* Mutant of ShouldRewrite: without the triviality test.
TrivialToo(d) ==
    /\ ~ Kind(d).deleted /\ ~ Kind(d).pattern
    /\ HasBodyHere(d) \/ Source(d).implicit

ShouldRewrite(d) ==
    /\ ~ Kind(d).deleted /\ ~ Kind(d).trivial /\ ~ Kind(d).pattern
    /\ HasBodyHere(d) \/ Source(d).implicit

\* rewrite_dtor.
NewBody(d) ==
    CASE ~ HasBody(d) -> [form |-> "compound", stmts |-> Payload(d[1])]
      [] HasBody(d) /\ GetBody(d).form = "compound" ->
             Prepend(GetBody(d), Payload(d[1]))
      [] OTHER -> Join(Payload(d[1]), GetBody(d))

Rewrite(d) ==
    /\ phase = "rewrite" /\ d \in dtors
    /\ dtors' = dtors \ {d}
    /\ ShouldRewrite(d) /\ prelude = "whole"
    /\ body' = [body EXCEPT ![d] = NewBody(d)]
    /\ noinline' = noinline \cup {d}
    /\ UNCHANGED <<kind, layout, prelude, phase, parsed, emitted>>

\* Not to be rewritten, or `save_state` is not found.
Skip(d) ==
    /\ phase = "rewrite" /\ d \in dtors
    /\ dtors' = dtors \ {d}
    /\ ~ ShouldRewrite(d) \/ prelude = "none"
    /\ UNCHANGED <<kind, layout, prelude, body, noinline, phase, parsed, emitted>>

\* The unit has a save_state of its own, and _mp_type_data is missing (a null
\* pointer is used) or has no definition (an exception): no object file.
PluginFails(d) ==
    /\ phase = "rewrite" /\ d \in dtors
    /\ ShouldRewrite(d) /\ prelude = "hook_only"
    /\ phase' = "failed"
    /\ UNCHANGED <<kind, layout, prelude, body, noinline, parsed, dtors, emitted>>

LoopEnds ==
    /\ phase = "rewrite" /\ dtors = {}
    /\ phase' = "emit"
    /\ UNCHANGED <<kind, layout, prelude, body, noinline, parsed, dtors, emitted>>

\* The code generator takes what it has deferred, if it is used.
Emit(d) ==
    /\ phase = "emit"
    /\ d \in parsed /\ emitted[d] = NoBody
    /\ HasBodyHere(d) /\ ~ Kind(d).pattern
    /\ emitted' = [emitted EXCEPT ![d] = body[d]]
    /\ UNCHANGED <<kind, layout, prelude, body, noinline, phase, parsed, dtors>>

UnitEnds ==
    /\ phase = "emit"
    /\ phase' = "done"
    /\ UNCHANGED <<kind, layout, prelude, body, noinline, parsed, dtors, emitted>>

Over == phase \in {"done", "failed"} /\ UNCHANGED vars

Next ==
    \/ \E d \in Decls : Parse(d) \/ Rewrite(d) \/ Skip(d) \/ PluginFails(d) \/ Emit(d)
    \/ Traverse \/ LoopEnds \/ UnitEnds \/ Over

Spec == Init /\ [][Next]_vars

-----------------------------------------------------------------------------
CallsIn(b) == {i \in DOMAIN b.stmts : b.stmts[i].op = "call"}

(* In the order in which the loop comes to them, and redeclarations or     *)
(* not: what the code generator takes after the plugin calls save_state    *)
(* once, before all statements of the source, which follow unchanged, and  *)
(* is not inlined.  (README.md:377: what it has taken before does not.)    *)
DeferredInstrumented ==
    \A d \in Decls :
        /\ prelude = "whole" /\ ~ Kind(d).trivial
        /\ emitted[d] # NoBody /\ ~ Source(d).eager
        => /\ d \in noinline
           /\ \E i \in CallsIn(emitted[d]) :
                /\ CallsIn(emitted[d]) = {i}
                /\ SubSeq(emitted[d].stmts, i + 1, Len(emitted[d].stmts))
                     = SourceBody(d).stmts

(* No other body is touched: a trivial or deleted destructor, a template,  *)
(* a declaration without a body, a unit without the prelude stay as they   *)
(* are (maybe_perform_rewrite).                                            *)
OthersUntouched ==
    \A d \in Decls :
        \/ prelude # "whole"
        \/ Kind(d).trivial \/ Kind(d).deleted \/ Kind(d).pattern
        \/ ~ Declared(d)
        \/ SourceBody(d) = NoBody /\ ~ Source(d).implicit
        => body[d] = SourceBody(d)

\* What a reader of the struct _mp_type_data finds, which is passed at i: each
\* member is a value or points to an array that has been declared before.
DeclaredAs(b, i, var) ==
    LET js == {j \in 1 .. i - 1 : b.stmts[j].op = "decl" /\ b.stmts[j].var = var}
    IN IF Cardinality(js) = 1 THEN CHOOSE j \in js : TRUE ELSE 0

Position(name) == CHOOSE n \in DOMAIN StructFields : StructFields[n] = name

Member(b, i, name) ==
    LET at == DeclaredAs(b, i, b.stmts[i].arg)
        m == b.stmts[at].init[Position(name)]
    IN IF m.ref THEN b.stmts[DeclaredAs(b, at, m.of)].init ELSE m.of

(* The type data of every call describe the class: as many fields and      *)
(* bases as counted, each with its own name, type, size and the byte where *)
(* it begins (invoke_hook).  The offset of a virtual base is not constant. *)
TypeDataDecodes ==
    \A d \in Decls : \A i \in CallsIn(body[d]) :
        LET M(name) == Member(body[d], i, name)
            l == layout[d[1]]
        IN
        /\ M("size") = l.size /\ M("type") = d[1]
        /\ M("field_count") = Len(l.fields) /\ M("base_count") = Len(l.bases)
        /\ \A k \in DOMAIN l.fields :
             /\ M("field_names")[k] = l.fields[k].name
             /\ M("field_types")[k] = l.fields[k].type
             /\ M("field_sizes")[k] = l.fields[k].size
             /\ l.fields[k].bits - M("field_offsets")[k] * CharBits \in 0 .. CharBits - 1
        /\ \A k \in DOMAIN l.bases :
             /\ M("base_types")[k] = l.bases[k].type
             /\ M("base_sizes")[k] = l.bases[k].size
             /\ l.bases[k].virtual \/ M("base_offsets")[k] = l.bases[k].offset
=============================================================================
