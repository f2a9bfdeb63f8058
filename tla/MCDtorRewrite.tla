---------------------------- MODULE MCDtorRewrite ----------------------------
(* The ways a class may have its destructor, and two layouts.              *)
EXTENDS DtorRewrite

Declaration(form, stmts, implicit, eager) ==
    [body |-> [form |-> form, stmts |-> stmts], implicit |-> implicit,
     eager |-> eager]
Written == <<[op |-> "source"]>>

Bare == Declaration("none", << >>, FALSE, FALSE)        \* ~T(); ~T() = default;
Implicit == Declaration("none", << >>, TRUE, FALSE)     \* and not used
ImplicitUsed == Declaration("compound", << >>, TRUE, FALSE)
DefaultedUsed == Declaration("compound", << >>, FALSE, FALSE)
Inline == Declaration("compound", Written, FALSE, FALSE)
InlineTry == Declaration("try", Written, FALSE, FALSE)
OutOfLine == Declaration("compound", Written, FALSE, TRUE)

Of(decls) == [deleted |-> FALSE, trivial |-> FALSE, pattern |-> FALSE,
              decls |-> decls]

MCClassKinds ==
    {Of(<<d>>) : d \in {Bare, Implicit, ImplicitUsed, DefaultedUsed, Inline, InlineTry}}
    \cup {Of(<<Bare, d>>) : d \in {Inline, OutOfLine}}
    \cup {[Of(<<d>>) EXCEPT !.trivial = TRUE] : d \in {Bare, Implicit}}
    \cup {[Of(<<Bare>>) EXCEPT !.deleted = TRUE]}
    \cup {[Of(<<Bare, Inline>>) EXCEPT !.pattern = TRUE]}

Field(name, type, bits, size) ==
    [name |-> name, type |-> type, bits |-> bits, size |-> size]
Base(type, offset, size, virtual) ==
    [type |-> type, offset |-> offset, size |-> size, virtual |-> virtual]

\* One class is empty; one has a bit-field that begins inside a byte.
MCLayouts ==
    {[size |-> 1, fields |-> << >>, bases |-> << >>],
     [size |-> 16,
      fields |-> <<Field("a", "int", 32, 4), Field("b", "unsigned", 67, 4)>>,
      bases |-> <<Base("A", 0, 4, FALSE), Base("B", 4, 2, FALSE), Base("V", 12, 4, TRUE)>>]}
=============================================================================
