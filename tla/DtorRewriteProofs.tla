-------------------------- MODULE DtorRewriteProofs --------------------------
(***************************************************************************)
(* For any classes, redeclarations, layouts and preludes, and in whatever  *)
(* order the set of destructors is walked: the plugin touches no body that *)
(* it should leave alone, instruments all that come after it, and passes   *)
(* type data that can be read back.                                        *)
(*                                                                         *)
(* What maybe_perform_rewrite asks of a declaration, that it has a body    *)
(* here, is asked of the AST as rewritten so far: it is an answer about    *)
(* the source only because bodies appear nowhere else (OthersUntouched).   *)
(* RewrittenInv says what each body has become, EmittedInv that the loop   *)
(* has seen every declaration before the code generator takes the bodies.  *)
(***************************************************************************)
EXTENDS DtorRewrite, SequenceLemmas

(* The loop never holds what the unit does not declare.                    *)
KnownDecls ==
    /\ body \in [Decls -> {body[d] : d \in Decls}]
    /\ parsed \subseteq {d \in Decls : Declared(d)}
    /\ dtors \subseteq {d \in Decls : Declared(d)}

UntouchedInv == KnownDecls /\ OthersUntouched

LEMMA UntouchedInit == ASSUME Init PROVE UntouchedInv
BY DEF Init, UntouchedInv, KnownDecls, OthersUntouched

LEMMA UntouchedNext == ASSUME UntouchedInv, [Next]_vars PROVE UntouchedInv'
<1> DEFINE Known == UNCHANGED <<kind, body, prelude>>
<1>1. Known => OthersUntouched'
  BY DEF UntouchedInv, OthersUntouched, Kind, Declared, Source, SourceBody
<1>2. Known /\ parsed' \subseteq {d \in Decls : Declared(d)}
            /\ dtors' \subseteq {d \in Decls : Declared(d)} => KnownDecls'
  BY DEF UntouchedInv, KnownDecls, Declared, Kind
<1>3. ASSUME NEW d \in Decls, Parse(d) PROVE UntouchedInv'
  BY <1>1, <1>2, <1>3 DEF Parse, UntouchedInv, KnownDecls
<1>4. ASSUME NEW d \in Decls, Rewrite(d) PROVE UntouchedInv'
  <2>1. /\ UNCHANGED <<kind, prelude, parsed>> /\ prelude = "whole"
        /\ dtors' \subseteq dtors /\ Declared(d)
        /\ body' = [body EXCEPT ![d] = NewBody(d)] /\ ShouldRewrite(d)
    BY <1>4 DEF Rewrite, UntouchedInv, KnownDecls
  <2>2. /\ body' \in [Decls -> {body'[e] : e \in Decls}]
        /\ \A e \in Decls \ {d} : body'[e] = body[e]
    BY <2>1 DEF UntouchedInv, KnownDecls
  <2>3. ~(SourceBody(d) = NoBody /\ ~ Source(d).implicit)
    BY <2>1 DEF ShouldRewrite, HasBodyHere, UntouchedInv, OthersUntouched
  <2>4. OthersUntouched'
    <3>1. ASSUME NEW e \in Decls,
                 \/ prelude # "whole"
                 \/ Kind(e).trivial \/ Kind(e).deleted \/ Kind(e).pattern
                 \/ ~ Declared(e)
                 \/ SourceBody(e) = NoBody /\ ~ Source(e).implicit
          PROVE  body'[e] = SourceBody(e)
      <4>1. e # d
        BY <2>1, <2>3, <3>1 DEF ShouldRewrite
      <4> QED  BY <2>2, <3>1, <4>1 DEF UntouchedInv, OthersUntouched
    <3> QED  BY <2>1, <3>1 DEF OthersUntouched, Kind, Declared, Source, SourceBody
  <2> QED  BY <2>1, <2>2, <2>4 DEF UntouchedInv, KnownDecls, Declared, Kind
<1>5. ASSUME NEW d \in Decls, Skip(d) PROVE UntouchedInv'
  BY <1>1, <1>2, <1>5 DEF Skip, UntouchedInv, KnownDecls
<1>6. ASSUME NEW d \in Decls, PluginFails(d) \/ Emit(d) PROVE UntouchedInv'
  BY <1>1, <1>2, <1>6 DEF PluginFails, Emit, UntouchedInv, KnownDecls
<1>7. CASE Traverse
  BY <1>1, <1>2, <1>7 DEF Traverse, VisitCXXDestructorDecl, UntouchedInv, KnownDecls
<1>8. CASE LoopEnds \/ UnitEnds \/ Over \/ UNCHANGED vars
  BY <1>1, <1>2, <1>8 DEF LoopEnds, UnitEnds, Over, vars, UntouchedInv, KnownDecls
<1> QED  BY <1>3, <1>4, <1>5, <1>6, <1>7, <1>8 DEF Next

(* A trivial or deleted destructor, a template, a declaration without a    *)
(* body and a unit without the prelude stay as they are.                   *)
THEOREM PluginLeavesOthers == Spec => []OthersUntouched
<1>1. UntouchedInv => OthersUntouched
  BY DEF UntouchedInv
<1> QED  BY <1>1, UntouchedInit, UntouchedNext, PTL DEF Spec

-----------------------------------------------------------------------------
(* The payload: seven arrays, the type data, and the call of save_state.   *)
ArrayNames == <<"FIELD_NAMES", "FIELD_TYPES", "FIELD_SIZES", "FIELD_OFFSETS",
                "BASE_TYPES", "BASE_SIZES", "BASE_OFFSETS">>

Quiet(stmts) == IsSeq(stmts) /\ \A i \in DOMAIN stmts : stmts[i].op # "call"

IsInstrumented(c, stmts, rest) ==
    /\ IsSeq(stmts) /\ Len(stmts) = 9 + Len(rest)
    /\ \A i \in 1..7 : stmts[i] = Decl(ArrayNames[i], Arrays(layout[c])[i][2])
    /\ stmts[8] = Decl("TYPE_DATA", InitList(c, layout[c]))
    /\ stmts[9] = Call("TYPE_DATA")
    /\ \A i \in 1..Len(rest) : stmts[9 + i] = rest[i]

(* p is the sequence s with t after it.                                    *)
IsConcat(p, s, t) ==
    /\ IsSeq(p) /\ Len(p) = Len(s) + Len(t)
    /\ \A i \in 1..Len(s) : p[i] = s[i]
    /\ \A i \in 1..Len(t) : p[Len(s) + i] = t[i]

(* Concatenation does that.                                                *)
LEMMA ConcatFacts ==
    ASSUME NEW s, NEW t, IsSeq(s), IsSeq(t)
    PROVE  IsConcat(s \o t, s, t)
BY SeqConcat DEF IsConcat

(* invoke_hook puts nine statements before what was there.                 *)
LEMMA PayloadShape ==
    ASSUME NEW c, NEW rest, IsSeq(rest)
    PROVE  IsInstrumented(c, Payload(c) \o rest, rest) /\ IsSeq(Payload(c))
<1> DEFINE a == Arrays(layout[c])
           decls == [i \in DOMAIN a |-> Decl(a[i][1], a[i][2])]
           tail == <<Decl("TYPE_DATA", InitList(c, layout[c])), Call("TYPE_DATA")>>
<1>1. DOMAIN a = 1..7 /\ \A i \in 1..7 : a[i][1] = ArrayNames[i]
  BY DEF Arrays, ArrayNames
<1>2. Payload(c) = decls \o tail
  BY DEF Payload
<1> HIDE DEF a
<1>3. IsSeq(decls) /\ Len(decls) = 7 /\ \A i \in 1..7 : decls[i] = Decl(ArrayNames[i], a[i][2])
  <2>1. decls = [i \in 1..7 |-> decls[i]]
    BY <1>1
  <2> QED  BY <1>1, <2>1, SeqOfFunction
<1>4. /\ IsSeq(tail) /\ Len(tail) = 2
      /\ tail[1] = Decl("TYPE_DATA", InitList(c, layout[c])) /\ tail[2] = Call("TYPE_DATA")
  <2>1. tail \in Seq({tail[1], tail[2]})
    OBVIOUS
  <2> QED  BY <2>1 DEF IsSeq
<1> HIDE DEF decls, tail
<1>5. PICK p : p = decls \o tail
  OBVIOUS
<1>6. /\ IsSeq(p) /\ Len(p) = 9
      /\ \A i \in 1..7 : p[i] = decls[i]
      /\ p[8] = tail[1] /\ p[9] = tail[2]
  <2>1. IsConcat(p, decls, tail)
    BY <1>3, <1>4, <1>5, ConcatFacts
  <2>2. p[7 + 1] = tail[1] /\ p[7 + 2] = tail[2]
    BY <1>3, <1>4, <2>1 DEF IsConcat
  <2> QED  BY <1>3, <1>4, <2>1, <2>2 DEF IsConcat
<1>7. PICK s : s = p \o rest
  OBVIOUS
<1>8. /\ IsSeq(s) /\ Len(s) = 9 + Len(rest)
      /\ \A i \in 1..9 : s[i] = p[i]
      /\ \A i \in 1..Len(rest) : s[9 + i] = rest[i]
  <2>1. IsConcat(s, p, rest)
    BY <1>6, <1>7, ConcatFacts
  <2> QED  BY <1>6, <2>1 DEF IsConcat
<1>9. Payload(c) \o rest = s
  BY <1>2, <1>5, <1>7
<1>10. /\ \A i \in 1..7 : s[i] = Decl(ArrayNames[i], a[i][2])
       /\ s[8] = Decl("TYPE_DATA", InitList(c, layout[c])) /\ s[9] = Call("TYPE_DATA")
  BY <1>3, <1>4, <1>6, <1>8
<1> QED  BY <1>2, <1>5, <1>6, <1>8, <1>9, <1>10 DEF IsInstrumented, a

(* There is one call in it, and what follows is what was there before.     *)
LEMMA OneCall ==
    ASSUME NEW c, NEW b, NEW rest, Quiet(rest), IsInstrumented(c, b.stmts, rest)
    PROVE  /\ CallsIn(b) = {9}
           /\ SubSeq(b.stmts, 10, Len(b.stmts)) = rest
<1>1. PICK s : s = b.stmts
  OBVIOUS
<1>2. /\ DOMAIN s = 1..Len(s) /\ Len(rest) \in Nat /\ DOMAIN rest = 1..Len(rest)
      /\ Len(s) = 9 + Len(rest)
  BY <1>1, SeqFacts DEF IsInstrumented, Quiet
<1>3. \A i \in 1..8 : s[i].op = "decl"
  <2>1. \A i \in 1..7 : s[i].op = "decl"
    BY <1>1 DEF IsInstrumented, Decl
  <2>2. s[8].op = "decl"
    BY <1>1 DEF IsInstrumented, Decl
  <2> QED  BY <2>1, <2>2
<1>4. s[9].op = "call"
  BY <1>1 DEF IsInstrumented, Call
<1>5. \A i \in 10..Len(s) : s[i].op # "call"
  <2> TAKE i \in 10..Len(s)
  <2>1. i - 9 \in 1..Len(rest) /\ 9 + (i - 9) = i
    BY <1>2
  <2>2. s[i] = rest[i - 9]
    BY <1>1, <2>1 DEF IsInstrumented
  <2> QED  BY <1>2, <2>1, <2>2 DEF Quiet
<1>6. \A i \in DOMAIN s : s[i].op = "call" <=> i = 9
  BY <1>2, <1>3, <1>4, <1>5
<1>7. 9 \in DOMAIN s
  BY <1>2
<1>8. CallsIn(b) = {9}
  BY <1>1, <1>6, <1>7 DEF CallsIn
<1>9. SubSeq(s, 10, Len(s)) = rest
  <2>1. PICK S : s \in Seq(S)
    BY <1>1 DEF IsInstrumented, IsSeq
  <2>2. PICK T : rest \in Seq(T)
    BY DEF Quiet, IsSeq
  <2>3. PICK t : t = SubSeq(s, 10, Len(s))
    OBVIOUS
  <2>4. t \in Seq(S) /\ Len(t) = Len(rest)
    BY <1>2, <2>1, <2>3
  <2>5. \A i \in 1..Len(t) : t[i] = s[9 + i]
    BY <1>2, <2>1, <2>3, <2>4
  <2>6. \A i \in 1..Len(rest) : t[i] = rest[i]
    BY <1>1, <2>4, <2>5 DEF IsInstrumented
  <2>7. t \in Seq(S \cup T) /\ rest \in Seq(S \cup T)
    BY <2>2, <2>4
  <2> QED  BY <2>3, <2>4, <2>6, <2>7
<1> QED  BY <1>1, <1>8, <1>9

-----------------------------------------------------------------------------
(* What the source has.                                                    *)
SourceAgrees ==
    /\ kind \in [Classes -> ClassKinds]
    /\ layout \in [Classes -> Layouts]

(* A source body has no call of save_state; there is one body at most.     *)
LEMMA SourceFacts ==
    ASSUME SourceAgrees, NEW d \in Decls
    PROVE  /\ SourceBody(d) \in [form : {"none", "compound", "try"},
                                 stmts : Seq(Range(SourceBody(d).stmts))]
           /\ Quiet(SourceBody(d).stmts)
           /\ Declared(d) /\ Kind(d).deleted => SourceBody(d) = NoBody
           /\ \A e \in Redecls(d) :
                  /\ SourceBody(d) # NoBody /\ SourceBody(e) # NoBody => d = e
                  /\ Declared(d) /\ Source(d).implicit /\ Declared(e) => d = e
<1>1. Kind(d) \in ClassKinds
  BY DEF SourceAgrees, Decls, Kind
<1>2. Declared(d) => /\ SourceBody(d) = Kind(d).decls[d[2]].body
                     /\ d[2] \in DOMAIN Kind(d).decls
                     /\ Source(d) = Kind(d).decls[d[2]]
  BY DEF SourceBody, Source, Declared
<1>3. ~ Declared(d) => SourceBody(d) = NoBody
  BY DEF SourceBody
<1>4. NoBody \in [form : {"none", "compound", "try"}, stmts : Seq(Range(NoBody.stmts))]
      /\ Quiet(NoBody.stmts)
  <2>1. << >> \in Seq(Range(<< >>))
    OBVIOUS
  <2> QED  BY <2>1 DEF NoBody, Quiet, IsSeq
<1>5. SourceBody(d) \in [form : {"none", "compound", "try"},
                         stmts : Seq(Range(SourceBody(d).stmts))]
  <2>1. CASE Declared(d)
    BY <1>1, <1>2, <2>1, DtorRewriteAssumption
  <2>2. CASE ~ Declared(d)
    BY <1>3, <1>4, <2>2
  <2> QED  BY <2>1, <2>2
<1>6. Quiet(SourceBody(d).stmts)
  <2>1. CASE Declared(d)
    <3>1. IsSeq(SourceBody(d).stmts)
      BY <1>5 DEF IsSeq
    <3>2. \A j \in DOMAIN SourceBody(d).stmts : SourceBody(d).stmts[j].op # "call"
      BY <1>1, <1>2, <2>1, DtorRewriteAssumption
    <3> QED  BY <3>1, <3>2 DEF Quiet
  <2>2. CASE ~ Declared(d)
    BY <1>3, <1>4, <2>2
  <2> QED  BY <2>1, <2>2
<1>7. Declared(d) /\ Kind(d).deleted => SourceBody(d) = NoBody
  BY <1>1, <1>2, DtorRewriteAssumption
<1>8. ASSUME NEW e \in Redecls(d)
      PROVE  /\ SourceBody(d) # NoBody /\ SourceBody(e) # NoBody => d = e
             /\ Declared(d) /\ Source(d).implicit /\ Declared(e) => d = e
  <2>1. Kind(e) = Kind(d) /\ (d[2] = e[2] => d = e)
    BY DEF Redecls, Decls, Kind
  <2>2. Declared(e) => /\ SourceBody(e) = Kind(d).decls[e[2]].body
                       /\ e[2] \in DOMAIN Kind(d).decls
    BY <2>1 DEF SourceBody, Source, Declared
  <2>3. ~ Declared(e) => SourceBody(e) = NoBody
    BY DEF SourceBody
  <2>4. SourceBody(d) # NoBody /\ SourceBody(e) # NoBody => d[2] = e[2]
    BY <1>1, <1>2, <1>3, <2>2, <2>3, DtorRewriteAssumption
  <2>5. Declared(d) /\ Source(d).implicit /\ Declared(e) => e[2] = d[2]
    BY <1>1, <1>2, <2>2, DtorRewriteAssumption
  <2> QED  BY <2>1, <2>4, <2>5
<1> QED  BY <1>5, <1>6, <1>7, <1>8

(* The empty sequence is one.                                              *)
LEMMA EmptyIsSeq == IsSeq(<< >>)
<1>1. << >> \in Seq({})
  OBVIOUS
<1> QED  BY <1>1 DEF IsSeq

(* A sequence and the empty one after it.                                  *)
LEMMA ConcatEmpty == ASSUME NEW s, IsSeq(s) PROVE s \o << >> = s
<1>1. PICK S : s \in Seq(S)
  BY DEF IsSeq
<1>2. s \o << >> \in Seq(S) /\ Len(s \o << >>) = Len(s)
  BY <1>1
<1>3. \A i \in 1..Len(s) : (s \o << >>)[i] = s[i]
  BY <1>1
<1> QED  BY <1>1, <1>2, <1>3

-----------------------------------------------------------------------------
(* A body has been left alone, or it has the payload before all that it    *)
(* had; none is rewritten twice.                                           *)
RewrittenInv ==
    /\ SourceAgrees
    /\ noinline \subseteq {d \in Decls : Declared(d)}
    /\ \A d \in Decls \ noinline : body[d] = SourceBody(d)
    /\ \A d \in noinline :
           /\ d \notin dtors
           /\ SourceBody(d) # NoBody \/ Source(d).implicit
           /\ body[d].stmts = Payload(d[1]) \o SourceBody(d).stmts
    /\ phase = "parse" => noinline = {}

(* rewrite_dtor takes the body of this declaration, though it asks whether *)
(* any has one.                                                            *)
LEMMA NewBodyFacts ==
    ASSUME RewrittenInv, NEW d \in Decls \ noinline, Declared(d), ShouldRewrite(d)
    PROVE  /\ NewBody(d).stmts = Payload(d[1]) \o SourceBody(d).stmts
           /\ SourceBody(d) # NoBody \/ Source(d).implicit
<1>1. body[d] = SourceBody(d) /\ SourceAgrees
  BY DEF RewrittenInv
<1>2. ASSUME NEW e \in Redecls(d), HasBodyHere(e) PROVE e = d
  <2>1. e \in Decls /\ d \in Redecls(e) /\ (HasBodyHere(d) \/ Source(d).implicit)
    BY DEF Redecls, ShouldRewrite
  <2>2. SourceBody(e) # NoBody \/ (Source(e).implicit /\ Declared(e))
    BY <1>2, <2>1 DEF RewrittenInv, HasBodyHere, Redecls
  <2>3. Declared(e)
    BY <2>2 DEF SourceBody
  <2>4. CASE Source(d).implicit \/ Source(e).implicit
    BY <1>1, <2>1, <2>3, <2>4, SourceFacts DEF Redecls
  <2>5. CASE SourceBody(e) # NoBody /\ HasBodyHere(d)
    BY <1>1, <2>1, <2>5, SourceFacts DEF HasBodyHere
  <2> QED  BY <2>2, <2>4, <2>5 DEF ShouldRewrite
<1>3. SourceBody(d) \in [form : {"none", "compound", "try"},
                         stmts : Seq(Range(SourceBody(d).stmts))]
  BY <1>1, SourceFacts
<1>4. CASE HasBodyHere(d)
  <2>1. HasBody(d) /\ GetBody(d) = SourceBody(d)
    <3>1. d \in Redecls(d)
      BY DEF Redecls
    <3>2. (CHOOSE e \in Redecls(d) : HasBodyHere(e)) = d
      BY <1>2, <1>4, <3>1
    <3> QED  BY <1>1, <1>4, <3>1, <3>2 DEF HasBody, GetBody
  <2>2. CASE GetBody(d).form = "compound"
    <3>1. NewBody(d) = Prepend(SourceBody(d), Payload(d[1]))
      BY <2>1, <2>2 DEF NewBody
    <3> QED  BY <1>1, <1>3, <1>4, <3>1 DEF Prepend, HasBodyHere
  <2>3. CASE GetBody(d).form # "compound"
    <3>1. NewBody(d) = Join(Payload(d[1]), SourceBody(d))
      BY <2>1, <2>3 DEF NewBody
    <3>2. PICK p, b : p = Payload(d[1]) /\ b = SourceBody(d)
      OBVIOUS
    <3>3. Join(p, b).stmts = p \o b.stmts
      BY DEF Join
    <3> QED  BY <1>1, <1>4, <3>1, <3>2, <3>3 DEF HasBodyHere
  <2> QED  BY <2>2, <2>3
<1>5. CASE ~ HasBodyHere(d)
  <2>1. ~ HasBody(d) /\ SourceBody(d) = NoBody /\ Source(d).implicit
    BY <1>1, <1>2, <1>5 DEF HasBody, HasBodyHere, ShouldRewrite
  <2>2. NewBody(d) = [form |-> "compound", stmts |-> Payload(d[1])]
    BY <2>1 DEF NewBody
  <2>3. IsSeq(Payload(d[1]))
    BY EmptyIsSeq, PayloadShape
  <2>4. PICK p : p = Payload(d[1])
    OBVIOUS
  <2>5. p \o << >> = p
    BY <2>3, <2>4, ConcatEmpty
  <2>6. SourceBody(d).stmts = << >>
    BY <2>1 DEF NoBody
  <2>7. NewBody(d).stmts = p
    BY <2>2, <2>4
  <2> QED  BY <2>1, <2>4, <2>5, <2>6, <2>7
<1> QED  BY <1>4, <1>5

(* No body has been touched at the start.                                  *)
LEMMA RewrittenInit == ASSUME Init PROVE RewrittenInv
BY DEF Init, RewrittenInv, SourceAgrees

(* Every step leaves each body as it was or puts the payload before it.    *)
LEMMA RewrittenNext ==
    ASSUME KnownDecls, RewrittenInv, [Next]_vars
    PROVE  RewrittenInv'
<1>1. /\ UNCHANGED <<kind, layout>>
      /\ \A d : Source(d)' = Source(d) /\ Declared(d)' = Declared(d)
      /\ \A d : SourceBody(d)' = SourceBody(d)
      /\ \A c : Payload(c)' = Payload(c)
  <2>1. UNCHANGED <<kind, layout>>
    BY DEF Next, Parse, Rewrite, Skip, PluginFails, Emit, Traverse, LoopEnds,
           UnitEnds, Over, vars
  <2> QED  BY <2>1 DEF Source, Declared, SourceBody, Kind, Payload
<1>2. SourceAgrees'
  BY <1>1 DEF RewrittenInv, SourceAgrees
<1>3. ASSUME UNCHANGED <<body, noinline>>, dtors' \cap noinline = {},
             phase' = "parse" => phase = "parse"
      PROVE  RewrittenInv'
  BY <1>1, <1>2, <1>3 DEF RewrittenInv
<1>4. ASSUME NEW d \in Decls, Rewrite(d) PROVE RewrittenInv'
  <2>1. /\ body' = [body EXCEPT ![d] = NewBody(d)]
        /\ noinline' = noinline \cup {d} /\ dtors' = dtors \ {d}
        /\ d \in dtors /\ ShouldRewrite(d) /\ phase' = "rewrite"
    BY <1>4 DEF Rewrite
  <2>2. Declared(d) /\ d \notin noinline
    BY <2>1 DEF KnownDecls, RewrittenInv
  <2>3. /\ NewBody(d).stmts = Payload(d[1]) \o SourceBody(d).stmts
        /\ SourceBody(d) # NoBody \/ Source(d).implicit
    BY <2>1, <2>2, NewBodyFacts
  <2>4. body'[d] = NewBody(d) /\ \A e \in Decls \ {d} : body'[e] = body[e]
    BY <2>1 DEF KnownDecls
  <2>5. ASSUME NEW e \in Decls \ noinline' PROVE body'[e] = SourceBody(e)
    BY <2>1, <2>4, <2>5 DEF RewrittenInv
  <2>6. ASSUME NEW e \in noinline'
        PROVE  /\ e \notin dtors'
               /\ SourceBody(e) # NoBody \/ Source(e).implicit
               /\ body'[e].stmts = Payload(e[1]) \o SourceBody(e).stmts
    BY <2>1, <2>3, <2>4, <2>6 DEF RewrittenInv
  <2>7. noinline' \subseteq {e \in Decls : Declared(e)}
    BY <2>1, <2>2 DEF RewrittenInv
  <2> QED  BY <1>1, <1>2, <2>1, <2>5, <2>6, <2>7 DEF RewrittenInv
<1>5. ASSUME NEW d \in Decls, Parse(d) \/ Skip(d) \/ PluginFails(d) \/ Emit(d)
      PROVE  RewrittenInv'
  BY <1>3, <1>5 DEF Parse, Skip, PluginFails, Emit, RewrittenInv
<1>6. CASE Traverse
  BY <1>3, <1>6 DEF Traverse, RewrittenInv
<1>7. CASE LoopEnds \/ UnitEnds \/ Over \/ UNCHANGED vars
  BY <1>3, <1>7 DEF LoopEnds, UnitEnds, Over, vars, RewrittenInv
<1> QED  BY <1>4, <1>5, <1>6, <1>7 DEF Next

-----------------------------------------------------------------------------
(* What maybe_perform_rewrite asks, of the source.                         *)
Rewritable(d) ==
    /\ ~ Kind(d).deleted /\ ~ Kind(d).trivial /\ ~ Kind(d).pattern
    /\ SourceBody(d) # NoBody \/ Source(d).implicit

Emitting == {"emit", "done"}

(* Nothing that is to be rewritten gets past the loop, and what is deferred*)
(* is taken after it.                                                      *)
EmittedInv ==
    /\ emitted \in [Decls -> {emitted[d] : d \in Decls}]
    /\ phase \in Emitting => dtors = {}
    /\ phase \in Emitting \cup {"rewrite"} /\ prelude = "whole" =>
           \A d \in Decls :
               Declared(d) /\ Rewritable(d) => d \in dtors \/ d \in noinline
    /\ \A d \in Decls : emitted[d] # NoBody =>
           /\ Declared(d)
           /\ Source(d).eager \/ /\ phase \in Emitting /\ ~ Kind(d).pattern
                                 /\ emitted[d] = body[d]

(* Nothing has been taken at the start.                                    *)
LEMMA EmittedInit == ASSUME Init PROVE EmittedInv
BY DEF Init, EmittedInv, Emitting

(* No step takes a deferred body before the loop has ended.                *)
LEMMA EmittedNext ==
    ASSUME KnownDecls, RewrittenInv, EmittedInv, [Next]_vars
    PROVE  EmittedInv'
<1>1. /\ UNCHANGED <<kind, prelude>>
      /\ \A d : Source(d)' = Source(d) /\ Kind(d)' = Kind(d) /\ Declared(d)' = Declared(d)
      /\ \A d : Rewritable(d)' = Rewritable(d)
  <2>1. UNCHANGED <<kind, prelude>>
    BY DEF Next, Parse, Rewrite, Skip, PluginFails, Emit, Traverse, LoopEnds,
           UnitEnds, Over, vars
  <2> QED  BY <2>1 DEF Source, Declared, SourceBody, Kind, Rewritable
<1>2. ASSUME NEW d \in Decls, Parse(d) PROVE EmittedInv'
  <2>1. /\ phase = "parse" /\ UNCHANGED <<body, noinline, phase, dtors>> /\ Declared(d)
        /\ emitted' = [emitted EXCEPT ![d] = IF Source(d).eager THEN body[d] ELSE @]
    BY <1>2 DEF Parse
  <2>2. \A e \in Decls : emitted'[e] # NoBody => Declared(e) /\ Source(e).eager
    BY <2>1 DEF EmittedInv, Emitting
  <2>3. emitted' \in [Decls -> {emitted'[e] : e \in Decls}]
    BY <2>1 DEF EmittedInv
  <2> QED  BY <1>1, <2>1, <2>2, <2>3 DEF EmittedInv, Emitting
<1>3. ASSUME NEW d \in Decls, Rewrite(d) \/ Skip(d) PROVE EmittedInv'
  <2>1. /\ phase = "rewrite" /\ UNCHANGED <<phase, emitted>>
        /\ dtors' = dtors \ {d} /\ noinline \subseteq noinline'
        /\ d \in dtors
    BY <1>3 DEF Rewrite, Skip
  <2>2. prelude = "whole" /\ Rewritable(d) => d \in noinline'
    <3>1. CASE Rewrite(d)
      BY <3>1 DEF Rewrite
    <3>2. CASE Skip(d) /\ prelude = "whole"
      <4>1. d \notin noinline
        BY <2>1 DEF RewrittenInv
      <4>2. body[d] = SourceBody(d) /\ ~ ShouldRewrite(d)
        BY <3>2, <4>1 DEF RewrittenInv, Skip
      <4> QED  BY <4>2 DEF Rewritable, ShouldRewrite, HasBodyHere
    <3> QED  BY <1>3, <3>1, <3>2
  <2>3. \A e \in Decls : emitted[e] # NoBody => Declared(e) /\ Source(e).eager
    BY <2>1 DEF EmittedInv, Emitting
  <2> QED  BY <1>1, <2>1, <2>2, <2>3 DEF EmittedInv, Emitting
<1>4. ASSUME NEW d \in Decls, PluginFails(d) PROVE EmittedInv'
  BY <1>1, <1>4 DEF PluginFails, EmittedInv, Emitting
<1>5. ASSUME NEW d \in Decls, Emit(d) PROVE EmittedInv'
  <2>1. /\ phase = "emit" /\ UNCHANGED <<body, noinline, phase, dtors>>
        /\ emitted' = [emitted EXCEPT ![d] = body[d]] /\ ~ Kind(d).pattern /\ Declared(d)
    BY <1>5 DEF Emit, KnownDecls
  <2>2. \A e \in Decls : emitted'[e] # NoBody =>
            Declared(e) /\ (Source(e).eager \/ (~ Kind(e).pattern /\ emitted'[e] = body[e]))
    BY <2>1 DEF EmittedInv
  <2>3. emitted' \in [Decls -> {emitted'[e] : e \in Decls}]
    BY <2>1 DEF EmittedInv
  <2> QED  BY <1>1, <2>1, <2>2, <2>3 DEF EmittedInv, Emitting
<1>6. CASE Traverse
  <2>1. /\ phase = "parse" /\ phase' = "rewrite" /\ UNCHANGED <<body, noinline, emitted>>
        /\ dtors' = {d \in Decls : Declared(d)}
    BY <1>6 DEF Traverse, VisitCXXDestructorDecl
  <2> QED  BY <1>1, <2>1 DEF EmittedInv, Emitting
<1>7. CASE LoopEnds \/ UnitEnds \/ Over \/ UNCHANGED vars
  BY <1>1, <1>7 DEF LoopEnds, UnitEnds, Over, vars, EmittedInv, Emitting
<1> QED  BY <1>2, <1>3, <1>4, <1>5, <1>6, <1>7 DEF Next

(* A deferred body that is taken has been through the loop.                *)
LEMMA DeferredFacts ==
    ASSUME RewrittenInv, EmittedInv
    PROVE  DeferredInstrumented
<1> SUFFICES ASSUME NEW d \in Decls, prelude = "whole", ~ Kind(d).trivial,
                    emitted[d] # NoBody, ~ Source(d).eager
             PROVE  /\ d \in noinline
                    /\ \E i \in CallsIn(emitted[d]) :
                         /\ CallsIn(emitted[d]) = {i}
                         /\ SubSeq(emitted[d].stmts, i + 1, Len(emitted[d].stmts))
                              = SourceBody(d).stmts
  BY DEF DeferredInstrumented
<1>1. /\ phase \in Emitting /\ dtors = {} /\ emitted[d] = body[d] /\ Declared(d)
      /\ ~ Kind(d).pattern
  BY DEF EmittedInv
<1>2. d \in noinline
  <2> SUFFICES ASSUME d \notin noinline PROVE FALSE
    OBVIOUS
  <2>1. SourceBody(d) # NoBody
    BY <1>1 DEF RewrittenInv
  <2>2. ~ Kind(d).deleted
    BY <1>1, <2>1, SourceFacts DEF RewrittenInv
  <2>3. Rewritable(d)
    BY <1>1, <2>1, <2>2 DEF Rewritable
  <2> QED  BY <1>1, <2>3 DEF EmittedInv
<1>3. PICK b : b = body[d]
  OBVIOUS
<1>4. PICK rest : rest = SourceBody(d).stmts
  OBVIOUS
<1>5. Quiet(rest)
  BY <1>4, SourceFacts DEF RewrittenInv
<1>6. IsInstrumented(d[1], b.stmts, rest)
  <2>1. b.stmts = Payload(d[1]) \o rest
    BY <1>2, <1>3, <1>4 DEF RewrittenInv
  <2> QED  BY <1>5, <2>1, PayloadShape DEF Quiet
<1>7. CallsIn(b) = {9} /\ SubSeq(b.stmts, 9 + 1, Len(b.stmts)) = rest
  <2>1. CallsIn(b) = {9} /\ SubSeq(b.stmts, 10, Len(b.stmts)) = rest
    BY Zenon, <1>5, <1>6, OneCall
  <2>2. 9 + 1 = 10
    OBVIOUS
  <2> QED  BY <2>1, <2>2
<1> QED  BY <1>1, <1>2, <1>3, <1>4, <1>7

(* The destructors that the code generator takes after the plugin call     *)
(* save_state once and first, whatever the plugin's set of declarations    *)
(* holds besides them (rewrite_dtor).                                      *)
THEOREM PluginDeferred == Spec => []DeferredInstrumented
<1> DEFINE I == UntouchedInv /\ RewrittenInv /\ EmittedInv
<1>1. Init => I
  BY UntouchedInit, RewrittenInit, EmittedInit
<1>2. I /\ [Next]_vars => I'
  BY UntouchedNext, RewrittenNext, EmittedNext DEF UntouchedInv
<1>3. I => DeferredInstrumented
  BY DeferredFacts
<1> QED  BY <1>1, <1>2, <1>3, PTL DEF Spec

-----------------------------------------------------------------------------
(* The type data, as a reader of the struct finds them.                    *)
LEMMA DeclaredFacts ==
    ASSUME NEW c, NEW b, NEW rest, IsInstrumented(c, b.stmts, rest)
    PROVE  /\ DeclaredAs(b, 9, "TYPE_DATA") = 8
           /\ \A k \in 1..7 : DeclaredAs(b, 8, ArrayNames[k]) = k
<1>1. \A j, k \in 1..7 : ArrayNames[j] = ArrayNames[k] => j = k
  BY DEF ArrayNames
<1>2. \A k \in 1..7 : ArrayNames[k] # "TYPE_DATA"
  BY DEF ArrayNames
<1>3. /\ \A i \in 1..7 : b.stmts[i].op = "decl" /\ b.stmts[i].var = ArrayNames[i]
      /\ b.stmts[8].op = "decl" /\ b.stmts[8].var = "TYPE_DATA"
  BY DEF IsInstrumented, Decl
<1>4. ASSUME NEW i, NEW var, NEW k,
             {j \in 1 .. i - 1 : b.stmts[j].op = "decl" /\ b.stmts[j].var = var} = {k}
      PROVE  DeclaredAs(b, i, var) = k
  <2>1. Cardinality({k}) = 1 /\ (CHOOSE j \in {k} : TRUE) = k
    BY FS_Singleton
  <2> QED  BY <1>4, <2>1 DEF DeclaredAs
<1>5. {j \in 1 .. 9 - 1 : b.stmts[j].op = "decl" /\ b.stmts[j].var = "TYPE_DATA"} = {8}
  BY <1>2, <1>3
<1>6. ASSUME NEW k \in 1..7
      PROVE  {j \in 1 .. 8 - 1 : b.stmts[j].op = "decl" /\ b.stmts[j].var = ArrayNames[k]} = {k}
  BY <1>1, <1>3
<1>7. DeclaredAs(b, 9, "TYPE_DATA") = 8
  BY Zenon, <1>4, <1>5
<1>8. ASSUME NEW k \in 1..7 PROVE DeclaredAs(b, 8, ArrayNames[k]) = k
  <2>1. {j \in 1 .. 8 - 1 : b.stmts[j].op = "decl" /\ b.stmts[j].var = ArrayNames[k]} = {k}
    BY <1>6
  <2>2. PICK var : var = ArrayNames[k]
    OBVIOUS
  <2>3. DeclaredAs(b, 8, var) = k
    BY Zenon, <1>4, <2>1, <2>2
  <2> QED  BY <2>2, <2>3
<1> QED  BY <1>7, <1>8

(* A member is a value, or leads to the array of its name.                 *)
LEMMA MemberFacts ==
    ASSUME NEW c, NEW b, NEW rest, IsInstrumented(c, b.stmts, rest), NEW k \in 1..11
    PROVE  Member(b, 9, StructFields[k]) =
               LET m == InitList(c, layout[c])[k]
               IN  IF m.ref THEN b.stmts[DeclaredAs(b, 8, m.of)].init ELSE m.of
<1>1. DOMAIN StructFields = 1..11 /\ \A j \in 1..11 : StructFields[j] = StructFields[k] => j = k
  BY DEF StructFields
<1>2. Position(StructFields[k]) = k
  BY <1>1 DEF Position
<1>3. b.stmts[9].arg = "TYPE_DATA" /\ b.stmts[8].init = InitList(c, layout[c])
  BY DEF IsInstrumented, Call, Decl
<1>4. DeclaredAs(b, 9, "TYPE_DATA") = 8
  BY DeclaredFacts
<1>5. PICK n : n = StructFields[k]
  OBVIOUS
<1>6. Position(n) = k
  BY <1>2, <1>5
<1>7. Member(b, 9, n) =
          LET m == InitList(c, layout[c])[k]
          IN  IF m.ref THEN b.stmts[DeclaredAs(b, 8, m.of)].init ELSE m.of
  <2>1. DeclaredAs(b, 9, b.stmts[9].arg) = 8
    BY <1>3, <1>4
  <2>2. b.stmts[8].init[Position(n)] = InitList(c, layout[c])[k]
    BY <1>3, <1>6
  <2>3. PICK m : m = InitList(c, layout[c])[k]
    OBVIOUS
  <2>4. Member(b, 9, n) = IF m.ref THEN b.stmts[DeclaredAs(b, 8, m.of)].init ELSE m.of
    BY <2>1, <2>2, <2>3 DEF Member
  <2> QED  BY <2>3, <2>4
<1> QED  BY <1>5, <1>7

(* The quotient and the remainder of invoke_hook's offsets.                *)
LEMMA BitsToBytes ==
    ASSUME NEW x \in Nat
    PROVE  x - (x \div CharBits) * CharBits \in 0 .. CharBits - 1
BY DtorRewriteAssumption

(* What the reader of call 9 of b finds.                                   *)
ReadsLayout(b, c) ==
    LET M(name) == Member(b, 9, name)
            l == layout[c]
        IN  /\ M("size") = l.size /\ M("type") = c
            /\ M("field_count") = Len(l.fields) /\ M("base_count") = Len(l.bases)
            /\ M("field_names") = Column(l.fields, "name")
            /\ M("field_types") = Column(l.fields, "type")
            /\ M("field_sizes") = Column(l.fields, "size")
            /\ M("field_offsets") = [i \in DOMAIN l.fields |-> l.fields[i].bits \div CharBits]
            /\ M("base_types") = Column(l.bases, "type")
            /\ M("base_sizes") = Column(l.bases, "size")
            /\ M("base_offsets") = [i \in DOMAIN l.bases |-> BaseOffset(l.bases[i])]

(* Each member leads to its own column.                                    *)
LEMMA MembersDecode ==
    ASSUME NEW c, NEW b, NEW rest, IsInstrumented(c, b.stmts, rest)
    PROVE  ReadsLayout(b, c)
<1> DEFINE l == layout[c]
           init == InitList(c, l)
           M(name) == Member(b, 9, name)
<1>1. ASSUME NEW k \in 1..11, ~ init[k].ref PROVE M(StructFields[k]) = init[k].of
  BY <1>1, MemberFacts
<1>2. ASSUME NEW k \in 1..11, NEW j \in 1..7, init[k].ref, init[k].of = ArrayNames[j]
      PROVE  M(StructFields[k]) = Arrays(l)[j][2]
  <2>1. DeclaredAs(b, 8, init[k].of) = j
    BY <1>2, DeclaredFacts
  <2>2. b.stmts[j].init = Arrays(l)[j][2]
    BY DEF IsInstrumented, Decl
  <2> QED  BY <1>2, <2>1, <2>2, MemberFacts
<1>3. /\ M("size") = l.size /\ M("type") = c
      /\ M("field_count") = Len(l.fields) /\ M("base_count") = Len(l.bases)
  <2>1. /\ ~ init[1].ref /\ init[1].of = l.size /\ ~ init[2].ref /\ init[2].of = c
        /\ ~ init[3].ref /\ init[3].of = Len(l.bases)
        /\ ~ init[4].ref /\ init[4].of = Len(l.fields)
    BY DEF InitList, Value
  <2>2. /\ StructFields[1] = "size" /\ StructFields[2] = "type"
        /\ StructFields[3] = "base_count" /\ StructFields[4] = "field_count"
    BY DEF StructFields
  <2> HIDE DEF M, init
  <2>3. /\ M(StructFields[1]) = init[1].of /\ M(StructFields[2]) = init[2].of
        /\ M(StructFields[3]) = init[3].of /\ M(StructFields[4]) = init[4].of
    BY <1>1, <2>1
  <2> QED  BY <2>1, <2>2, <2>3
<1>4. \A j \in 1..7 : M(StructFields[4 + j]) = Arrays(l)[j][2]
  <2> SUFFICES ASSUME NEW j \in 1..7 PROVE M(StructFields[4 + j]) = Arrays(l)[j][2]
    OBVIOUS
  <2>1. init[4 + j].ref /\ init[4 + j].of = ArrayNames[j]
    BY DEF InitList, Address, ArrayNames
  <2>2. 4 + j \in 1..11
    OBVIOUS
  <2> QED  BY <1>2, <2>1, <2>2
<1>5. /\ StructFields[4 + 1] = "field_names" /\ StructFields[4 + 2] = "field_types"
      /\ StructFields[4 + 3] = "field_sizes" /\ StructFields[4 + 4] = "field_offsets"
      /\ StructFields[4 + 5] = "base_types" /\ StructFields[4 + 6] = "base_sizes"
      /\ StructFields[4 + 7] = "base_offsets"
  BY DEF StructFields
<1> HIDE DEF M
<1>6. /\ M("field_names") = Arrays(l)[1][2] /\ M("field_types") = Arrays(l)[2][2]
      /\ M("field_sizes") = Arrays(l)[3][2] /\ M("field_offsets") = Arrays(l)[4][2]
      /\ M("base_types") = Arrays(l)[5][2] /\ M("base_sizes") = Arrays(l)[6][2]
      /\ M("base_offsets") = Arrays(l)[7][2]
  <2>1. \A j \in 1..7 : M(StructFields[4 + j]) = Arrays(l)[j][2]
    BY <1>4
  <2> QED  BY <1>5, <2>1
<1>7. /\ Arrays(l)[1][2] = Column(l.fields, "name")
      /\ Arrays(l)[2][2] = Column(l.fields, "type")
      /\ Arrays(l)[3][2] = Column(l.fields, "size")
      /\ Arrays(l)[4][2] = [i \in DOMAIN l.fields |-> l.fields[i].bits \div CharBits]
      /\ Arrays(l)[5][2] = Column(l.bases, "type")
      /\ Arrays(l)[6][2] = Column(l.bases, "size")
      /\ Arrays(l)[7][2] = [i \in DOMAIN l.bases |-> BaseOffset(l.bases[i])]
  BY DEF Arrays
<1> QED  BY <1>3, <1>6, <1>7 DEF M, ReadsLayout

(* Every call in a body is the plugin's, and its type data can be read.    *)
LEMMA DecodeFacts == ASSUME RewrittenInv PROVE TypeDataDecodes
<1> SUFFICES ASSUME NEW d \in Decls, NEW i \in CallsIn(body[d])
             PROVE  LET M(name) == Member(body[d], i, name)
                        l == layout[d[1]]
                    IN
                    /\ M("size") = l.size /\ M("type") = d[1]
                    /\ M("field_count") = Len(l.fields) /\ M("base_count") = Len(l.bases)
                    /\ \A k \in DOMAIN l.fields :
                         /\ M("field_names")[k] = l.fields[k].name
                         /\ M("field_types")[k] = l.fields[k].type
                         /\ M("field_sizes")[k] = l.fields[k].size
                         /\ l.fields[k].bits - M("field_offsets")[k] * CharBits \in 0 .. CharBits - 1
                    /\ \A k \in DOMAIN l.bases :
                         /\ M("base_types")[k] = l.bases[k].type
                         /\ M("base_sizes")[k] = l.bases[k].size
                         /\ l.bases[k].virtual \/ M("base_offsets")[k] = l.bases[k].offset
  BY DEF TypeDataDecodes
<1>1. PICK b, c, l : b = body[d] /\ c = d[1] /\ l = layout[c]
  OBVIOUS
<1>2. PICK rest : rest = SourceBody(d).stmts
  OBVIOUS
<1>3. Quiet(rest)
  BY <1>2, SourceFacts DEF RewrittenInv
<1>4. d \in noinline
  BY <1>2, <1>3 DEF RewrittenInv, CallsIn, Quiet
<1>5. IsInstrumented(c, b.stmts, rest)
  <2>1. b.stmts = Payload(c) \o rest
    BY <1>1, <1>2, <1>4 DEF RewrittenInv
  <2> QED  BY <1>3, <2>1, PayloadShape DEF Quiet
<1>6. i = 9
  <2>1. CallsIn(b) = {9}
    BY Zenon, <1>3, <1>5, OneCall
  <2> QED  BY <1>1, <2>1
<1>7. l \in Layouts
  BY <1>1 DEF RewrittenInv, SourceAgrees, Decls
<1> DEFINE M(name) == Member(b, 9, name)
<1>8. /\ M("size") = l.size /\ M("type") = c
      /\ M("field_count") = Len(l.fields) /\ M("base_count") = Len(l.bases)
      /\ M("field_names") = Column(l.fields, "name")
      /\ M("field_types") = Column(l.fields, "type")
      /\ M("field_sizes") = Column(l.fields, "size")
      /\ M("field_offsets") = [k \in DOMAIN l.fields |-> l.fields[k].bits \div CharBits]
      /\ M("base_types") = Column(l.bases, "type")
      /\ M("base_sizes") = Column(l.bases, "size")
      /\ M("base_offsets") = [k \in DOMAIN l.bases |-> BaseOffset(l.bases[k])]
  <2>1. ReadsLayout(b, c)
    BY <1>5, MembersDecode
  <2> QED  BY <1>1, <2>1 DEF ReadsLayout
<1> HIDE DEF M
<1>9. ASSUME NEW k \in DOMAIN l.fields
      PROVE  /\ M("field_names")[k] = l.fields[k].name
             /\ M("field_types")[k] = l.fields[k].type
             /\ M("field_sizes")[k] = l.fields[k].size
             /\ l.fields[k].bits - M("field_offsets")[k] * CharBits \in 0 .. CharBits - 1
  <2>1. l.fields[k].bits \in Nat
    BY <1>7, DtorRewriteAssumption
  <2>2. M("field_offsets")[k] = l.fields[k].bits \div CharBits
    BY <1>8
  <2>3. l.fields[k].bits - M("field_offsets")[k] * CharBits \in 0 .. CharBits - 1
    BY <2>1, <2>2, BitsToBytes
  <2> QED  BY <1>8, <2>3 DEF Column
<1>10. ASSUME NEW k \in DOMAIN l.bases
       PROVE  /\ M("base_types")[k] = l.bases[k].type
              /\ M("base_sizes")[k] = l.bases[k].size
              /\ l.bases[k].virtual \/ M("base_offsets")[k] = l.bases[k].offset
  BY <1>8 DEF Column, BaseOffset
<1>11. body[d] = b /\ layout[d[1]] = l /\ d[1] = c /\ i = 9
  BY <1>1, <1>6
<1>12. \A name : Member(body[d], i, name) = M(name)
  BY <1>11 DEF M
<1> QED  BY <1>8, <1>9, <1>10, <1>11, <1>12

(* The type data passed to save_state describe the class, fields and bases *)
(* each with its own columns (invoke_hook), for any layout.                *)
THEOREM PluginTypeData == Spec => []TypeDataDecodes
<1> DEFINE I == UntouchedInv /\ RewrittenInv
<1>1. Init => I
  BY UntouchedInit, RewrittenInit
<1>2. I /\ [Next]_vars => I'
  BY UntouchedNext, RewrittenNext DEF UntouchedInv
<1>3. I => TypeDataDecodes
  BY DecodeFacts
<1> QED  BY <1>1, <1>2, <1>3, PTL DEF Spec
=============================================================================
