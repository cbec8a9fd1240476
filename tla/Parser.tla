------------------------------- MODULE Parser -------------------------------
(***************************************************************************)
(* The recursive descent parser of dsl_fhe/xcomp/parser.py.  A token is    *)
(* its text; what kind it has is which of the sets below holds it.  A node *)
(* is a tuple that starts with its tag; a name is the sequence of its      *)
(* components; None stands for what is left out.  Locations are left out.  *)
(* A parser is a record: toks (expect_gt() may change them), the position  *)
(* i, known_types, and n, what the last method returned.  i = 0 is a       *)
(* ParseError that has been raised: every method hands it on.              *)
(***************************************************************************)
EXTENDS Integers, SequencesExt

CONSTANTS
    Idents,     \* the identifiers
    Uppers,     \* those that start with an upper case letter
    Ints, Strings,  \* the literals; a float is lexed apart and parsed as an int
    Primitives, \* the primitive types
    Annots      \* the annotations, @ included

EOF == "end of file"
None == <<>>
NoName == ""
Kinds == {"reads", "writes", "reads_plaintext", "writes_plaintext"}
Units == {"bits", "bytes", "levels", "MB", "GB"}

-----------------------------------------------------------------------------
(* The tokens at hand.                                                     *)

Peek(p) == p.toks[p.i]
PeekAt(p, k) == IF p.i + k <= Len(p.toks) THEN p.toks[p.i + k] ELSE EOF
At(p, T) == p.i # 0 /\ Peek(p) \in T
Fail(p) == [p EXCEPT !.i = 0]
With(p, node) == [p EXCEPT !.n = node]

Advance(p) ==
    IF p.i = 0 THEN p
    ELSE [p EXCEPT !.i = IF @ < Len(p.toks) THEN @ + 1 ELSE @, !.n = Peek(p)]

Expect(p, T) == IF At(p, T) THEN Advance(p) ELSE Fail(p)
Match(p, T) == IF At(p, T) THEN Advance(p) ELSE p

(* >> closes two lists of type arguments: the second > becomes a token.    *)
ExpectGt(p) ==
    IF At(p, {">>"}) THEN [Advance(p) EXCEPT !.toks = InsertAt(@, p.i + 1, ">")]
    ELSE Expect(p, {">"})

(* The method that parses rule, defined at the end.                        *)
RECURSIVE P(_, _)

(* Elements separated by commas, a last comma allowed, up to close.        *)
RECURSIVE Elements(_, _, _, _)
Elements(p, rule, close, found) ==
    IF At(p, {close}) \/ p.i = 0 THEN With(p, found)
    ELSE LET e == P(p, rule)
         IN  IF At(e, {","}) THEN Elements(Advance(e), rule, close, Append(found, e.n))
             ELSE With(e, Append(found, e.n))

Items(p, rule, close) ==
    LET es == Elements(p, rule, close, <<>>) IN With(Expect(es, {close}), es.n)

(* Elements without separators up to close.                                *)
RECURSIVE Until(_, _, _, _)
Until(p, rule, close, found) ==
    IF At(p, {close}) \/ p.i = 0 THEN With(Expect(p, {close}), found)
    ELSE LET e == P(p, rule) IN Until(e, rule, close, Append(found, e.n))

RECURSIVE Components(_, _)
Components(p, name) ==
    IF At(p, {"::"}) /\ PeekAt(p, 1) \in Idents
    THEN Components(Advance(Advance(p)), Append(name, PeekAt(p, 1))) ELSE With(p, name)

QualifiedName(p) == LET q == Expect(p, Idents) IN Components(q, <<q.n>>)
IsUpper(name) == name[Len(name)] \in Uppers

-----------------------------------------------------------------------------
(* Types.                                                                  *)

EncType(p) == LET e == P(Expect(p, {"<"}), "type") IN With(ExpectGt(e), <<"enc", e.n>>)

VecType(p) ==
    LET e == P(Expect(p, {"<"}), "type")
        size == IF At(e, {","}) THEN P(Advance(e), "expr") ELSE With(e, None)
    IN  With(ExpectGt(size), <<"vec", e.n, size.n>>)

MatType(p) ==
    LET e == P(Expect(p, {"<"}), "type")
        q == ExpectGt(e)
        rows == P(Advance(q), "expr")
        cols == P(Expect(rows, {","}), "expr")
    IN  IF At(q, {"["}) THEN With(Expect(cols, {"]"}), <<"mat", e.n, rows.n, cols.n>>)
        ELSE With(q, <<"mat", e.n, None, None>>)

FnType(p) ==
    LET ps == Items(Expect(p, {"("}), "type", ")")
        r == P(Expect(ps, {"->"}), "type")
    IN  With(r, <<"fn type", ps.n, r.n>>)

TupleType(p) == LET es == Items(p, "type", ")") IN With(es, <<"tuple", es.n>>)

NamedType(p) ==
    LET name == QualifiedName(p)
        sub == Expect(Advance(name), Idents)
    IN  IF At(name, {"."}) THEN With(sub, <<"named", name.n, sub.n>>)
        ELSE With(name, <<"named", name.n, NoName>>)

Type(p) ==
    CASE At(p, Primitives) -> With(Advance(p), <<"prim", Peek(p)>>)
      [] At(p, {"enc"}) -> EncType(Advance(p))
      [] At(p, {"vec"}) -> VecType(Advance(p))
      [] At(p, {"mat"}) -> MatType(Advance(p))
      [] At(p, {"fn"}) -> FnType(Advance(p))
      [] At(p, {"("}) -> TupleType(Advance(p))
      [] At(p, Idents) -> NamedType(p)
      [] OTHER -> Fail(p)

-----------------------------------------------------------------------------
(* Expressions with an operator, lowest precedence first.                  *)

RECURSIVE Pipes(_)
Pipes(p) ==
    LET right == P(Advance(p), "range")
        cast == P(Advance(Advance(p)), "type")
    IN  IF ~At(p, {"|>"}) THEN p
        ELSE IF PeekAt(p, 1) = "as" THEN Pipes(With(cast, <<"cast", p.n, cast.n>>))
        ELSE Pipes(With(right, <<"pipe", p.n, right.n>>))

RangeExpr(p) ==
    LET left == P(p, "or")
        right == P(Advance(left), "or")
    IN  IF At(left, {"..", "..="}) THEN With(right, <<"range", Peek(left), left.n, right.n>>)
        ELSE left

Bin(left, right) == With(right, <<"bin", Peek(left), left.n, right.n>>)

(* A level whose operators associate to the left.                          *)
RECURSIVE Chain(_, _, _)
Chain(left, ops, next) ==
    IF At(left, ops) THEN Chain(Bin(left, P(Advance(left), next)), ops, next) ELSE left

(* A level whose operators do not associate.                               *)
Once(left, ops, next) == IF At(left, ops) THEN Bin(left, P(Advance(left), next)) ELSE left

\* The bug of letting ^ associate to the left.
BugPow(p) == Chain(P(p, "unary"), {"^"}, "unary")

Pow(p) == Once(P(p, "unary"), {"^"}, "pow")

Unary(p) ==
    LET operand == P(Advance(p), "unary")
    IN  IF At(p, {"-", "!"}) THEN With(operand, <<"un", Peek(p), operand.n>>) ELSE P(p, "cast")

Cast(p) ==
    LET e == P(p, "postfix")
        t == P(Advance(e), "type")
    IN  IF At(e, {"as"}) THEN With(t, <<"cast", e.n, t.n>>) ELSE e

(* <T> between a name and (: None if it is not one.  The position is then  *)
(* restored, but not a >> that has become >> >.                            *)
Turbofish(p) ==
    LET t == P(Advance(p), "type")
        q == ExpectGt(t)
    IN  IF /\ PeekAt(p, 1) \in Primitives \cup Idents \cup {"enc", "vec", "mat"}
           /\ At(q, {"("})
        THEN With(q, t.n) ELSE [p EXCEPT !.toks = q.toks, !.n = None]

Subscript(p) ==
    LET idx == P(p, "expr")
        col == P(Advance(idx), "expr")
        first == IF idx.n # None /\ idx.n[1] = "range" THEN <<"slice", p.n, idx.n[3], idx.n[4]>>
                 ELSE <<"index", p.n, idx.n>>
    IN  IF At(idx, {","}) THEN With(Expect(col, {"]"}), <<"index", first, col.n>>)
        ELSE With(Expect(idx, {"]"}), first)

RECURSIVE Postfix(_)
Postfix(p) ==
    LET name == Expect(Advance(p), Idents)
        method == Items(Advance(name), "arg", ")")
        call == Items(Advance(p), "arg", ")")
        fish == Turbofish(p)
        typed == Items(Advance(fish), "arg", ")")
    IN  CASE At(p, {"."}) ->
                Postfix(IF At(name, {"("}) THEN With(method, <<"method", p.n, name.n, method.n>>)
                        ELSE With(name, <<"field", p.n, name.n>>))
          [] At(p, {"["}) -> Postfix(Subscript([p EXCEPT !.i = @ + 1]))
          [] At(p, {"<"}) /\ p.n[1] = "id" ->
                IF fish.n = None THEN With(fish, p.n)
                ELSE Postfix(With(typed, <<"call", p.n, typed.n, fish.n>>))
          [] At(p, {"("}) -> Postfix(With(call, <<"call", p.n, call.n, None>>))
          [] OTHER -> p

-----------------------------------------------------------------------------
(* Primary expressions.                                                    *)

Group(p) ==
    LET e == P(p, "expr")
        es == Elements(Advance(e), "expr", ")", <<e.n>>)
    IN  IF At(e, {","}) THEN With(Expect(es, {")"}), <<"array", es.n>>)
        ELSE With(Expect(e, {")"}), e.n)

FieldInit(p) ==
    LET name == Expect(p, Idents)
        value == P(Advance(name), "expr")
    IN  IF At(name, {":"}) THEN With(value, <<name.n, value.n>>)
        ELSE With(name, <<name.n, None>>)

(* Whether the { behind the name q.n opens a struct literal.               *)
IsStruct(q) ==
    /\ At(q, {"{"})
    /\ \/ q.n \in q.known
       \/ /\ IsUpper(q.n)
          /\ PeekAt(q, 1) \in Idents /\ PeekAt(q, 2) \in {":", ",", "}"}

NameOrStruct(p) ==
    LET q == QualifiedName(p)
        fields == Items(Advance(q), "field init", "}")
    IN  IF IsStruct(q) THEN With(fields, <<"struct", q.n, fields.n>>)
        ELSE With(q, <<"id", q.n>>)

ClosureParam(p) ==
    LET name == Expect(p, Idents)
        t == P(Advance(name), "type")
    IN  IF At(name, {":"}) THEN With(t, <<name.n, t.n>>) ELSE With(name, <<name.n, None>>)

Closure(p) ==
    LET ps == Items(p, "closure param", "|")
        body == P(ps, IF At(ps, {"{"}) THEN "block" ELSE "expr")
    IN  With(body, <<"closure", ps.n, body.n>>)

Primary(p) ==
    LET array == Items(Advance(p), "expr", "]")
    IN  CASE At(p, {"+", "-", "*"}) /\ PeekAt(p, 1) \in {",", ")"} ->
                With(Advance(p), <<"id", <<"op", Peek(p)>> >>)
          [] At(p, Ints \cup Strings \cup {"true", "false"}) -> With(Advance(p), <<"lit", Peek(p)>>)
          [] At(p, {"scheme", "wire", "domain"}) -> With(Advance(p), <<"id", <<Peek(p)>> >>)
          [] At(p, {"|"}) -> Closure(Advance(p))
          [] At(p, {"["}) -> With(array, <<"array", array.n>>)
          [] At(p, {"("}) -> Group(Advance(p))
          [] At(p, {"for"}) -> P(p, "for expr")
          [] At(p, {"if"}) -> P(p, "if expr")
          [] At(p, {"match"}) -> P(p, "match expr")
          [] At(p, Idents) -> NameOrStruct(p)
          [] OTHER -> Fail(p)

Arg(p) ==
    LET named == P(Advance(Advance(p)), "expr")
        value == P(p, "expr")
    IN  IF At(p, Idents \cup {"domain", "scheme", "wire"}) /\ PeekAt(p, 1) = ":"
        THEN With(named, <<Peek(p), named.n>>) ELSE With(value, <<NoName, value.n>>)

-----------------------------------------------------------------------------
(* Control flow, as a statement or as an expression; rule says which.      *)

If(p, rule) ==
    LET cond == P(Advance(p), "expr")
        yes == P(cond, "block")
        no == P(Advance(yes), IF PeekAt(yes, 1) = "if" THEN rule ELSE "block")
    IN  IF At(yes, {"else"}) THEN With(no, <<rule, cond.n, yes.n, no.n>>)
        ELSE IF rule = "if expr" THEN Fail(yes)
        ELSE With(yes, <<rule, cond.n, yes.n, None>>)

ForPattern(p) ==
    LET first == Expect(Advance(p), Idents)
        second == Expect(Expect(first, {","}), Idents)
        one == Expect(p, Idents)
    IN  IF At(p, {"("}) THEN With(Expect(second, {")"}), <<first.n, second.n>>)
        ELSE With(one, <<one.n>>)

For(p, rule) ==
    LET names == ForPattern(Advance(p))
        range == P(Expect(names, {"in"}), "expr")
        body == P(range, "block")
    IN  With(body, <<rule, names.n, range.n, body.n>>)

FieldPattern(p) ==
    LET name == Expect(p, Idents)
        pat == P(Advance(name), "pattern")
    IN  IF At(name, {":"}) THEN With(pat, <<name.n, pat.n>>) ELSE With(name, <<name.n, None>>)

Pattern(p) ==
    LET name == QualifiedName(p)
        fields == Items(Advance(name), "field pattern", "}")
    IN  IF At(p, Ints \cup Strings) THEN With(Advance(p), <<"lit pattern", Peek(p)>>)
        ELSE IF name.i # 0 /\ name.n = <<"_">> THEN With(name, <<"wildcard">>)
        ELSE IF At(name, {"{"}) THEN With(fields, <<"struct pattern", name.n, fields.n>>)
        ELSE With(name, <<"id pattern", name.n>>)

MatchArm(p) ==
    LET pat == P(p, "pattern")
        q == Expect(pat, {"=>"})
        body == P(q, IF At(q, {"{"}) THEN "block"
                     ELSE IF At(q, {"return"}) THEN "return" ELSE "expr")
    IN  With(Match(body, {","}), <<pat.n, body.n>>)

MatchOn(p, rule) ==
    LET subject == P(Advance(p), "expr")
        arms == Until(Expect(subject, {"{"}), "match arm", "}", <<>>)
    IN  With(arms, <<rule, subject.n, arms.n>>)

-----------------------------------------------------------------------------
(* Statements.                                                             *)

Block(p) ==
    LET ss == Until(Expect(p, {"{"}), "statement", "}", <<>>)
    IN  With(ss, <<"block", ss.n>>)

RECURSIVE LetNames(_, _)
LetNames(p, found) ==
    LET name == Expect(p, Idents)
    IN  IF At(name, {","}) THEN LetNames(Advance(name), Append(found, name.n))
        ELSE With(name, Append(found, name.n))

Let(p) ==
    LET names == LetNames(Advance(p), <<>>)
        all == P(Expect(Expect(names, {")"}), {"="}), "expr")
        name == Expect(p, Idents)
        t == IF At(name, {":"}) THEN P(Advance(name), "type") ELSE With(name, None)
        value == P(Expect(t, {"="}), "expr")
    IN  IF At(p, {"("}) THEN With(all, <<"let tuple", names.n, all.n>>)
        ELSE With(value, <<"let", name.n, t.n, value.n>>)

Return(p) ==
    LET value == P(Advance(p), "expr")
    IN  IF PeekAt(p, 1) = "}" THEN With(Advance(p), <<"return", None>>)
        ELSE With(value, <<"return", value.n>>)

AssertStmt(p) ==
    LET cond == P(Advance(p), "expr")
        text == Expect(Advance(cond), Strings)
    IN  IF At(cond, {","}) THEN With(text, <<"assert", cond.n, text.n>>)
        ELSE With(cond, <<"assert", cond.n, NoName>>)

ExprOrAssign(p) ==
    LET e == P(p, "expr")
        value == P(Advance(e), "expr")
    IN  IF At(e, {"="}) THEN With(value, <<"assign", e.n, value.n>>)
        ELSE With(e, <<"expr", e.n>>)

Statement(p) ==
    CASE At(p, {"let"}) -> Let(Advance(p))
      [] At(p, {"return"}) -> Return(p)
      [] At(p, {"assert"}) -> AssertStmt(p)
      [] At(p, {"if"}) -> If(p, "if")
      [] At(p, {"for"}) -> For(p, "for")
      [] At(p, {"match"}) -> MatchOn(p, "match")
      [] OTHER -> ExprOrAssign(p)

-----------------------------------------------------------------------------
(* Declarations.                                                           *)

Field(p) ==
    LET name == Expect(p, Idents)
        t == P(Expect(name, {":"}), "type")
    IN  With(t, <<name.n, t.n>>)

Known(p, name) == [p EXCEPT !.known = @ \cup {<<name>>}]

(* enum, struct and wire declare a type: what follows may be its literal.  *)
TypeDecl(p) ==
    LET name == Expect(Advance(p), Idents)
        q == Expect(Known(name, name.n), {"{"})
        body == Items(q, IF At(p, {"enum"}) THEN "name" ELSE "field", "}")
    IN  IF name.i = 0 THEN name ELSE With(body, <<Peek(p), name.n, body.n>>)

Name(p) == Expect(p, Idents)

ConstDecl(p) ==
    LET name == Expect(Advance(p), Idents)
        t == P(Expect(name, {":"}), "type")
        value == P(Expect(t, {"="}), "expr")
    IN  With(value, <<"const", name.n, t.n, value.n>>)

ExternDecl(p) ==
    LET name == Expect(Advance(p), Idents)
        source == Expect(Expect(name, {"from"}), Strings)
    IN  With(source, <<"extern", name.n, source.n>>)

(* The path of a use, and whether it ends in ::*.                          *)
RECURSIVE UsePath(_, _)
UsePath(p, path) ==
    LET q == Expect(Advance(p), Idents)
    IN  IF ~At(p, {"::"}) THEN With(p, <<path, FALSE>>)
        ELSE IF PeekAt(p, 1) = "*" THEN With(Advance(Advance(p)), <<path, TRUE>>)
        ELSE UsePath(q, Append(path, q.n))

UseDecl(p) ==
    LET first == Expect(Advance(p), Idents)
        q == UsePath(first, <<first.n>>)
        path == q.n[1]
    IN  IF q.n[2] THEN With(q, <<"use", path, "*", TRUE>>)
        ELSE IF Len(path) > 1 THEN With(q, <<"use", Front(path), Last(path), TRUE>>)
        ELSE With(q, <<"use", path, "*", FALSE>>)

(* 128-classic and uniform-ternary are one value, and so is 42 bits.       *)
SchemeField(p) ==
    LET key == Expect(p, Idents)
        q == Expect(key, {":"})
        v == Expect(q, {"auto"} \cup Ints \cup Idents \cup Primitives)
        word == Advance(Advance(v))
        unit == Advance(v)
    IN  IF At(q, {"auto"}) THEN With(v, <<key.n, <<"auto">> >>)
        ELSE IF At(v, {"-"}) THEN With(word, <<key.n, <<v.n, "-", word.n>> >>)
        ELSE IF At(q, Ints) /\ At(v, Idents \cap Units) THEN With(unit, <<key.n, <<v.n, unit.n>> >>)
        ELSE With(v, <<key.n, <<v.n>> >>)

SchemeDecl(p) ==
    LET name == Expect(Advance(p), Idents)
        fields == Until(Expect(name, {"{"}), "scheme field", "}", <<>>)
    IN  With(fields, <<"scheme", name.n, fields.n>>)

Capability(p) ==
    LET name == Expect(p, Idents)
        arg == P(Advance(name), "expr")
    IN  IF At(name, {"("}) THEN With(Expect(arg, {")"}), <<name.n, arg.n>>)
        ELSE With(name, <<name.n, None>>)

RequiresDecl(p) ==
    LET caps == Items(Expect(Advance(p), {"{"}), "capability", "}")
    IN  With(caps, <<"requires", caps.n>>)

RECURSIVE IdentList(_, _)
IdentList(p, found) ==
    LET name == Expect(p, Idents)
        names == Append(found, name.n)
    IN  IF ~At(name, {","}) THEN With(name, names)
        ELSE IF PeekAt(name, 1) = "}" THEN With(Advance(name), names)
        ELSE IdentList(Advance(name), names)

DomainClause(p) ==
    LET items == IdentList(Expect(Expect(p, {"has", "can", "cannot"}), {":"}), <<>>)
    IN  With(items, <<Peek(p), items.n>>)

DomainDecl(p) ==
    LET name == Expect(Advance(p), Idents)
        clauses == Until(Expect(name, {"{"}), "domain clause", "}", <<>>)
    IN  With(clauses, <<"domain", name.n, clauses.n>>)

-----------------------------------------------------------------------------
(* Functions.                                                              *)

AnnotationValue(p) ==
    LET texts == Items(Advance(p), "text", "]")
        one == Expect(p, Strings \cup Idents \cup {"true", "false"})
    IN  IF At(p, {"["}) THEN With(texts, <<"list", texts.n>>) ELSE With(one, <<"one", one.n>>)

(* An argument and its key, NoName if it has none.                         *)
AnnotationArg(p) ==
    LET named == At(p, Idents) /\ PeekAt(p, 1) = ":"
        value == AnnotationValue(IF named THEN Advance(Advance(p)) ELSE p)
    IN  With(value, <<IF named THEN Peek(p) ELSE NoName, value.n>>)

Annotation(p) ==
    LET q == Expect(p, Annots)
        args == IF At(q, {"("}) THEN Items(Advance(q), "annotation arg", ")") ELSE With(q, <<>>)
        a == args.n
    IN  With(args, <<q.n, IF Len(a) = 1 /\ a[1][1] = NoName THEN << <<"name", a[1][2]>> >> ELSE a>>)

RECURSIVE Annotations(_, _)
Annotations(p, found) ==
    LET a == Annotation(p)
    IN  IF At(p, Annots) THEN Annotations(a, Append(found, a.n)) ELSE With(p, found)

Param(p) ==
    LET f == Field(p)
        default == P(Advance(f), "expr")
    IN  IF At(f, {"="}) THEN With(default, Append(f.n, default.n)) ELSE With(f, Append(f.n, None))

(* A type with an optional index, or the expression of a path.             *)
IoType(p) ==
    LET name == QualifiedName(p)
        idx == P(Advance(name), "expr")
        path == P(p, "expr")
    IN  IF name.i # 0 /\ IsUpper(name.n) /\ ~At(name, {"("})
        THEN IF ~At(name, {"["}) THEN With(name, <<"io type", name.n, None>>)
             ELSE IF PeekAt(name, 1) = "*"
             THEN With(Expect(Advance(Advance(name)), {"]"}), <<"io type", name.n, <<"id", <<"*">> >> >>)
             ELSE With(Expect(idx, {"]"}), <<"io type", name.n, idx.n>>)
        ELSE With(path, <<"io path", path.n>>)

RECURSIVE IoSpecs(_, _)
IoSpecs(p, found) ==
    LET ts == Items(Expect(Advance(p), {"("}), "io type", ")")
    IN  IF At(p, Kinds) THEN IoSpecs(Match(ts, {","}), Append(found, <<Peek(p), ts.n>>))
        ELSE With(p, found)

FnDecl(p) ==
    LET as == Annotations(p, <<>>)
        name == Expect(Expect(as, {"fn"}), Idents)
        ps == Items(Expect(name, {"("}), "param", ")")
        io == IF At(ps, {"->"}) /\ PeekAt(ps, 1) \in Kinds THEN IoSpecs(Advance(ps), <<>>)
              ELSE With(ps, <<>>)
        r == IF At(io, {"->"}) THEN P(Advance(io), "type") ELSE With(io, None)
        body == P(r, "block")
    IN  With(body, <<"fn", as.n, name.n, ps.n, r.n, io.n, body.n>>)

TopLevelItem(p) ==
    CASE At(p, {"use"}) -> UseDecl(p)
      [] At(p, {"const"}) -> ConstDecl(p)
      [] At(p, {"enum", "struct", "wire"}) -> TypeDecl(p)
      [] At(p, {"scheme"}) -> SchemeDecl(p)
      [] At(p, {"requires"}) -> RequiresDecl(p)
      [] At(p, {"domain"}) -> DomainDecl(p)
      [] At(p, {"extern"}) -> ExternDecl(p)
      [] At(p, Annots \cup {"fn"}) -> FnDecl(p)
      [] OTHER -> Fail(p)

(* The items up to the end; p.n is the module's name and the items so far. *)
ProgramFrom(p) ==
    LET name == Expect(Advance(p), Idents)
        item == P(p, "item")
    IN  IF At(p, {EOF}) THEN p
        ELSE IF At(p, {"module"})
        THEN IF name.i = 0 \/ p.n[1] \notin {NoName, name.n} THEN Fail(p)
             ELSE P(With(name, <<name.n, p.n[2]>>), "program")
        ELSE P(With(item, <<p.n[1], Append(p.n[2], item.n)>>), "program")

-----------------------------------------------------------------------------
P(p, rule) ==
    CASE p.i = 0 -> p
      [] rule = "program" -> ProgramFrom(p)
      [] rule = "item" -> TopLevelItem(p)
      [] rule = "expr" -> Pipes(P(p, "range"))
      [] rule = "range" -> RangeExpr(p)
      [] rule = "or" -> Chain(P(p, "and"), {"||"}, "and")
      [] rule = "and" -> Chain(P(p, "eq"), {"&&"}, "eq")
      [] rule = "eq" -> Once(P(p, "cmp"), {"==", "!=", "~="}, "cmp")
      [] rule = "cmp" -> Once(P(p, "shift"), {"<", ">", "<=", ">="}, "add")
      [] rule = "shift" -> Chain(P(p, "add"), {"<<", ">>"}, "add")
      [] rule = "add" -> Chain(P(p, "mul"), {"+", "-"}, "mul")
      [] rule = "mul" -> Chain(P(p, "pow"), {"*", "/", "%", "*_norelin"}, "pow")
      [] rule = "pow" -> Pow(p)
      [] rule = "unary" -> Unary(p)
      [] rule = "cast" -> Cast(p)
      [] rule = "postfix" -> Postfix(Primary(p))
      [] rule = "type" -> Type(p)
      [] rule = "arg" -> Arg(p)
      [] rule = "field init" -> FieldInit(p)
      [] rule = "closure param" -> ClosureParam(p)
      [] rule \in {"if", "if expr"} -> If(p, rule)
      [] rule \in {"for", "for expr"} -> For(p, rule)
      [] rule \in {"match", "match expr"} -> MatchOn(p, rule)
      [] rule = "match arm" -> MatchArm(p)
      [] rule = "pattern" -> Pattern(p)
      [] rule = "field pattern" -> FieldPattern(p)
      [] rule = "block" -> Block(p)
      [] rule = "statement" -> Statement(p)
      [] rule = "return" -> Return(p)
      [] rule = "name" -> Name(p)
      [] rule = "field" -> Field(p)
      [] rule = "text" -> Expect(p, Strings)
      [] rule = "scheme field" -> SchemeField(p)
      [] rule = "capability" -> Capability(p)
      [] rule = "domain clause" -> DomainClause(p)
      [] rule = "annotation arg" -> AnnotationArg(p)
      [] rule = "param" -> Param(p)
      [] rule = "io type" -> IoType(p)

Start(toks, known, node) == [toks |-> Append(toks, EOF), i |-> 1, known |-> known, n |-> node]

(* parse(): <<tree>>, or <<>> for a ParseError.                            *)
Tree(p) == IF p.i = 0 THEN <<>> ELSE <<p.n>>
Parse(toks, known) == Tree(P(Start(toks, known, <<NoName, <<>> >>), "program"))
=============================================================================
