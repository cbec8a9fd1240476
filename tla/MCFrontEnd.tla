----------------------------- MODULE MCFrontEnd -----------------------------
(***************************************************************************)
(* The front end of the compiler on many small inputs: texts for the       *)
(* lexer and programs for the parser, both up to a size.  First, as the    *)
(* parser's reference, the grammar of nb (GRAMMAR.md 3) as a printer: the  *)
(* tokens of a tree, with parentheses only where the table of precedences  *)
(* asks for them.  The parser is right when it reads every tree back from  *)
(* its tokens.                                                             *)
(***************************************************************************)
EXTENDS Parser

Levels == << {}, {}, {"||"}, {"&&"}, {"==", "!=", "~="}, {"<", ">", "<=", ">="},
             {"<<", ">>"}, {"+", "-"}, {"*", "/", "%", "*_norelin"}, {"^"} >>

LevelOf(op) == CHOOSE k \in DOMAIN Levels : op \in Levels[k]

(* The level of a tree: 0 for a closure, which takes all that follows.     *)
Level(n) ==
    CASE n[1] = "closure" -> 0
      [] n[1] = "pipe" -> 1
      [] n[1] = "range" -> 2
      [] n[1] = "bin" -> LevelOf(n[2])
      [] n[1] = "un" -> 11
      [] n[1] = "cast" -> 12
      [] OTHER -> 13

(* What the operands of a binary operator must be at least: = and < do not *)
(* associate, ^ associates to the right, the others to the left.           *)
LeftOf(k) == IF k \in {5, 6, 10} THEN k + 1 ELSE k
RightOf(k) == IF k = 6 THEN 8 ELSE IF k = 10 THEN 10 ELSE k + 1

Commas(ts) ==
    FlattenSeq([k \in DOMAIN ts |-> IF k = 1 THEN ts[k] ELSE <<",">> \o ts[k]])

In(open, ts, close) == <<open>> \o ts \o <<close>>

(* ts and a closing >; two > in a row are one token for the lexer.         *)
Close(ts) == IF Last(ts) = ">" THEN Append(Front(ts), ">>") ELSE Append(ts, ">")

Dotted(name) == FlattenSeq([k \in DOMAIN name |-> IF k = 1 THEN <<name[k]>> ELSE <<"::", name[k]>>])

RECURSIVE Show(_), Type1(_)

Shown(n, level) == IF Level(n) >= level THEN Show(n) ELSE In("(", Show(n), ")")
List(ns, F(_)) == Commas([k \in DOMAIN ns |-> F(ns[k])])
Opt(before, n) == IF n = None THEN <<>> ELSE <<before>> \o Show(n)

Type1(t) ==
    CASE t[1] = "prim" -> <<t[2]>>
      [] t[1] = "enc" -> Close(<<"enc", "<">> \o Type1(t[2]))
      [] t[1] = "vec" -> Close(<<"vec", "<">> \o Type1(t[2]) \o Opt(",", t[3]))
      [] t[1] = "mat" -> Close(<<"mat", "<">> \o Type1(t[2])) \o
                         (IF t[3] = None THEN <<>> ELSE In("[", List(<<t[3], t[4]>>, Show), "]"))
      [] t[1] = "fn type" -> <<"fn">> \o In("(", List(t[2], Type1), ")") \o <<"->">> \o Type1(t[3])
      [] t[1] = "tuple" -> In("(", List(t[2], Type1), ")")
      [] t[1] = "named" -> Dotted(t[2]) \o (IF t[3] = NoName THEN <<>> ELSE <<".", t[3]>>)

Named(f) == IF f[1] = NoName THEN Show(f[2]) ELSE <<f[1], ":">> \o Show(f[2])
FieldOf(f) == <<f[1]>> \o Opt(":", f[2])
Typed(f) == <<f[1]>> \o (IF f[2] = None THEN <<>> ELSE <<":">> \o Type1(f[2]))
Arm(a) == Show(a[1]) \o <<"=>">> \o Show(a[2]) \o <<",">>
Names(ns) == IF Len(ns) = 1 THEN ns ELSE In("(", List(ns, LAMBDA x : <<x>>), ")")
Condition(c) == Shown(c, 1)

Expr(n) ==
    CASE n[1] = "lit" -> <<n[2]>>
      [] n[1] = "id" -> IF n[2][1] = "op" THEN <<n[2][2]>> ELSE Dotted(n[2])
      [] n[1] = "pipe" -> Shown(n[2], 1) \o <<"|>">> \o Shown(n[3], 2)
      [] n[1] = "range" -> Shown(n[3], 3) \o <<n[2]>> \o Shown(n[4], 3)
      [] n[1] = "bin" -> LET k == LevelOf(n[2])
                         IN  Shown(n[3], LeftOf(k)) \o <<n[2]>> \o Shown(n[4], RightOf(k))
      [] n[1] = "un" -> <<n[2]>> \o Shown(n[3], 11)
      [] n[1] = "cast" -> Shown(n[2], 13) \o <<"as">> \o Type1(n[3])
      [] n[1] = "field" -> Shown(n[2], 13) \o <<".", n[3]>>
      [] n[1] = "method" -> Shown(n[2], 13) \o <<".", n[3]>> \o In("(", List(n[4], Named), ")")
      [] n[1] = "index" -> Shown(n[2], 13) \o In("[", Show(n[3]), "]")
      [] n[1] = "slice" -> Shown(n[2], 13) \o In("[", Shown(n[3], 3) \o <<"..">> \o Shown(n[4], 3), "]")
      [] n[1] = "call" -> Shown(n[2], IF n[2][1] = "field" THEN 14 ELSE 13) \o
                          (IF n[4] = None THEN <<>> ELSE Close(<<"<">> \o Type1(n[4]))) \o
                          In("(", List(n[3], Named), ")")
      [] n[1] = "closure" -> In("|", List(n[2], Typed), "|") \o Show(n[3])
      [] n[1] = "array" -> In("[", List(n[2], Show), "]")
      [] n[1] = "struct" -> Dotted(n[2]) \o In("{", List(n[3], FieldOf), "}")
      [] n[1] = "if expr" -> <<"if">> \o Condition(n[2]) \o Show(n[3]) \o <<"else">> \o Show(n[4])
      [] n[1] = "for expr" -> <<"for">> \o Names(n[2]) \o <<"in">> \o Condition(n[3]) \o Show(n[4])
      [] n[1] = "match expr" -> <<"match">> \o Condition(n[2]) \o
                                In("{", FlattenSeq([k \in DOMAIN n[3] |-> Arm(n[3][k])]), "}")

Stmt(n) ==
    CASE n[1] = "let" -> <<"let">> \o Typed(<<n[2], n[3]>>) \o <<"=">> \o Show(n[4])
      [] n[1] = "let tuple" -> <<"let">> \o Names(n[2]) \o <<"=">> \o Show(n[3])
      [] n[1] = "return" -> <<"return">> \o (IF n[2] = None THEN <<>> ELSE Show(n[2]))
      [] n[1] = "assert" -> <<"assert">> \o Show(n[2]) \o (IF n[3] = NoName THEN <<>> ELSE <<",", n[3]>>)
      [] n[1] = "assign" -> Show(n[2]) \o <<"=">> \o Show(n[3])
      [] n[1] = "expr" -> IF Show(n[2])[1] \in {"if", "for", "match"} THEN In("(", Show(n[2]), ")")
                          ELSE Show(n[2])
      [] n[1] = "if" -> <<"if">> \o Condition(n[2]) \o Show(n[3]) \o Opt("else", n[4])
      [] n[1] = "for" -> <<"for">> \o Names(n[2]) \o <<"in">> \o Condition(n[3]) \o Show(n[4])
      [] n[1] = "match" -> <<"match">> \o Condition(n[2]) \o
                           In("{", FlattenSeq([k \in DOMAIN n[3] |-> Arm(n[3][k])]), "}")
      [] n[1] = "block" -> In("{", FlattenSeq([k \in DOMAIN n[2] |-> Show(n[2][k])]), "}")

Pat(n) ==
    CASE n[1] = "lit pattern" -> <<n[2]>>
      [] n[1] = "wildcard" -> <<"_">>
      [] n[1] = "id pattern" -> Dotted(n[2])
      [] n[1] = "struct pattern" -> Dotted(n[2]) \o In("{", List(n[3], FieldOf), "}")

Io(t) == IF t[1] = "io path" THEN Show(t[2])
         ELSE Dotted(t[2]) \o (IF t[3] = None THEN <<>>
                               ELSE In("[", IF t[3] = <<"id", <<"*">> >> THEN <<"*">> ELSE Show(t[3]), "]"))

ValueOf(v) == IF v[1] = "one" THEN <<v[2]>> ELSE In("[", List(v[2], LAMBDA x : <<x>>), "]")

Decl(n) ==
    CASE n[1] = "const" -> <<"const">> \o Typed(<<n[2], n[3]>>) \o <<"=">> \o Show(n[4])
      [] n[1] = "extern" -> <<"extern", n[2], "from", n[3]>>
      [] n[1] = "use" -> <<"use">> \o Dotted(n[2]) \o (IF n[4] THEN <<"::", n[3]>> ELSE <<>>)
      [] n[1] = "enum" -> <<"enum", n[2]>> \o In("{", List(n[3], LAMBDA x : <<x>>), "}")
      [] n[1] \in {"struct", "wire"} -> <<n[1], n[2]>> \o In("{", List(n[3], Typed), "}")
      [] n[1] = "scheme" -> <<"scheme", n[2]>> \o
              In("{", FlattenSeq([k \in DOMAIN n[3] |-> <<n[3][k][1], ":">> \o n[3][k][2]]), "}")
      [] n[1] = "requires" -> <<"requires">> \o
              In("{", List(n[2], LAMBDA c : <<c[1]>> \o
                                            (IF c[2] = None THEN <<>> ELSE In("(", Show(c[2]), ")"))), "}")
      [] n[1] = "domain" -> <<"domain", n[2]>> \o
              In("{", FlattenSeq([k \in DOMAIN n[3] |->
                                    <<n[3][k][1], ":">> \o List(n[3][k][2], LAMBDA x : <<x>>)]), "}")
      [] n[1] = "fn" ->
              FlattenSeq([k \in DOMAIN n[2] |->
                  <<n[2][k][1]>> \o
                  (IF n[2][k][2] = <<>> THEN <<>>
                   ELSE In("(", List(n[2][k][2], LAMBDA a : (IF a[1] = "name" THEN <<>> ELSE <<a[1], ":">>) \o
                                                  ValueOf(a[2])), ")"))]) \o
              <<"fn", n[3]>> \o In("(", List(n[4], LAMBDA q : Typed(q) \o Opt("=", q[3])), ")") \o
              (IF n[5] # None THEN <<"->">> \o Type1(n[5])
               ELSE IF n[6] # <<>> THEN <<"->">> \o List(n[6], LAMBDA s : <<s[1]>> \o In("(", List(s[2], Io), ")"))
               ELSE <<>>) \o Show(n[7])

Statements == {"let", "let tuple", "return", "assert", "assign", "expr", "if", "for", "match", "block"}
Patterns == {"lit pattern", "wildcard", "id pattern", "struct pattern"}
Decls == {"const", "extern", "use", "enum", "struct", "wire", "scheme", "requires", "domain", "fn"}

Show(n) ==
    IF n[1] \in Statements THEN Stmt(n)
    ELSE IF n[1] \in Patterns THEN Pat(n)
    ELSE Expr(n)

(* A program: its items, the module first.                                 *)
ShowProgram(module, items) ==
    (IF module = NoName THEN <<>> ELSE <<"module", module>>) \o
    FlattenSeq([k \in DOMAIN items |-> Decl(items[k])])

-----------------------------------------------------------------------------
CONSTANTS Blank, NewLine, Tab, Digits, Letters,   \* of the lexer
          Alphabet, TextLength, CommentLength     \* the texts considered

VARIABLES input, output

R(m) == INSTANCE NameResolver WITH Module <- m, NoModule <- NoName, Declared <- {"x", "N"},
                                   Imports <- [lib |-> {"x"}]

L == INSTANCE Lexer WITH Keywords <- { <<"a", "a">> }

MCNewLine == "\n"
MCTab == "\t"
MCAlphabet == {" ", MCNewLine, "0", "_", "a", "\"", "\\", "@", "/", "*", ".", "=", ">", "|", "~"}

TextsOver(Cs, n) == UNION {[1 .. k -> Cs] : k \in 0 .. n}
Texts == TextsOver(Alphabet, TextLength) \cup TextsOver({"/", "*", "a"}, CommentLength)

-----------------------------------------------------------------------------
(* Trees.  Each form has one or two holes, filled with every small tree.   *)

x == <<"id", <<"x">> >>
T == <<"named", <<"N">>, NoName>>
Unary1(h) ==
    { <<"un", "-", h>>, <<"un", "!", h>>, <<"cast", h, <<"prim", "f64">> >>, <<"cast", h, T>>,
      <<"cast", h, <<"enc", <<"vec", <<"prim", "f64">>, None>> >> >>,
      <<"field", h, "y">>, <<"method", h, "y", << <<NoName, x>> >> >>,
      <<"call", h, <<>>, None>>, <<"call", x, << <<"y", h>>, <<NoName, h>> >>, None>>,
      <<"call", x, << <<NoName, h>> >>, <<"enc", <<"vec", <<"prim", "f64">>, None>> >> >>,
      <<"index", x, h>>, <<"array", <<h, h>> >>, <<"array", <<h>> >>,
      <<"struct", <<"M", "N">>, << <<"y", h>>, <<"x", None>> >> >>,
      <<"closure", << <<"x", None>> >>, h>>,
      <<"closure", << <<"x", T>>, <<"y", None>> >>, <<"block", << <<"return", h>> >> >> >>,
      <<"if expr", h, <<"block", << <<"expr", h>> >> >>, <<"block", << >> >> >>,
      <<"for expr", <<"x", "y">>, h, <<"block", << <<"let", "y", None, h>> >> >> >>,
      <<"match expr", h, << << <<"wildcard">>, h >>,
                            << <<"struct pattern", <<"N">>, << <<"x", None>>, <<"y", <<"lit pattern", "1">> >> >> >>,
                               <<"return", h>> >> >> >> }

BinaryOps == {"||", "&&", "==", "~=", "<", ">=", "<<", "+", "-", "*", "*_norelin", "^"}
Binary(l, r) ==
    {<<"bin", op, l, r>> : op \in BinaryOps} \cup
    {<<"pipe", l, r>>, <<"range", "..", l, r>>, <<"range", "..=", l, r>>, <<"slice", x, l, r>>,
     <<"index", l, r>>}

Leaves == {x, <<"lit", "1">>}
Small == Leaves \cup UNION {Unary1(h) : h \in {x}} \cup UNION {Binary(l, r) : l \in {x}, r \in {<<"lit", "1">>}}
(* An index that is a range makes a slice: there is no index by a range.   *)
IsTree(n) == ~(n[1] = "index" /\ n[3][1] = "range")
Exprs == {n \in UNION {Unary1(h) : h \in Small} \cup UNION {Binary(l, r) : l \in Small, r \in Small} :
            IsTree(n)}

Body(ss) == <<"fn", <<>>, "x", <<>>, None, <<>>, <<"block", ss>> >>

StatementsOf(h) ==
    { <<"let", "x", <<"vec", <<"enc", <<"prim", "f64">> >>, None>>, h>>, <<"let tuple", <<"x", "y">>, h>>,
      <<"return", h>>, <<"assert", h, "text">>, <<"assert", h, NoName>>, <<"assign", x, h>>, <<"expr", h>>,
      <<"if", h, <<"block", << <<"expr", x>> >> >>, None>>,
      <<"if", x, <<"block", << <<"expr", h>> >> >>,
        <<"if", h, <<"block", <<>> >>, <<"block", << <<"return", None>> >> >> >> >>,
      <<"for", <<"x">>, h, <<"block", << <<"expr", h>>, <<"return", None>> >> >> >>,
      <<"match", h, << << <<"id pattern", <<"x">> >>, <<"block", << <<"expr", h>> >> >> >>,
                       << <<"lit pattern", "1">>, h >> >> >> }

Prims == {<<"prim", "f64">>, T, <<"named", <<"x", "N">>, "y">>}
Type2(t) == { <<"enc", t>>, <<"vec", t, None>>, <<"mat", t, None, None>>,
              <<"mat", t, x, <<"bin", ">", x, x>> >>, <<"fn type", <<t, t>>, t>>, <<"tuple", <<t, t>> >> }
Types1 == Prims \cup UNION {Type2(t) : t \in Prims}
Types2 == Types1 \cup UNION {Type2(t) : t \in Types1}
Types3 == Types2 \cup UNION {Type2(t) : t \in Types2}

(* A statement that starts as an expression goes on would be read as a     *)
(* part of the statement before it: blocks of two leave those out.         *)
Continues == {"(", "[", "-"}
Pairs(ss) == {<<s, t>> \in ss \X ss : Show(t)[1] \notin Continues}

-----------------------------------------------------------------------------
(* Declarations.                                                           *)

io == << <<"reads", << <<"io type", <<"N">>, None>>, <<"io type", <<"N">>, <<"id", <<"*">> >> >>,
                       <<"io type", <<"x", "N">>, <<"bin", "+", x, x>> >> >> >>,
         <<"writes", << <<"io path", <<"bin", "/", <<"call", <<"id", <<"N">> >>, <<>>, None>>, x>> >> >> >> >>

DeclForms ==
    { <<"const", "x", T, <<"lit", "1">> >>, <<"extern", "x", "text">>,
      <<"use", <<"x">>, "*", FALSE>>, <<"use", <<"x">>, "*", TRUE>>, <<"use", <<"x">>, "y", TRUE>>,
      <<"use", <<"x", "y">>, "N", TRUE>>, <<"enum", "N", <<>> >>, <<"enum", "M", <<"x", "y">> >>,
      <<"struct", "N", << <<"x", T>>, <<"y", <<"prim", "f64">> >> >> >>, <<"wire", "M", <<>> >>,
      <<"scheme", "N", << <<"x", <<"auto">> >>, <<"y", <<"1", "-", "x">> >>, <<"x", <<"1", "bits">> >>,
                          <<"y", <<"1">> >>, <<"x", <<"x", "-", "y">> >>, <<"x", <<"f64">> >> >> >>,
      <<"requires", << <<"x", None>>, <<"y", <<"call", x, << <<NoName, x>> >>, None>> >> >> >>,
      <<"domain", "N", << <<"can", <<"x", "y">> >>, <<"has", <<"N">> >>, <<"cannot", <<"x">> >> >> >>,
      <<"fn", << <<"@a", <<>> >>, <<"@b", << <<"name", <<"one", "text">> >> >> >>,
                 <<"@a", << <<"x", <<"one", "true">> >>, <<"y", <<"list", <<"text", "text">> >> >> >> >> >>,
        "x", << <<"x", T, None>>, <<"y", <<"prim", "f64">>, <<"un", "-", x>> >> >>,
        <<"enc", T>>, <<>>, <<"block", <<>> >> >>,
      <<"fn", <<>>, "y", <<>>, None, io, <<"block", << <<"return", None>> >> >> >>,
      <<"fn", <<>>, "y", <<>>, None, <<>>,
        <<"block", << <<"if", <<"id", <<"K">> >>, <<"block", << <<"return", x>> >> >>, None>> >> >> >> }

Program(items) == [kind |-> "program", module |-> NoName, items |-> items]
Programs ==
    {Program(<<Body(<< <<"expr", h>> >>)>>) : h \in Exprs} \cup
    {Program(<<Body(<<s>>)>>) : s \in UNION {StatementsOf(h) : h \in Small}} \cup
    {Program(<<Body(pair)>>) : pair \in Pairs(UNION {StatementsOf(h) : h \in Leaves \cup {<<"array", <<>> >>}})} \cup
    {Program(<< <<"const", "x", t, x>> >>) : t \in Types3} \cup
    {[kind |-> "program", module |-> m, items |-> <<d, e>>] : m \in {NoName, "x"}, d \in DeclForms, e \in DeclForms}

-----------------------------------------------------------------------------
(* Functions for the resolver: the module declares the constant x and the  *)
(* variant N.  No local has the name of a variant: the code would take a   *)
(* pattern that names the variant for a new binding there.                 *)

Refs == {<<"ref", name>> : name \in {<<"x">>, <<"y">>, <<"lib", "x">>, <<"m", "x">>}}
Bound == {"x", "y"}
Pats == {<<"id pattern", <<n>> >> : n \in {"y", "N"}} \cup
        {<<"struct pattern", <<"N">>, << <<n, None>>, <<"x", <<"id pattern", <<"y">> >> >> >> >> : n \in Bound}

Binding(h) ==
    {<<"let", <<n>>, <<None, h>> >> : n \in Bound} \cup {<<"let", <<"x", "y">>, <<h>> >>} \cup
    {<<"for", <<n>>, h, <<"scope", <<h>> >> >> : n \in Bound} \cup
    {<<"binder", <<n>>, <<None, h>> >> : n \in Bound} \cup
    {<<"node", <<h, <<"scope", <<q, <<"scope", <<h>> >> >> >> >> >> : q \in Pats} \cup
    {<<"scope", << <<"let", <<n>>, <<h>> >>, h>> >> : n \in Bound} \cup {<<"node", <<h>> >>}

(* A let is a statement: where an expression goes it needs a block.        *)
AsExpr(n) == IF n[1] = "let" THEN <<"scope", <<n>> >> ELSE n
Deep == UNION {Binding(AsExpr(h)) : h \in Refs \cup UNION {Binding(r) : r \in Refs}}
Fns ==
    {<<"binder", <<q>>, <<a, <<"scope", <<s, <<"node", <<a, b>> >> >> >> >> >> :
     q \in Bound, s \in Deep, a \in Refs, b \in Refs}

Init ==
    /\ input \in [kind : {"text"}, text : Texts] \cup Programs \cup
                [kind : {"item"}, module : {NoName, "m"}, item : Fns]
    /\ output = <<>>

LexText == input.kind = "text" /\ output = <<>> /\ output' = L!Lex(input.text)
ParseProgram ==
    /\ input.kind = "program" /\ output = <<>>
    /\ output' = <<Parse(ShowProgram(input.module, input.items), {})>>

ResolveItem ==
    /\ input.kind = "item" /\ output = <<>>
    /\ output' = <<R(input.module)!Resolve(input.item)>>

Next == (LexText \/ ParseProgram \/ ResolveItem) /\ UNCHANGED input

Spec == Init /\ [][Next]_<<input, output>>

(* lex_all() reads every text as the longest tokens one after the other,   *)
(* with blanks and nested comments between them, or refuses it: 0..n is a  *)
(* range, *_n no deferred product, and /* inside of a comment opens one.   *)
LongestMatch == input.kind = "text" /\ output # <<>> => L!Longest(input.text, output)

(* The resolver changes what no reference means: a name a let, a parameter *)
(* or a pattern has bound keeps its meaning there and nowhere else.        *)
SameMeaning ==
    input.kind = "item" /\ output # <<>> => R(input.module)!MeansTheSame(input.item, output[1])

(* The parser reads a program back from its tokens, parenthesised no more  *)
(* than the grammar's precedences ask for: no method of the descent takes  *)
(* an operator that belongs to another.                                    *)
ReadBack ==
    input.kind = "program" /\ output # <<>> => output[1] = << <<input.module, input.items>> >>
=============================================================================
