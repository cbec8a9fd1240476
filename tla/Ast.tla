--------------------------------- MODULE Ast ---------------------------------
(***************************************************************************)
(* Walking the trees that Parser builds: the nodes of ast_nodes.py below a *)
(* node, in the order of their fields.  The expressions inside of types    *)
(* are left out: none of those who walk a tree looks for them.             *)
(***************************************************************************)
EXTENDS NbTypes

(* What is there of a sequence of optional nodes.                          *)
Present(ns) == SelectSeq(ns, LAMBDA n : n # None)
Seconds(ps) == [k \in DOMAIN ps |-> ps[k][2]]

ExprKids(n) ==
    CASE n[1] \in {"bin", "range"} -> <<n[3], n[4]>>
      [] n[1] \in {"pipe", "index", "assign"} -> <<n[2], n[3]>>
      [] n[1] = "un" -> <<n[3]>>
      [] n[1] \in {"cast", "field"} -> <<n[2]>>
      [] n[1] = "call" -> <<n[2]>> \o Seconds(n[3])
      [] n[1] = "method" -> <<n[2]>> \o Seconds(n[4])
      [] n[1] = "slice" -> <<n[2], n[3], n[4]>>
      [] n[1] = "array" -> n[2]
      [] n[1] = "struct" -> Present(Seconds(n[3]))
      [] n[1] = "closure" -> <<n[3]>>
      [] OTHER -> <<>>

(* Statements, and the expressions that are the same with a value.         *)
StmtKids(n) ==
    CASE n[1] = "block" -> n[2]
      [] n[1] = "let" -> <<n[4]>>
      [] n[1] = "let tuple" -> <<n[3]>>
      [] n[1] = "return" -> Present(<<n[2]>>)
      [] n[1] \in {"expr", "assert"} -> <<n[2]>>
      [] n[1] \in {"if", "if expr"} -> Present(<<n[2], n[3], n[4]>>)
      [] n[1] \in {"for", "for expr"} -> <<n[3], n[4]>>
      [] n[1] \in {"match", "match expr"} -> <<n[2]>> \o Seconds(n[3])
      [] OTHER -> <<>>

Kids(n) == ExprKids(n) \o StmtKids(n)

(* The nodes under n, n first; below one whose tag is in skip none.        *)
RECURSIVE Nodes(_, _)
Nodes(n, skip) ==
    LET Below(kids) == FlattenSeq([k \in DOMAIN kids |-> Nodes(kids[k], skip)])
    IN  IF n[1] \in skip THEN <<n>> ELSE <<n>> \o Below(Kids(n))

(* Calls of a name, in order; Callee is that name.                         *)
IsCall(n) == n[1] = "call" /\ n[2][1] = "id"
Callee(c) == c[2][2]
Calls(n, skip) == SelectSeq(Nodes(n, skip), IsCall)
Called(n) == {Callee(c) : c \in ToSet(Calls(n, {}))}

Positional(c) == SelectSeq(c[3], LAMBDA a : a[1] = NoName)
NamedArg(c, name) == SelectSeq(c[3], LAMBDA a : a[1] = name)
=============================================================================
