------------------------------- MODULE Params --------------------------------
(***************************************************************************)
(* params.py: the --set and --scheme options of nbc, applied to the items  *)
(* of a program (see Semantic).  An option is [name, text], and None if it *)
(* has no "=" or nothing on one side of it.  A text is a function from the *)
(* kinds of value that it can be read as to the value it is then.          *)
(* The result is [ok, items, params]; after an error, items is what the    *)
(* options before it have made of the program.                             *)
(***************************************************************************)
EXTENDS NbTypes

CONSTANT Overridable    \* the fields of SCHEME_OVERRIDABLE

(* The type that decides how a text is read, NoName if there is none: that *)
(* of the constant, or of its value if it is a literal.                    *)
DeclaredType(c) ==
    CASE c[3] # None /\ c[3][1] = "prim" -> c[3][2]
      [] OTHER -> IF c[4][1] # "lit" THEN NoName
                  ELSE IF c[4][2] = "int" THEN "i64" ELSE IF c[4][2] = "float" THEN "f64" ELSE c[4][2]

(* _literal(): the new value of a constant, None for a CompileError.       *)
Literal(c, text) ==
    LET t == DeclaredType(c)
        k == Kind(t)
    IN  IF k \notin {"int", "float", "bool", "string"} \/ k \notin DOMAIN text THEN None
        ELSE IF t \in Unsigned /\ text[k] < 0 THEN None
        ELSE <<"lit", k, text[k]>>

Named(c, name) == name \in { <<Last(c[2])>>, c[2] }
Constants(items) == {k \in DOMAIN items : items[k][1] = "const"}
Matches(items, name) == {k \in Constants(items) : Named(items[k], name)}

Fails(r) == [r EXCEPT !.ok = FALSE]

\* The bug of letting a second --set of a name win.
BugSetOne(r, arg) ==
    LET ms == Matches(r.items, arg.name)
        k == CHOOSE j \in ms : TRUE
        value == Literal(r.items[k], arg.text)
    IN  IF ~r.ok \/ arg = None THEN Fails(r)
        ELSE IF Cardinality(ms) # 1 THEN Fails(r)
        ELSE IF value = None THEN Fails(r)
        ELSE [r EXCEPT !.items = ReplaceAt(@, k, ReplaceAt(r.items[k], 4, value)),
                       !.params = Append(@, r.items[k][2])]

(* One --set; params holds the full names of what has been set.            *)
SetOne(r, arg) ==
    LET ms == Matches(r.items, arg.name)
        k == CHOOSE j \in ms : TRUE
        value == Literal(r.items[k], arg.text)
    IN  IF ~r.ok \/ arg = None THEN Fails(r)
        ELSE IF Cardinality(ms) # 1 THEN Fails(r)
        ELSE IF r.items[k][2] \in ToSet(r.params) \/ value = None THEN Fails(r)
        ELSE [r EXCEPT !.items = ReplaceAt(@, k, ReplaceAt(r.items[k], 4, value)),
                       !.params = Append(@, r.items[k][2])]

Unchanged(items) == [ok |-> TRUE, items |-> items, params |-> <<>>]
ApplyOverrides(items, sets) ==
    LET after[n \in 0 .. Len(sets)] ==
          IF n = 0 THEN Unchanged(items) ELSE SetOne(after[n - 1], sets[n])
    IN  after[Len(sets)]

(* A word, a whole number or a size.                                       *)
SchemeValue(text) == IF {"word", "int", "size"} \cap DOMAIN text = {} THEN None ELSE <<text>>

(* One --scheme: the field is set in every scheme block, added or changed. *)
IsScheme(item) == item[1] = "scheme"
Put(f, x, value) == [y \in DOMAIN f \cup {x} |-> IF y = x THEN value ELSE f[y]]
WithField(item, name, value) ==
    IF IsScheme(item) THEN <<"scheme", Put(item[2], name, value)>> ELSE item

SchemeOne(r, arg) ==
    LET value == SchemeValue(arg.text)
    IN  IF ~r.ok \/ arg = None THEN Fails(r)
        ELSE IF arg.name \notin Overridable \/ <<arg.name>> \in ToSet(r.params) THEN Fails(r)
        ELSE IF value = None THEN Fails(r)
        ELSE [r EXCEPT !.items = [k \in DOMAIN r.items |-> WithField(r.items[k], arg.name, value[1])],
                       !.params = Append(@, <<arg.name>>)]

ApplySchemeOverrides(items, schemes) ==
    LET after[n \in 0 .. Len(schemes)] ==
          IF n = 0 THEN Unchanged(items) ELSE SchemeOne(after[n - 1], schemes[n])
    IN  IF schemes # <<>> /\ ~\E k \in DOMAIN items : IsScheme(items[k])
        THEN Fails(Unchanged(items)) ELSE after[Len(schemes)]
=============================================================================
