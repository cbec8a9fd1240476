------------------------------- MODULE Lexer -------------------------------
(***************************************************************************)
(* The tokenizer of dsl_fhe/xcomp/lexer.py.  A text is a sequence of one   *)
(* character strings.  A token is <<kind, value>>: the kinds of numbers,   *)
(* words, strings and annotations, and "OP" for operators and punctuation; *)
(* a value is the text Token.value is made from (digits without their _, a *)
(* string with its escapes replaced).  Line and column are left out.       *)
(***************************************************************************)
EXTENDS Integers, SequencesExt

CONSTANTS
    Blank,      \* blank characters other than NewLine
    NewLine,    \* the character that ends a line
    Tab,        \* what \t stands for
    Digits,     \* isdigit()
    Letters,    \* isalpha()
    Keywords    \* the words of KEYWORDS

Word == Letters \cup Digits \cup {"_"}
Number == Digits \cup {"_"}

At(s, i) == IF i \in DOMAIN s THEN s[i] ELSE "end of text"
StartsAt(s, i, w) == i + Len(w) - 1 <= Len(s) /\ SubSeq(s, i, i + Len(w) - 1) = w

(* The first position from i on that does not hold a character of Cs.      *)
Past(s, i, Cs) ==
    CHOOSE j \in i .. Len(s) + 1 : /\ \A k \in i .. j - 1 : s[k] \in Cs
                                   /\ j \in DOMAIN s => s[j] \notin Cs

(* Behind the comment that has been opened depth times; 0: it never ends.  *)
RECURSIVE CommentEnd(_, _, _)
CommentEnd(s, i, depth) ==
    IF depth = 0 THEN i
    ELSE IF i > Len(s) THEN 0
    ELSE IF StartsAt(s, i, <<"/", "*">>) THEN CommentEnd(s, i + 2, depth + 1)
    ELSE IF StartsAt(s, i, <<"*", "/">>) THEN CommentEnd(s, i + 2, depth - 1)
    ELSE CommentEnd(s, i + 1, depth)

(* skip_whitespace_and_comments(): where the next token starts, or 0.      *)
RECURSIVE Skip(_, _)
Skip(s, i) ==
    IF At(s, i) \in Blank \cup {NewLine} THEN Skip(s, i + 1)
    ELSE IF StartsAt(s, i, <<"/", "/">>) THEN Skip(s, Past(s, i, ToSet(s) \ {NewLine}))
    ELSE IF StartsAt(s, i, <<"/", "*">>)
         THEN LET e == CommentEnd(s, i + 2, 1) IN IF e = 0 THEN 0 ELSE Skip(s, e)
         ELSE i

Read(kind, value, next) == [tok |-> <<kind, value>>, next |-> next]
NoToken == [tok |-> <<"ERROR", <<>> >>, next |-> 0]      \* a LexError
Crash == [tok |-> <<"CRASH", <<>> >>, next |-> 0]        \* an IndexError

Escaped(c) == IF c = "n" THEN NewLine ELSE IF c = "t" THEN Tab ELSE c

(* From behind the opening quote.  A backslash takes the character after   *)
(* it, whatever that is, without looking whether there is one.             *)
RECURSIVE ReadString(_, _, _)
ReadString(s, i, value) ==
    IF At(s, i) = "\"" THEN Read("STRING", value, i + 1)
    ELSE IF At(s, i) = "\\"
         THEN IF i = Len(s) THEN Crash
              ELSE ReadString(s, i + 2, Append(value, Escaped(s[i + 1])))
    ELSE IF i > Len(s) \/ At(s, i) = NewLine THEN NoToken
    ELSE ReadString(s, i + 1, Append(value, s[i]))

Dropped(w) == SelectSeq(w, LAMBDA c : c # "_")

\* The bug of taking the first dot of a range for a decimal point.
BugReadNumber(s, i) ==
    LET j == Past(s, i, Number)
        k == Past(s, j + 1, Number)
    IN  IF At(s, j) = "." THEN Read("FLOAT", Dropped(SubSeq(s, i, k - 1)), k)
        ELSE Read("INT", Dropped(SubSeq(s, i, j - 1)), j)

ReadNumber(s, i) ==
    LET j == Past(s, i, Number)
        k == Past(s, j + 1, Number)
    IN  IF At(s, j) = "." /\ At(s, j + 1) # "."
        THEN Read("FLOAT", Dropped(SubSeq(s, i, k - 1)), k)
        ELSE Read("INT", Dropped(SubSeq(s, i, j - 1)), j)

ReadIdentOrKeyword(s, i) ==
    LET j == Past(s, i, Word)
        w == SubSeq(s, i, j - 1)
    IN  Read(IF w \in Keywords THEN "KEYWORD" ELSE "IDENT", w, j)

ReadAnnotation(s, i) ==
    LET j == Past(s, i + 1, Word)
    IN  IF At(s, i + 1) \in Letters \cup {"_"}
        THEN Read("ANNOTATION", SubSeq(s, i + 1, j - 1), j) ELSE NoToken

Norelin == <<"_", "n", "o", "r", "e", "l", "i", "n">>

(* What may follow the character c in an operator, as it is tried in turn. *)
Tails(c) ==
    CASE c = "|" -> << <<">">>, <<"|">>, <<>> >>
      [] c = "&" -> << <<"&">> >>
      [] c = "=" -> << <<"=">>, <<">">>, <<>> >>
      [] c = "!" -> << <<"=">>, <<>> >>
      [] c = "<" -> << <<"=">>, <<"<">>, <<>> >>
      [] c = ">" -> << <<"=">>, <<">">>, <<>> >>
      [] c = "~" -> << <<"=">> >>
      [] c = "-" -> << <<">">>, <<>> >>
      [] c = "." -> << <<".", "=">>, <<".">>, <<>> >>
      [] c = ":" -> << <<":">>, <<>> >>
      [] c = "*" -> << Norelin, <<>> >>
      [] c \in {"+", "/", "%", "^", "(", ")", "[", "]", "{", "}", ","} -> << <<>> >>
      [] OTHER -> <<>>

ReadOperator(s, i) ==
    LET fits == SelectSeq(Tails(s[i]), LAMBDA w : StartsAt(s, i + 1, w))
    IN  IF fits = <<>> THEN NoToken
        ELSE Read("OP", <<s[i]>> \o Head(fits), i + 1 + Len(Head(fits)))

ReadToken(s, i) ==
    CASE s[i] \in Digits -> ReadNumber(s, i)
      [] s[i] \in Letters \cup {"_"} -> ReadIdentOrKeyword(s, i)
      [] s[i] = "\"" -> ReadString(s, i + 1, <<>>)
      [] s[i] = "@" -> ReadAnnotation(s, i)
      [] OTHER -> ReadOperator(s, i)

(* lex_all(): the tokens of the text; the last one is EOF, ERROR or CRASH. *)
RECURSIVE LexFrom(_, _)
LexFrom(s, i) ==
    LET j == Skip(s, i)
        r == ReadToken(s, j)
    IN  IF j = 0 THEN <<NoToken.tok>>
        ELSE IF j > Len(s) THEN << <<"EOF", <<>> >> >>
        ELSE IF r.next = 0 THEN <<r.tok>>
        ELSE <<r.tok>> \o LexFrom(s, r.next)

Lex(s) == LexFrom(s, 1)

-----------------------------------------------------------------------------
(* GRAMMAR.md 2 with what the lexer adds to it (_ in numbers, nested       *)
(* comments, the operators of closures and shifts): which texts are tokens *)
(* and which are skipped, without a word on how they are found.            *)

Operators ==
    {<<"+">>, <<"-">>, <<"*">>, <<"/">>, <<"%">>, <<"^">>, <<"=", "=">>, <<"!", "=">>,
     <<"<">>, <<">">>, <<"<", "=">>, <<">", "=">>, <<"~", "=">>, <<"=">>, <<"-", ">">>,
     <<"=", ">">>, <<"|", ">">>, <<"*">> \o Norelin, <<"(">>, <<")">>, <<"[">>, <<"]">>,
     <<"{">>, <<"}">>, <<",">>, <<":">>, <<".">>, <<".", ".">>, <<".", ".", "=">>,
     <<"|">>, <<"|", "|">>, <<"&", "&">>, <<"!">>, <<"<", "<">>, <<">", ">">>, <<":", ":">>}

All(w, Cs) == ToSet(w) \subseteq Cs
IsIdent(w) == w # <<>> /\ w[1] \in Letters \cup {"_"} /\ All(w, Word)
IsInt(w) == w # <<>> /\ w[1] \in Digits /\ All(w, Number)
IsFloat(w) ==
    \E k \in DOMAIN w : /\ w[k] = "." /\ IsInt(SubSeq(w, 1, k - 1))
                        /\ All(SubSeq(w, k + 1, Len(w)), Number)

RECURSIVE IsChars(_)
IsChars(w) ==
    \/ w = <<>>
    \/ w[1] \notin {"\"", "\\", NewLine} /\ IsChars(Tail(w))
    \/ w[1] = "\\" /\ Len(w) > 1 /\ IsChars(SubSeq(w, 3, Len(w)))

Between(w) == SubSeq(w, 2, Len(w) - 1)
IsString(w) == Len(w) > 1 /\ w[1] = "\"" /\ Last(w) = "\"" /\ IsChars(Between(w))

(* Behind what opens a comment come comments and characters that open or   *)
(* close none, then what closes it.                                        *)
RECURSIVE IsComment(_), IsRest(_)
IsRest(w) ==
    \/ w = <<"*", "/">>
    \/ /\ w # <<>> /\ ~StartsAt(w, 1, <<"/", "*">>) /\ ~StartsAt(w, 1, <<"*", "/">>)
       /\ IsRest(Tail(w))
    \/ \E k \in DOMAIN w : IsComment(SubSeq(w, 1, k)) /\ IsRest(SubSeq(w, k + 1, Len(w)))
IsComment(w) == StartsAt(w, 1, <<"/", "*">>) /\ IsRest(SubSeq(w, 3, Len(w)))

IsSkipped(s, w, next) ==
    \/ Len(w) = 1 /\ w[1] \in Blank \cup {NewLine}
    \/ StartsAt(w, 1, <<"/", "/">>) /\ NewLine \notin ToSet(w) /\ next \in {NewLine, "end of text"}
    \/ IsComment(w)

Kinds(w, next) ==
    IF IsIdent(w) THEN {<<IF w \in Keywords THEN "KEYWORD" ELSE "IDENT", w>>}
    ELSE IF IsInt(w) THEN {<<"INT", Dropped(w)>>}
    ELSE IF IsFloat(w) /\ (Last(w) # "." \/ next # ".") THEN {<<"FLOAT", Dropped(w)>>}
    ELSE IF IsString(w) THEN {<<"STRING", <<>> >>}
    ELSE IF w[1] = "@" /\ IsIdent(Tail(w)) THEN {<<"ANNOTATION", Tail(w)>>}
    ELSE IF w \in Operators THEN {<<"OP", w>>} ELSE {}

(* The text from i on, one longest token or skipped part after another.    *)
RECURSIVE Munch(_, _)
Munch(s, i) ==
    LET Part(j) == SubSeq(s, i, j)
        skipped == {j \in i .. Len(s) : IsSkipped(s, Part(j), At(s, j + 1))}
        opens == StartsAt(s, i, <<"/", "*">>) \/ StartsAt(s, i, <<"/", "/">>)
        ends == {j \in i .. Len(s) : Kinds(Part(j), At(s, j + 1)) # {}}
        last == CHOOSE j \in ends : \A k \in ends : k <= j
    IN  IF i > Len(s) THEN << <<"EOF", <<>> >> >>
        ELSE IF skipped # {} THEN Munch(s, 1 + CHOOSE j \in skipped : \A k \in skipped : j <= k)
        ELSE IF opens \/ ends = {} THEN << <<"ERROR", <<>> >> >>
        ELSE <<CHOOSE t \in Kinds(Part(last), At(s, last + 1)) : TRUE>> \o Munch(s, last + 1)

Blanked(toks) == [k \in DOMAIN toks |-> IF toks[k][1] = "STRING" THEN <<"STRING", <<>> >>
                                        ELSE IF toks[k][1] = "CRASH" THEN <<"ERROR", <<>> >>
                                        ELSE toks[k]]

(* lexer.py reads a text as the longest tokens one after the other, with   *)
(* blanks and nested comments between them, and refuses any other text: in *)
(* particular 0..n is a range, and a number never takes its first dot.     *)
Longest(s, toks) == Blanked(toks) = Munch(s, 1)

(* modules.py:239 counts on it: a file that does not lex raises a          *)
(* LexError, so that it can be passed over.                                *)
NeverCrashes(toks) == Last(toks)[1] # "CRASH"
=============================================================================
