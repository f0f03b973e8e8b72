------------------------------- MODULE Lexer -------------------------------
(***************************************************************************)
(* tool/lexc.c: the lexer that tool/iopmod-symc.c reads header files with.  *)
(* A token is a value that holds where it is in the text and how long it    *)
(* is; the next token is computed from it, and the empty one is the last.   *)
(*                                                                          *)
(* Characters that the tables of the source do not tell apart have one      *)
(* representative: "g" is any letter that is no hexadecimal digit and no    *)
(* exponent, a byte above 127 included, "@" any invalid character.  The     *)
(* types of tokens are named by their descriptions in tool/lexc.h, so that  *)
(* the type of an operator is its text.                                     *)
(***************************************************************************)
EXTENDS Integers, SequencesExt

CONSTANT Texts      \* the texts to be turned into tokens

ASSUME TextsAssumption == Texts \subseteq Seq(STRING)

VARIABLES
    text,       \* the characters from the first to before eos
    every,      \* lexc_for_every_token or lexc_for_each_token
    token       \* the loop cursor

vars == <<text, every, token>>

\* Characters by class, and operators of one character and of several.
ccDigit  == {"0", "1"}
ccHex    == ccDigit \cup {"a", "e", "x"}
ccExp    == {"e", "p"}
ccIdent  == {"a", "e", "x", "p", "g", "_"}
ccHorzWs == {" ", "\t"}
ccVertWs == {"\n"}
Blank    == ccHorzWs \cup ccVertWs

\* A slip: a backslash is no token of its own.
SingleNoBackslash ==
    {"<", ">", "=", "!", "+", "-", "*", "%", "/", "&", "|", "^", "~", ".", ":", ";", ",",
     "(", ")", "[", "]", "{", "}", "?", "#"}

Single == {"<", ">", "=", "!", "+", "-", "*", "%", "/", "&", "|", "^", "~", ".", ":", "\\",
           ";", ",", "(", ")", "[", "]", "{", "}", "?", "#"}

Longer ==
    {"!=", "%=", "*=", "<<=", ">>=", "##", "::", "==", "^=", "...", "<<", "<=", ">>", ">=",
     "&&", "&=", "||", "|=", "++", "+=", "--", "->", "-=", "..", "/="}

Kinds == {"<empty>", "<integer>", "<float>", "<string>", "<character>", "<identifier>",
          "<comment>", "<whitespace>"}

Errors == {"unterminated comment", "missing terminating \" character",
           "missing terminating ' character", "invalid character"}

\* struct lexc_token: "string" is the place of its first character.
Token == [type : Kinds \cup Single \cup Longer \cup Errors,
          string : Nat, length : Nat, line : Nat, column : Nat]

----------------------------------------------------------------------------
(* Advancing over a token                                                   *)

CharAt(i) == text[i + 1]

column_for_char(c, column) ==
    IF c = "\t" THEN 1 + ((column - 1) \div 8) * 8 + 8 ELSE 1 + column

AdvanceChar(t) ==
    LET c == CharAt(t.string)
    IN  [t EXCEPT !.string = @ + 1, !.length = @ - 1,
                  !.line = IF c \in ccVertWs THEN @ + 1 ELSE @,
                  !.column = IF c \in ccVertWs THEN 1 ELSE column_for_char(c, @)]

advance_token[t \in Token] ==
    IF t.length = 0 THEN [t EXCEPT !.type = "<empty>"] ELSE advance_token[AdvanceChar(t)]

----------------------------------------------------------------------------
(* The loop of lexc_next_any_token: what a character does to a token of a   *)
(* type.  It makes the token longer, and perhaps of another type, or is the *)
(* last of it, or is not part of it.                                        *)

Goes(type)  == [type |-> type, takes |-> TRUE,  ends |-> FALSE, escape |-> FALSE]
Closes(type)  == [type |-> type, takes |-> TRUE,  ends |-> TRUE,  escape |-> FALSE]
Ends(type)  == [type |-> type, takes |-> FALSE, ends |-> TRUE,  escape |-> FALSE]
Escapes(type) == [Goes(type) EXCEPT !.escape = TRUE]

GoesIf(type, in) == IF in THEN Goes(type) ELSE Ends(type)

First(c) ==
    IF c \in ccDigit THEN Goes("<integer>")
    ELSE IF c \in Blank THEN Goes("<whitespace>")
    ELSE IF c = "\"" THEN Goes("<string>")
    ELSE IF c = "'" THEN Goes("<character>")
    ELSE IF c \in Single THEN Goes(c)
    ELSE IF c \in ccIdent THEN Goes("<identifier>")
    ELSE Ends("invalid character")

\* A slip: the character after a backslash may be the quote that ends it.
QuotedNoEscape(type, quote, c, escape) == IF c = quote THEN Closes(type) ELSE Goes(type)

Quoted(type, quote, c, escape) ==
    IF escape THEN Goes(type)
    ELSE IF c = "\\" THEN Escapes(type)
    ELSE IF c = quote THEN Closes(type)
    ELSE Goes(type)

\* "before" is the character before, "second" the second one of the token.
Numeral(type, c, before) ==
    IF type = "<integer>" THEN
        IF c = "." THEN Goes("<float>") ELSE GoesIf(type, c \in ccHex)
    ELSE GoesIf(type, c \in ccDigit \cup ccExp \/ (c \in {"+", "-"} /\ before \in ccExp))

Comment(c, before, second) ==
    IF \/ second = "/" /\ c \in ccVertWs
       \/ second = "*" /\ before = "*" /\ c = "/"
    THEN Closes("<comment>") ELSE Goes("<comment>")

Operator(type, c) ==
    IF type = "." /\ c \in ccDigit THEN Goes("<float>")
    ELSE IF type = "/" /\ c \in {"/", "*"} THEN Goes("<comment>")
    ELSE IF type \in Single \cup Longer /\ type \o c \in Longer THEN Goes(type \o c)
    ELSE Ends(type)

Consider(type, c, before, second, escape) ==
    CASE type = "<empty>"      -> First(c)
      [] type = "<whitespace>" -> GoesIf(type, c \in Blank)
      [] type = "<identifier>" -> GoesIf(type, c \in ccIdent \cup ccDigit)
      [] type \in {"<integer>", "<float>"} -> Numeral(type, c, before)
      [] type = "<character>"  -> Quoted(type, "'", c, escape)
      [] type = "<string>"     -> Quoted(type, "\"", c, escape)
      [] type = "<comment>"    -> Comment(c, before, second)
      [] OTHER                 -> Operator(type, c)

\* The end of the text cuts off what has to be terminated.
AtEnd(t) ==
    [t EXCEPT !.type =
        CASE @ = "<string>"    -> "missing terminating \" character"
          [] @ = "<character>" -> "missing terminating ' character"
          [] @ = "<comment>" /\ CharAt(t.string + 1) = "*" -> "unterminated comment"
          [] OTHER -> @]

Scan[t \in Token, escape \in BOOLEAN] ==
    LET pos == t.string + t.length
    IN  IF pos = Len(text) THEN AtEnd(t)
        ELSE LET r == Consider(t.type, CharAt(pos),
                               IF t.length > 0 THEN CharAt(pos - 1) ELSE "",
                               IF t.length > 1 THEN CharAt(t.string + 1) ELSE "", escape)
                 u == [t EXCEPT !.type = r.type, !.length = IF r.takes THEN @ + 1 ELSE @]
             IN  IF r.ends THEN u ELSE Scan[u, r.escape]

lexc_next_any_token(t) == Scan[advance_token[t], FALSE]

\* A slip: only one token is skipped.
NextTokenSkipOnce(t) ==
    LET u == lexc_next_any_token(t)
    IN  IF u.type \in {"<whitespace>", "<comment>"} THEN lexc_next_any_token(u) ELSE u

SkipBlanks[t \in Token] ==
    IF t.type \in {"<whitespace>", "<comment>"} THEN SkipBlanks[lexc_next_any_token(t)] ELSE t

lexc_next_token(t) == SkipBlanks[lexc_next_any_token(t)]

----------------------------------------------------------------------------
(* The loops lexc_for_every_token and lexc_for_each_token                   *)

\* The cursor before the first token, first_token.
Init ==
    /\ text \in Texts /\ every \in BOOLEAN
    /\ token = [type |-> "<empty>", string |-> 0, length |-> 0, line |-> 1, column |-> 1]

Finished == token.type = "<empty>" /\ token.string = Len(text)

Every == every /\ token' = lexc_next_any_token(token)
Each  == ~every /\ token' = lexc_next_token(token)

Next == ~Finished /\ (Every \/ Each) /\ UNCHANGED <<text, every>>

Spec == Init /\ [][Next]_vars

\* The program goes on.
LiveSpec == Spec /\ WF_vars(Next)

----------------------------------------------------------------------------
(* What the tokens of C are, by the text of each                            *)

All(s, from, set) == \A i \in from .. Len(s) : s[i] \in set

\* A character is escaped by an odd number of backslashes before it.
Escaped(s, i) ==
    \E k \in 0 .. i - 2 :
        /\ k % 2 = 1 /\ \A j \in i - k .. i - 1 : s[j] = "\\"
        /\ s[i - k - 1] # "\\"

IsQuoted(s, quote) ==
    /\ Len(s) > 1 /\ s[1] = quote /\ s[Len(s)] = quote
    /\ \A i \in 2 .. Len(s) : s[i] = quote /\ ~Escaped(s, i) <=> i = Len(s)

StarSlash(s, i) == s[i] = "*" /\ s[i + 1] = "/"

\* Unlike in C, the star that opens a comment may be the one that closes it.
IsBlockComment(s) ==
    /\ Len(s) > 2 /\ s[1] = "/" /\ s[2] = "*"
    /\ StarSlash(s, Len(s) - 1)
    /\ \A i \in 2 .. Len(s) - 2 : ~StarSlash(s, i)

IsLineComment(s, last) ==
    /\ Len(s) > 1 /\ s[1] = "/" /\ s[2] = "/"
    /\ \A i \in 3 .. Len(s) - 1 : s[i] \notin ccVertWs
    /\ last \/ s[Len(s)] \in ccVertWs

IsFraction(s, point) ==
    /\ s[point] = "."
    /\ \A i \in 1 .. point - 1 : s[i] \in ccHex
    /\ IF point = 1 THEN Len(s) > 1 /\ s[2] \in ccDigit ELSE s[1] \in ccDigit
    /\ \A i \in point + 1 .. Len(s) :
          s[i] \in ccDigit \cup ccExp \/ (s[i] \in {"+", "-"} /\ s[i - 1] \in ccExp)

IsToken(type, s, last) ==
    CASE type = "<whitespace>" -> All(s, 1, Blank)
      [] type = "<identifier>" -> s[1] \in ccIdent /\ All(s, 2, ccIdent \cup ccDigit)
      [] type = "<integer>"    -> s[1] \in ccDigit /\ All(s, 2, ccHex)
      [] type = "<float>"      -> \E point \in DOMAIN s : IsFraction(s, point)
      [] type = "<string>"     -> IsQuoted(s, "\"")
      [] type = "<character>"  -> IsQuoted(s, "'")
      [] type = "<comment>"    -> IsBlockComment(s) \/ IsLineComment(s, last)

Operators == {"<", ">", "=", "!", "+", "-", "*", "%", "/", "&", "|", "^", "~", ".", "..", ":",
              "\\", ";", ",", "(", ")", "[", "]", "{", "}", "?", "#", "!=", "%=", "*=", "/=",
              "<<=", ">>=", "##", "::", "==", "^=", "...", "<<", "<=", ">>", ">=", "&&", "&=",
              "||", "|=", "++", "+=", "--", "->", "-="}

Slice(i, length) == SubSeq(text, i + 1, i + length)

\* The operator that a few characters spell.
Spelt(s) == IF Len(s) = 1 THEN s[1] ELSE IF Len(s) = 2 THEN s[1] \o s[2]
            ELSE s[1] \o s[2] \o s[3]

\* The tokens the text has at a place, of any type and length.
Candidates(i) ==
    LET lengths == 1 .. Len(text) - i
    IN  {c \in [type : Kinds \ {"<empty>"}, length : lengths] :
            IsToken(c.type, Slice(i, c.length), i + c.length = Len(text))}
        \cup {c \in {[type |-> Spelt(Slice(i, k)), length |-> k] : k \in lengths \cap 1 .. 3} :
                c.type \in Operators}

\* What it has instead when something is not terminated or is invalid.
Unterminated(i) ==
    LET c == CharAt(i)
    IN  CASE c = "\"" -> "missing terminating \" character"
          [] c = "'" -> "missing terminating ' character"
          [] c = "/" /\ i + 1 < Len(text) /\ CharAt(i + 1) = "*" -> "unterminated comment"
          [] OTHER -> "invalid character"

Expected(i) ==
    LET C    == Candidates(i)
        bad  == Unterminated(i)
        none == C = {} \/ (bad = "unterminated comment" /\ \A c \in C : c.type # "<comment>")
    IN  IF i = Len(text) THEN {[type |-> "<empty>", length |-> 0]}
        ELSE IF none THEN {[type |-> bad, length |->
                               IF bad = "invalid character" THEN 0 ELSE Len(text) - i]}
        ELSE {c \in C : \A d \in C : d.length <= c.length}

----------------------------------------------------------------------------
(* Properties                                                               *)

\* Each token is the longest the text has at that place, of its type: no
\* operator is split, no comment, string or number ends early or late.  It has
\* the "vertical position of the token, starting from line 1" and the
\* "horizontal position" (tool/lexc.h) that are counted from the text, whatever
\* the tokens between were.
Begun == token.string > 0 \/ token.length > 0 \/ token.type # "<empty>"

Before(i) == {j \in 1 .. i : text[j] \in ccVertWs}

PositionIsRight ==
    LET breaks == Before(token.string)
        from   == IF breaks = {} THEN 0 ELSE Max(breaks)
        Column(a, c) == IF c = "\t" THEN Min({x \in a + 1 .. a + 8 : x % 8 = 1}) ELSE a + 1
    IN  /\ token.line = 1 + Cardinality(breaks)
        /\ token.column = FoldLeft(Column, 1, SubSeq(text, from + 1, token.string))

TokenIsRight ==
    Begun => /\ Expected(token.string) = {[type |-> token.type, length |-> token.length]}
             /\ PositionIsRight

\* lexc_for_each_token leaves out white space and comments, all of them, and
\* nothing else; lexc_for_every_token leaves out nothing.
BlankBetween[i \in Nat, j \in Nat] ==
    i = j \/ \E c \in Expected(i) :
        c.type \in {"<whitespace>", "<comment>"} /\ c.length > 0 /\ BlankBetween[i + c.length, j]

SkipsBlanksOnly ==
    [][IF every THEN token'.string = token.string + token.length
       ELSE /\ BlankBetween[token.string + token.length, token'.string]
            /\ token'.type \notin {"<whitespace>", "<comment>"}]_vars

\* The loops come to an end, for a text without invalid characters.
ValidTextEnds == (\A i \in DOMAIN text : text[i] # "@") ~> Finished
============================================================================
