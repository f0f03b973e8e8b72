----------------------------- MODULE Vsnprintf -----------------------------
(***************************************************************************)
(* builtin/vsnprintf.c: formatted printing into a buffer of n bytes, of     *)
(* which no byte past the last may be written, and whose result is the      *)
(* length that the text would have had.  A step is a turn of the loop over  *)
(* the characters of the format.                                            *)
(***************************************************************************)
EXTENDS Integers, SequencesExt

CONSTANTS
    Calls,          \* records [format, args, n]: characters, values, bytes
    TypeBits,       \* of the types of each rank: char, short, int, long, long long
    PointerBits,    \* of a pointer
    Room,           \* bytes there are, of which a call may use n
    Untouched, NUL, \* bytes: not written, and the terminating null
    NULL            \* a string that is a null pointer

rank_char == -2
rank_short == -1
rank_int == 0
rank_long == 1
rank_longlong == 2

ASSUME VsnprintfAssumption ==
    /\ TypeBits \in [rank_char .. rank_longlong -> Nat \ {0}]
    /\ \A r \in rank_char .. rank_long : TypeBits[r] <= TypeBits[r + 1]
    /\ PointerBits \in 1 .. TypeBits[rank_longlong]
    /\ Room \in Nat /\ \A c \in Calls : c.n \in 0 .. Room - 1

VARIABLES
    format, args, n,    \* the arguments of the call
    p, ap,              \* the character and the argument that are next
    state,              \* "normal", "flags", "width", "prec" or "modifiers"
    conv,               \* flags, rank, width and prec of the conversion
    out,                \* o and q of the code, and the buffer
    all,                \* history: the same in a buffer without limit
    count,              \* what %n has stored last
    ret                 \* what was returned, -1 before

vsnVars == <<format, args, n, p, ap, state, conv, out, all, count, ret>>
call    == <<format, args, n>>

Raise(b, k) == LET power[i \in Nat] == IF i = 0 THEN 1 ELSE b * power[i - 1] IN power[k]
Pow(k) == Raise(2, k)
Times(c, k) == [i \in 1 .. k |-> c]     \* nothing if k is negative

Fresh  == [flags |-> {}, rank |-> rank_int, width |-> 0, prec |-> -1]
Buffer == [o |-> 0, q |-> 0, buf |-> [k \in 0 .. Room - 1 |-> Untouched]]

VsnInit ==
    /\ \E c \in Calls : format = c.format /\ args = c.args /\ n = c.n
    /\ p = 1 /\ ap = 1
    /\ state = "normal" /\ conv = Fresh
    /\ out = Buffer /\ all = Buffer
    /\ count = -1 /\ ret = -1

----------------------------------------------------------------------------
(* Output                                                                   *)

\* The bytes of s from place i on, as far as the limit.
Put(buf, i, s, limit) ==
    [k \in DOMAIN buf |-> IF k \in i .. i + Len(s) - 1 /\ k - i < limit THEN s[k - i + 1]
                          ELSE buf[k]]

\* What is left of the buffer.  A slip: all of it.
LeftAll(b, size) == size
Left(b, size) == Max({size - b.o, 0})

\* EMIT for every character of s: o counts them all, q those written.
EMIT(b, size, s) ==
    [o   |-> b.o + Len(s),
     q   |-> b.q + Min({Left(b, size), Len(s)}),
     buf |-> Put(b.buf, b.q, s, Left(b, size))]

----------------------------------------------------------------------------
(* Integers                                                                 *)

\* The conversions of an argument to the type of a rank.  A slip: the types
\* shorter than int are left as va_arg gives them.
unsigned_long(v, rank) == v % Pow(TypeBits[Max({rank, rank_int})])
unsigned(v, rank) == v % Pow(TypeBits[rank])
signed(v, rank) ==
    LET u == unsigned(v, rank)
    IN  IF u >= Pow(TypeBits[rank] - 1) THEN u - Pow(TypeBits[rank]) ELSE u

DigitChars(upper) ==
    <<"0", "1", "2", "3", "4", "5", "6", "7", "8", "9">> \o
    (IF upper THEN <<"A", "B", "C", "D", "E", "F">> ELSE <<"a", "b", "c", "d", "e", "f">>)

\* Digits of a value, none of zero.
ndigits(val, base) == Min({k \in 0 .. TypeBits[rank_longlong] : Raise(base, k) > val})

\* The number from right to left: a tick mark after every "skip" digits.
Number(val, base, digits, skip, upper) ==
    LET length == digits + (digits - 1) \div skip
        Char(i) == IF i % (skip + 1) = skip THEN "_"
                   ELSE DigitChars(upper)[((val \div Raise(base, i - i \div (skip + 1))) % base) + 1]
    IN  [k \in 1 .. length |-> Char(length - k)]

\* What is before the number, the number, and what is behind it.
Field(val, c, base) ==
    LET Is(f)  == f \in c.flags
        minus  == Is("signed") /\ val < 0
        abs    == IF minus THEN -val ELSE val
        d      == ndigits(abs, base)
        prec   == IF Is("#") /\ base = 8 THEN Max({c.prec, d + 1}) ELSE c.prec
        digits == IF d < prec THEN prec ELSE IF abs = 0 THEN 1 ELSE d
        skip   == IF Is("'") THEN IF base = 16 THEN 4 ELSE 3 ELSE digits
        number == Number(abs, base, digits, skip, Is("upper"))
        sign   == IF minus THEN <<"-">> ELSE IF Is("+") THEN <<"+">>
                  ELSE IF Is(" ") THEN <<" ">> ELSE <<>>
        hex    == IF Is("#") /\ base = 16 THEN <<"0", IF Is("upper") THEN "X" ELSE "x">> ELSE <<>>
        fill   == c.width - Len(number) - Len(sign) - Len(hex)
    IN  [early  |-> (IF Is("-") \/ Is("0") THEN <<>> ELSE Times(" ", fill)) \o sign \o hex
                    \o (IF Is("0") /\ ~Is("-") THEN Times("0", fill) ELSE <<>>),
         number |-> number,
         late   |-> IF Is("-") THEN Times(" ", fill) ELSE <<>>]

\* It counts from zero in what is left of the buffer, and writes the digits
\* from the right, those within it.  The caller advances its pointer by the
\* length, written or not.
format_int(b, size, field) ==
    LET left   == Left(b, size)
        first  == EMIT([b EXCEPT !.o = 0], left, field.early)
        second == [o   |-> first.o + Len(field.number),
                   q   |-> first.q + Len(field.number),
                   buf |-> Put(first.buf, first.q, field.number, left - first.o)]
        third  == EMIT(second, left, field.late)
    IN  [o |-> b.o + third.o, q |-> b.q + third.o, buf |-> third.buf]

----------------------------------------------------------------------------
(* The loop                                                                 *)

In(s) == ret = -1 /\ p <= Len(format) /\ state = s
Ch    == format[p]
Arg   == args[ap]
Next1 == p' = p + 1

Emits(s) == out' = EMIT(out, n, s) /\ all' = EMIT(all, Room, s)

Literal ==
    /\ In("normal") /\ Ch # "%"
    /\ Emits(<<Ch>>) /\ Next1
    /\ UNCHANGED <<call, ap, state, conv, count, ret>>

Percent ==
    /\ In("normal") /\ Ch = "%"
    /\ state' = "flags" /\ conv' = Fresh /\ Next1
    /\ UNCHANGED <<call, ap, out, all, count, ret>>

\* "p--", and the character is processed again in the next state.
Again(s) == state' = s /\ UNCHANGED <<p, ap, conv>>

Flag ==
    /\ In("flags")
    /\ IF Ch \in {"-", "+", "'", " ", "#", "0"}
       THEN conv' = [conv EXCEPT !.flags = @ \cup {Ch}] /\ Next1 /\ UNCHANGED <<ap, state>>
       ELSE Again("width")
    /\ UNCHANGED <<call, out, all, count, ret>>

Decimal == [i \in {"0", "1", "2", "3", "4", "5", "6", "7", "8", "9"} |->
                CHOOSE k \in 0 .. 9 : DigitChars(FALSE)[k + 1] = i]

Width ==
    /\ In("width")
    /\ \/ /\ Ch \in DOMAIN Decimal
          /\ conv' = [conv EXCEPT !.width = 10 * @ + Decimal[Ch]]
          /\ Next1 /\ UNCHANGED <<ap, state>>
       \/ /\ Ch = "*"
          /\ conv' = IF Arg < 0 THEN [conv EXCEPT !.width = -Arg, !.flags = @ \cup {"-"}]
                     ELSE [conv EXCEPT !.width = Arg]
          /\ ap' = ap + 1 /\ Next1 /\ UNCHANGED state
       \/ /\ Ch = "."
          /\ conv' = [conv EXCEPT !.prec = 0]
          /\ state' = "prec" /\ Next1 /\ UNCHANGED ap
       \/ Ch \notin DOMAIN Decimal \cup {"*", "."} /\ Again("modifiers")
    /\ UNCHANGED <<call, out, all, count, ret>>

Precision ==
    /\ In("prec")
    /\ \/ /\ Ch \in DOMAIN Decimal
          /\ conv' = [conv EXCEPT !.prec = 10 * @ + Decimal[Ch]]
          /\ Next1 /\ UNCHANGED <<ap, state>>
       \/ /\ Ch = "*"
          /\ conv' = [conv EXCEPT !.prec = Max({Arg, -1})]
          /\ ap' = ap + 1 /\ Next1 /\ UNCHANGED state
       \/ Ch \notin DOMAIN Decimal \cup {"*"} /\ Again("modifiers")
    /\ UNCHANGED <<call, out, all, count, ret>>

RankBy == [c \in {"h", "l", "L", "q"} |-> IF c = "h" THEN -1 ELSE IF c = "l" THEN 1 ELSE 2]
RankOf == [c \in {"j", "z", "t"} |-> IF c = "j" THEN rank_longlong ELSE rank_long]

Modifier ==
    /\ In("modifiers") /\ Ch \in DOMAIN RankBy \cup DOMAIN RankOf
    /\ conv' = [conv EXCEPT !.rank = IF Ch \in DOMAIN RankBy THEN @ + RankBy[Ch] ELSE RankOf[Ch]]
    /\ Next1
    /\ UNCHANGED <<call, ap, state, out, all, count, ret>>

\* Canonicalize rank.
Rank == Min({Max({conv.rank, rank_char}), rank_longlong})

BaseOf == [c \in {"d", "i", "u", "o", "x", "X", "p", "P"} |->
               CASE c = "o" -> 8 [] c \in {"d", "i", "u"} -> 10 [] OTHER -> 16]

Conversion ==
    [conv EXCEPT
        !.flags = @ \cup (IF Ch \in {"d", "i"} THEN {"signed"} ELSE {})
                    \cup (IF Ch \in {"X", "P"} THEN {"upper"} ELSE {})
                    \cup (IF Ch \in {"p", "P"} THEN {"#"} ELSE {}),
        !.prec = IF Ch \in {"p", "P"} THEN (PointerBits + 3) \div 4 ELSE @]

Value == CASE Ch \in {"p", "P"} -> Arg % Pow(PointerBits)
           [] Ch \in {"d", "i"} -> signed(Arg, Rank)
           [] OTHER -> unsigned(Arg, Rank)

ConvertInteger ==
    /\ In("modifiers") /\ Ch \in DOMAIN BaseOf
    /\ LET field == Field(Value, Conversion, BaseOf[Ch])
       IN  out' = format_int(out, n, field) /\ all' = format_int(all, Room, field)
    /\ state' = "normal" /\ conv' = Conversion /\ ap' = ap + 1 /\ Next1
    /\ UNCHANGED <<call, count, ret>>

\* %c and %s.
ConvertString ==
    /\ In("modifiers") /\ Ch \in {"c", "s"}
    /\ LET sarg == IF Ch = "c" THEN <<Arg>>
                   ELSE IF Arg = NULL THEN <<"(", "n", "u", "l", "l", ")">> ELSE Arg
           slen == IF conv.prec = -1 THEN Len(sarg) ELSE Min({Len(sarg), conv.prec})
           pad(c) == Times(c, conv.width - slen)
       IN  Emits(IF "-" \in conv.flags THEN SubSeq(sarg, 1, slen) \o pad(" ")
                 ELSE pad(IF "0" \in conv.flags THEN "0" ELSE " ") \o SubSeq(sarg, 1, slen))
    /\ state' = "normal" /\ ap' = ap + 1 /\ Next1
    /\ UNCHANGED <<call, conv, count, ret>>

\* %n stores the number of characters in the type of the rank.
StoreCount ==
    /\ In("modifiers") /\ Ch = "n"
    /\ count' = signed(out.o, Rank)
    /\ state' = "normal" /\ ap' = ap + 1 /\ Next1
    /\ UNCHANGED <<call, conv, out, all, ret>>

\* Anything else, including %.
ConvertOther ==
    /\ In("modifiers")
    /\ Ch \notin DOMAIN RankBy \cup DOMAIN RankOf \cup DOMAIN BaseOf \cup {"c", "s", "n"}
    /\ Emits(<<Ch>>)
    /\ state' = "normal" /\ Next1
    /\ UNCHANGED <<call, ap, conv, count, ret>>

\* The null is written at the end of the text, or over the last byte.
Terminate(b, size) ==
    [b EXCEPT !.buf = IF b.o < size THEN [@ EXCEPT ![b.q] = NUL]
                      ELSE IF size > 0 THEN [@ EXCEPT ![size - 1] = NUL] ELSE @]

Finish ==
    /\ ret = -1 /\ p > Len(format)
    /\ out' = Terminate(out, n) /\ all' = Terminate(all, Room)
    /\ ret' = out.o
    /\ UNCHANGED <<call, p, ap, state, conv, count>>

vsnprintf ==
    \/ Literal \/ Percent \/ Flag \/ Width \/ Precision \/ Modifier
    \/ ConvertInteger \/ ConvertString \/ StoreCount \/ ConvertOther \/ Finish

VsnSpec == VsnInit /\ [][vsnprintf]_vsnVars

----------------------------------------------------------------------------
(* Properties                                                               *)

\* Whatever is printed in pieces, of which integers are written from the right:
\* the buffer has the first n - 1 characters of the text that an unlimited one
\* would have, and a null; no other byte is written, and none if n is zero.
\* The result is the length of that text.
BufferIsPrefix ==
    ret # -1 =>
        LET last == Min({all.o, n - 1})
        IN  /\ ret = all.o /\ all.o < Room
            /\ \A k \in 0 .. Room - 1 :
                   out.buf[k] = IF k < last THEN all.buf[k]
                                ELSE IF k = last THEN NUL ELSE Untouched

\* An integer reads back from its field as the value of its argument in the type
\* that its length modifiers say, however it is padded, signed, ticked or
\* prefixed; it has no fewer digits than the precision, the field is no shorter
\* than the width, and no longer if it is padded.
Readable(field, c, base, v) ==
    LET upper  == "upper" \in c.flags
        chars  == Range(field)
        x      == {k \in DOMAIN field : field[k] \in {"x", "X"}}
        from   == Max({0} \cup x)
        digits == SelectSeq(SubSeq(field, from + 1, Len(field)),
                            LAMBDA ch : ch \notin {" ", "+", "-", "_"})
        Digit(ch) == CHOOSE k \in 0 .. base - 1 : DigitChars(upper)[k + 1] = ch
        padded == Last(field) = " " \/ (Len(field) > 1 /\ field[2] = " ")
    IN  /\ Range(digits) \subseteq Range(SubSeq(DigitChars(upper), 1, base))
        /\ v = (IF "-" \in chars THEN -1 ELSE 1) *
               FoldLeft(LAMBDA sum, ch : base * sum + Digit(ch), 0, digits)
        /\ (x # {}) = (base = 16 /\ "#" \in c.flags)
        /\ Len(digits) >= Max({c.prec, 1})
        /\ Len(field) >= c.width /\ (padded => Len(field) = c.width)
        /\ field[Len(field)] # "_" /\ Head(field) # "_"

IntegersRead ==
    [][ConvertInteger =>
          LET bits == IF Ch \in {"p", "P"} THEN PointerBits ELSE TypeBits[Rank]
              type == IF Ch \in {"d", "i"} THEN -Pow(bits - 1) .. Pow(bits - 1) - 1
                      ELSE 0 .. Pow(bits) - 1
          IN  \E v \in type : /\ (v - Arg) % Pow(bits) = 0
                              /\ Readable([k \in 1 .. all'.o - all.o |-> all'.buf[all.o + k - 1]],
                                          conv', BaseOf[Ch], v)]_vsnVars
=============================================================================
