--------------------------- MODULE MCSequential ----------------------------
(* What runs by itself, of which a behaviour has one: the lexer, a call of   *)
(* vsnprintf, a division of the kind it makes, or the loading of modules.    *)
(*                                                                           *)
(* The texts are those of two characters of all kinds, and longer ones over  *)
(* the characters that make comments, literals, numbers and long operators.  *)
(* The calls have flags, widths, precisions and types of integers in buffers *)
(* of several sizes, strings with precisions, and formats of several         *)
(* conversions.  There are as many loads as it takes to have all modules and *)
(* to load each of those that use the DEV9 once more.                        *)
EXTENDS Lexer, Vsnprintf, Udivmod, ModuleInit

CONSTANTS Idle      \* the one that is not called

UpTo(most, chars) == UNION {[1 .. k -> chars] : k \in 0 .. most}

MCTexts ==
    UpTo(2, Single \cup {"1", "e", "p", "g", " ", "\t", "\n", "\"", "'", "@"})
    \cup UpTo(3, {"/", "=", "&", "-", ">", "#", "1", "e", "g", " ", "\"", "@"})
    \cup UpTo(5, {"/", "*", "\n", "g"})
    \cup UpTo(5, {"\"", "'", "\\"})
    \cup UpTo(4, {"\"", "/", "*", "\\", "\n"})
    \cup UpTo(4, {"1", "x", "p", ".", "+"})
    \cup UpTo(4, {"<", "=", ".", "\t"})

MCBits == 4
MCTypeBits == [r \in -2 .. 2 |-> CASE r = -2 -> 4 [] r = -1 -> 5 [] r \in 0 .. 1 -> 6 [] r = 2 -> 7]

Call(f, a, k) == [format |-> f, args |-> a, n |-> k]
Pairs(S) == {<<>>} \cup {<<a>> : a \in S} \cup {<<a, b>> : a, b \in S}

\* An integer within a text.
Integers1 ==
    {Call(<<"a", "%">> \o f \o w \o d \o <<c, "b">>, <<v>>, k) :
        f \in Pairs({"-", "+", "'", " ", "#", "0"}),
        w \in {<<>>, <<"7">>}, d \in {<<>>, <<".", "4">>},
        c \in {"d", "o", "x"}, v \in {0, 20, -32}, k \in {0, 1, 4, 8}}

\* Types and their limits.
Integers2 ==
    {Call(<<"%">> \o l \o <<c>>, <<v>>, 6) :
        l \in Pairs({"h", "l"}) \cup {<<"j">>, <<"z">>, <<"t">>, <<"q">>, <<"L">>, <<"l", "l", "l">>, <<"h", "h", "h">>},
        c \in {"d", "i", "u", "o", "x", "X", "p", "P"},
        v \in {-32, -17, -9, -8, -1, 0, 7, 8, 15, 16, 31}}
    \cup {Call(<<"%", "l", "l", c>>, <<v>>, 6) : c \in {"d", "u", "x"}, v \in {-64, -33, 32, 63}}

\* Widths and precisions that are arguments.
Integers3 ==
    {Call(<<"%", "*", ".", "*", c>>, <<w, d, v>>, k) :
        c \in {"d", "X"}, w \in {-6, 0, 6}, d \in {-1, 0, 4}, v \in {-9, 0, 31}, k \in {3, 10}}

Strings ==
    {Call(<<"%">> \o f \o w \o d \o <<"s", "%", "c">>, <<s, "z">>, k) :
        f \in Pairs({"-", "0"}), w \in {<<>>, <<"4">>}, d \in {<<>>, <<".">>, <<".", "2">>},
        s \in {<<>>, <<"s", "t", "r">>, NULL}, k \in {0, 1, 2, 3, 5, 9}}

Mixed ==
    {Call(<<"%", "d">> \o f \o <<"%", "-", "5", "u", "%">>, <<-5, 9>>, k) :
        f \in {<<>>, <<"%", "%">>, <<"%", "y">>, <<"a">>}, k \in 0 .. 10}
    \cup {Call(<<"%", "1", "2", "d", "%">> \o l \o <<"n", "%", "s">>, <<1, 0, <<"e">>>>, k) :
            l \in {<<>>, <<"h", "h">>, <<"l", "l">>}, k \in {0, 11, 12, 13, 14}}

MCCalls == Integers1 \cup Integers2 \cup Integers3 \cup Strings \cup Mixed

NoText  == /\ text = <<>> /\ every = TRUE
           /\ token = [type |-> "<empty>", string |-> 0, length |-> 0, line |-> 1, column |-> 1]
NoCall  == /\ state = Idle /\ format = <<>> /\ args = <<>> /\ n = 0 /\ p = 1 /\ ap = 1
           /\ conv = Fresh /\ out = Buffer /\ all = Buffer /\ count = -1 /\ ret = -1
NoDivision ==
    /\ loop = Idle /\ called = Quotient
    /\ dividend = 0 /\ divisor = 0 /\ num = 0 /\ den = 0 /\ quot = 0 /\ qbit = 0 /\ value = 0
NoLoads == /\ phase = [m \in Modules |-> "out"]
           /\ libraries = {} /\ held = [m \in Modules |-> {}]
           /\ dev9_use_count = 0 /\ bus = FALSE /\ lost = 0 /\ rung = 0 /\ loads = MaxLoads

MCInit ==
    \/ Init /\ NoCall /\ NoDivision /\ NoLoads
    \/ NoText /\ VsnInit /\ NoDivision /\ NoLoads
    \/ NoText /\ NoCall /\ UdivInit /\ NoLoads
    \/ NoText /\ NoCall /\ NoDivision /\ ModInit

MCNext ==
    \/ Next /\ UNCHANGED <<vsnVars, udivVars, modVars>>
    \/ state # Idle /\ vsnprintf /\ UNCHANGED <<vars, udivVars, modVars>>
    \/ loop # Idle /\ __udivmoddi4 /\ UNCHANGED <<vars, vsnVars, modVars>>
    \/ rung > 0 /\ ModNext /\ UNCHANGED <<vars, vsnVars, udivVars>>

MCSpec == MCInit /\ [][MCNext]_<<vars, vsnVars, udivVars, modVars>> /\ WF_vars(Next)
=============================================================================
