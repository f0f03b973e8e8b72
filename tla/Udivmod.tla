------------------------------ MODULE Udivmod ------------------------------
(***************************************************************************)
(* builtin/__udivmoddi4.c, __udivdi3.c and __umoddi3.c: division of 64-bit  *)
(* words by shifting and subtracting, which the compiler calls for every    *)
(* "/" and "%" of such words, as in vsnprintf.  A step is a turn of one of  *)
(* the two loops.                                                           *)
(***************************************************************************)
EXTENDS Integers

CONSTANTS Bits,     \* of a word: 64
          Quotient, Remainder   \* what is called: __udivdi3 or __umoddi3

\* Powers of two.
Pow2[k \in 0 .. Bits] == IF k = 0 THEN 1 ELSE 2 * Pow2[k - 1]

Word == Pow2[Bits]
Words == 0 .. Word - 1

ASSUME UdivmodAssumption ==
    /\ Bits \in Nat \ {0}
    /\ Quotient # Remainder

VARIABLES
    dividend, divisor,  \* the arguments
    called,             \* by which function
    loop,               \* "justify", "divide" or "done"
    num, den,           \* what is left of the arguments
    quot, qbit,         \* the quotient so far, and the bit that is tried
    value               \* what the function returned, -1 before

udivVars == <<dividend, divisor, called, loop, num, den, quot, qbit, value>>

UdivTypeOK ==
    /\ {dividend, divisor, num, den, quot, qbit} \subseteq Words
    /\ called \in {Quotient, Remainder}
    /\ loop \in {"justify", "divide", "done"}
    /\ value \in Words \cup {-1}

UdivInit ==
    /\ dividend \in Words /\ divisor \in Words
    /\ called \in {Quotient, Remainder}
    /\ loop = "justify"
    /\ num = dividend /\ den = divisor
    /\ quot = 0 /\ qbit = 1
    /\ value = -1

\* By zero: the quotient is zero, and *rem_p is not written, so that
\* __umoddi3 returns what happened to be in its frame.
DivideByZero ==
    /\ loop = "justify" /\ den = 0
    /\ loop' = "done"
    /\ value' \in IF called = Quotient THEN {0} ELSE Words
    /\ UNCHANGED <<dividend, divisor, called, num, den, quot, qbit>>

\* while ((int64_t)den >= 0)
Justify ==
    /\ loop = "justify" /\ den # 0 /\ den < Word \div 2
    /\ den' = (2 * den) % Word
    /\ qbit' = (2 * qbit) % Word
    /\ UNCHANGED <<dividend, divisor, called, loop, num, quot, value>>

Justified ==
    /\ loop = "justify" /\ den >= Word \div 2
    /\ loop' = "divide"
    /\ UNCHANGED <<dividend, divisor, called, num, den, quot, qbit, value>>

\* A slip: equal is not enough.
DivideLess ==
    /\ loop = "divide" /\ qbit # 0
    /\ IF den < num
       THEN num' = num - den /\ quot' = (quot + qbit) % Word
       ELSE UNCHANGED <<num, quot>>
    /\ den' = den \div 2 /\ qbit' = qbit \div 2
    /\ UNCHANGED <<dividend, divisor, called, loop, value>>

\* while (qbit)
Divide ==
    /\ loop = "divide" /\ qbit # 0
    /\ IF den <= num
       THEN num' = num - den /\ quot' = (quot + qbit) % Word
       ELSE UNCHANGED <<num, quot>>
    /\ den' = den \div 2 /\ qbit' = qbit \div 2
    /\ UNCHANGED <<dividend, divisor, called, loop, value>>

Return ==
    /\ loop = "divide" /\ qbit = 0
    /\ loop' = "done"
    /\ value' = IF called = Quotient THEN quot ELSE num
    /\ UNCHANGED <<dividend, divisor, called, num, den, quot, qbit>>

__udivmoddi4 == DivideByZero \/ Justify \/ Justified \/ Divide \/ Return

UdivSpec == UdivInit /\ [][__udivmoddi4]_udivVars

----------------------------------------------------------------------------
(* Properties                                                               *)

\* The quotient and the remainder are those of the arguments: no bit is lost
\* to the left when the divisor is shifted up, or to the right when it is
\* shifted down again.
DivisionIsExact ==
    loop = "done" /\ divisor # 0 =>
        /\ dividend = quot * divisor + num /\ num < divisor
        /\ value = IF called = Quotient THEN quot ELSE num
=============================================================================
