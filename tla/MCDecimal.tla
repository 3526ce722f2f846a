----------------------------- MODULE MCDecimal -----------------------------
(***************************************************************************)
(* Literals for model checking Decimal.  The digits are those where word     *)
(* arithmetic and rounding turn: zero, half the radix and the largest digit. *)
(* Short literals start sequences of two operations, longer ones a single    *)
(* operation.                                                                *)
(***************************************************************************)
EXTENDS Decimal

CONSTANTS ChainLen, StartLen, LiteralLen    \* digits of a literal, at most

Half == Radix \div 2
Top == Radix - 1

Strings(D, n) == UNION {[1..k -> D] : k \in 0..n}

LiteralsOf(D, n) ==
    {lit \in [negative : BOOLEAN, ip : Strings(D, n), fp : Strings(D, n)] :
        Len(lit.ip) + Len(lit.fp) \in 1..n}

\* The longest ones start positive only: the literals they meet have both signs.
StartLiterals ==
    {lit \in LiteralsOf({0, Half, Top}, StartLen) :
        lit.negative => Len(lit.ip) + Len(lit.fp) < StartLen}

MCStarts ==
    [lit \in StartLiterals |-> IF lit \in LiteralsOf({Top}, ChainLen) THEN 2 ELSE 1]

MCLiterals == LiteralsOf({Half, Top}, LiteralLen) \cup LiteralsOf({Top}, LiteralLen + 1)

MCScales == -3 .. 4
=============================================================================
