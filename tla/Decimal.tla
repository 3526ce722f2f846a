------------------------------- MODULE Decimal -------------------------------
(***************************************************************************)
(* Fixed-point decimals (src/berolinasql/src/decimal.rs).  A Decimal keeps  *)
(* its digits in WORD_BUF_LEN words of DIGITS_PER_WORD digits: first the     *)
(* integer words, right-aligned at the point, then the fraction words,       *)
(* left-aligned.  int_cnt and frac_cnt count digits, so where the point is   *)
(* in word_buf is always recomputed from them.                               *)
(*                                                                          *)
(* The state is one running value, as an expression evaluator keeps it:      *)
(* every step applies one operation of the type to it, so that results with  *)
(* leading zero words, padded fractions or full buffers are operands of the  *)
(* next one.  `last` records the operands and the outcome, which is compared *)
(* with arithmetic on integers.                                              *)
(*                                                                          *)
(* The code has ten digits, nine to a word, nine words; the model takes      *)
(* those numbers as constants.  result_frac_cnt (what is printed) is left    *)
(* out: no operation modelled here reads it.                                 *)
(***************************************************************************)
EXTENDS Integers, Sequences, FiniteSets, SequencesExt

CONSTANTS
    Radix,              \* 10 in the code; rounding compares with half of it
    DIGITS_PER_WORD,
    WORD_BUF_LEN,
    MAX_FRACTION,
    NOT_FIXED_DEC,
    DEFAULT_DIV_FRAC_INCR,
    IntBits,            \* 64 in the code: the width of i64 and u64
    Starts,             \* literals the value starts from, each with the bound on
                        \* the operations applied to it
    Literals,           \* literals it is combined with
    Scales              \* arguments of round

ASSUME DecimalAssumption ==
    /\ Radix \in Nat /\ Radix > 1 /\ Radix % 2 = 0
    /\ {DIGITS_PER_WORD, WORD_BUF_LEN, MAX_FRACTION, IntBits} \subseteq Nat \ {0}
    /\ NOT_FIXED_DEC = MAX_FRACTION + 1
    /\ Scales \subseteq Int
    /\ \A lit \in DOMAIN Starts : Starts[lit] \in Nat

VARIABLES
    last,   \* [op, l, r, res]: the last operation, its operands and outcome
    left    \* how many operations may follow

vars == <<last, left>>

-----------------------------------------------------------------------------
(* Words and counts *)

WORD_BASE == Radix ^ DIGITS_PER_WORD
WORD_MAX == WORD_BASE - 1

Least(a, b) == IF a <= b THEN a ELSE b
Greatest(a, b) == IF a >= b THEN a ELSE b

\* Rust's division rounds towards zero.
Quot(a, b) == IF a >= 0 THEN a \div b ELSE -((-a) \div b)

Steps(n) == [i \in 1..n |-> i]

word_cnt(len) ==
    IF len > DIGITS_PER_WORD * WORD_BUF_LEN THEN WORD_BUF_LEN + 1
    ELSE IF len <= 0 THEN 0
    ELSE (len + DIGITS_PER_WORD - 1) \div DIGITS_PER_WORD

Ok(d) == [kind |-> "Ok", d |-> d]
Truncated(d) == [kind |-> "Truncated", d |-> d]
Overflow(d) == [kind |-> "Overflow", d |-> d]

NoWords == [i \in 0 .. WORD_BUF_LEN - 1 |-> 0]

New(int_cnt, frac_cnt, negative) ==
    [int_cnt |-> int_cnt, frac_cnt |-> frac_cnt, negative |-> negative, word_buf |-> NoWords]

zero == New(1, 0, FALSE)

IntWords(d) == word_cnt(d.int_cnt)
FracWords(d) == word_cnt(d.frac_cnt)

is_zero(d) == \A i \in 0 .. IntWords(d) + FracWords(d) - 1 : d.word_buf[i] = 0

\* Variant: a sum of exactly WORD_BASE is taken to fit the word.
AddPastBase(a, b, carry) ==
    IF a + b + carry > WORD_BASE
    THEN [res |-> a + b + carry - WORD_BASE, carry |-> 1]
    ELSE [res |-> a + b + carry, carry |-> 0]

add(a, b, carry) ==
    IF a + b + carry >= WORD_BASE
    THEN [res |-> a + b + carry - WORD_BASE, carry |-> 1]
    ELSE [res |-> a + b + carry, carry |-> 0]

sub(a, b, carry) ==
    IF a - b - carry < 0
    THEN [res |-> a - b - carry + WORD_BASE, carry |-> 1]
    ELSE [res |-> a - b - carry, carry |-> 0]

\* The words left for a result of `ints` and `fracs` words: the fraction gives way first.
fix_word_cnt_err(ints, fracs) ==
    IF ints + fracs <= WORD_BUF_LEN THEN [kind |-> "Ok", int |-> ints, frac |-> fracs]
    ELSE IF ints > WORD_BUF_LEN THEN [kind |-> "Overflow", int |-> WORD_BUF_LEN, frac |-> 0]
    ELSE [kind |-> "Truncated", int |-> ints, frac |-> WORD_BUF_LEN - ints]

max_decimal(prec, frac) ==
    LET int == prec - frac
        first == int % DIGITS_PER_WORD
        rest == frac % DIGITS_PER_WORD
        ints == word_cnt(int)
        Word(i) ==
            IF i = 0 /\ first > 0 THEN Radix ^ first - 1
            ELSE IF i < ints + frac \div DIGITS_PER_WORD THEN WORD_MAX
            ELSE IF i < ints + word_cnt(frac)
            THEN WORD_BASE - Radix ^ (DIGITS_PER_WORD - rest)
            ELSE 0
    IN  [New(int, frac, FALSE) EXCEPT !.word_buf = [i \in 0 .. WORD_BUF_LEN - 1 |-> Word(i)]]

max_or_min_dec(negative, prec, frac) == [max_decimal(prec, frac) EXCEPT !.negative = negative]

-----------------------------------------------------------------------------
(* Literals: [negative, ip, fp], the digits before and after the point *)

Digits(s) == FoldLeft(LAMBDA n, i : n * Radix + s[i], 0, Steps(Len(s)))

\* from_bytes of a literal that fits, without an exponent.
from_bytes(lit) ==
    LET ints == word_cnt(Len(lit.ip))
        IntWord(i) == LET hi == Len(lit.ip) - (ints - 1 - i) * DIGITS_PER_WORD
                      IN  Digits(SubSeq(lit.ip, Greatest(1, hi - DIGITS_PER_WORD + 1), hi))
        FracWord(i) == LET lo == i * DIGITS_PER_WORD + 1
                           hi == Least(lo + DIGITS_PER_WORD - 1, Len(lit.fp))
                       IN  Digits(SubSeq(lit.fp, lo, hi)) * Radix ^ (DIGITS_PER_WORD - (hi - lo + 1))
        words == [i \in 0 .. WORD_BUF_LEN - 1 |->
                    IF i < ints THEN IntWord(i)
                    ELSE IF i < ints + word_cnt(Len(lit.fp)) THEN FracWord(i - ints) ELSE 0]
    IN  [int_cnt |-> Len(lit.ip), frac_cnt |-> Len(lit.fp), word_buf |-> words,
         negative |-> lit.negative /\ \E i \in DOMAIN words : words[i] # 0]

-----------------------------------------------------------------------------
(* Comparison *)

\* The index of the first non-zero integer word, or of the point.
Start(d) ==
    CHOOSE i \in 0 .. IntWords(d) :
        /\ \A j \in 0 .. i - 1 : d.word_buf[j] = 0
        /\ i < IntWords(d) => d.word_buf[i] # 0

\* Variant: trailing zero words are compared too.
Untrimmed(d) ==
    [i \in 1 .. IntWords(d) + FracWords(d) - Start(d) |-> d.word_buf[Start(d) + i - 1]]

\* The words from there to the last non-zero one (zeros before the point are trimmed too).
Trimmed(d) ==
    LET all == [i \in 1 .. IntWords(d) + FracWords(d) - Start(d) |-> d.word_buf[Start(d) + i - 1]]
        ends == {n \in 0 .. Len(all) : \A i \in n + 1 .. Len(all) : all[i] = 0}
    IN  SubSeq(all, 1, CHOOSE n \in ends : \A k \in ends : n <= k)

\* Which of two trimmed magnitudes with as many integer words is the larger one.
LargerWords(a, b) ==
    LET differ == {i \in 1 .. Least(Len(a), Len(b)) : a[i] # b[i]}
        at == CHOOSE i \in differ : \A j \in differ : i <= j
    IN  IF differ # {} THEN IF b[at] > a[at] THEN "rhs" ELSE "lhs"
        ELSE IF Len(a) = Len(b) THEN "none"
        ELSE IF Len(b) > Len(a) THEN "rhs" ELSE "lhs"

\* Which magnitude is the larger one (the code's None, Some(0) and Some(1)).
calc_sub_carry(l, r) ==
    LET l_int == IntWords(l) - Start(l)
        r_int == IntWords(r) - Start(r)
    IN  IF r_int # l_int THEN IF r_int > l_int THEN "rhs" ELSE "lhs"
        ELSE LargerWords(Trimmed(l), Trimmed(r))

\* How many fraction words the subtraction reads: without the trailing zero
\* words when both operands have as many integer words.
FracRead(d, other) ==
    IF IntWords(d) - Start(d) = IntWords(other) - Start(other)
    THEN Greatest(0, Len(Trimmed(d)) - (IntWords(d) - Start(d)))
    ELSE FracWords(d)

cmp(l, r) ==
    IF l.negative # r.negative THEN IF l.negative THEN "Less" ELSE "Greater"
    ELSE LET larger == calc_sub_carry(l, r)
         IN  IF larger = "none" THEN "Equal"
             ELSE IF (larger = "rhs") = l.negative THEN "Greater" ELSE "Less"

hash(d) == <<IntWords(d) - Start(d), Trimmed(d), d.negative /\ Trimmed(d) # <<>> >>

-----------------------------------------------------------------------------
(* Addition and subtraction.  A cursor holds the words written so far, the   *)
(* index of the last one and the carry; words are written from the last to   *)
(* the first.                                                                *)

Cursor(at) == [at |-> at, carry |-> 0, words |-> NoWords]

Write(c, t) == [at |-> c.at - 1, carry |-> t.carry, words |-> [c.words EXCEPT ![c.at - 1] = t.res]]

Copy(c, word) == Write(c, [res |-> word, carry |-> c.carry])

\* The words of p and q added, written before word `end`: the fraction words of p,
\* which has the longer fraction, those of both, then the integer words of one only.
AddWords(p, q, end) ==
    LET longer == IF p.int > q.int THEN p ELSE q
        shorter == Least(p.int, q.int)
        tail == FoldLeft(LAMBDA s, i : Copy(s, p.buf[p.int + p.frac - i]),
                         Cursor(end), Steps(p.frac - q.frac))
        both == FoldLeft(LAMBDA s, i :
                            Write(s, add(p.buf[p.int + q.frac - i], q.buf[q.int + q.frac - i], s.carry)),
                         tail, Steps(q.frac + shorter))
        head == FoldLeft(LAMBDA s, i :
                            Write(s, add(longer.buf[longer.int - shorter - i], 0, s.carry)),
                         both, Steps(longer.int - shorter))
    IN  IF head.carry > 0 THEN Copy(head, 1).words ELSE head.words

do_add(lhs, rhs) ==
    LET x == IF IntWords(lhs) > IntWords(rhs) THEN lhs.word_buf[0]
             ELSE IF IntWords(lhs) < IntWords(rhs) THEN rhs.word_buf[0]
             ELSE lhs.word_buf[0] + rhs.word_buf[0]
        fix == fix_word_cnt_err(
                  Greatest(IntWords(lhs), IntWords(rhs)) + (IF x > WORD_MAX - 1 THEN 1 ELSE 0),
                  Greatest(FracWords(lhs), FracWords(rhs)))
        frac_cnt == Greatest(lhs.frac_cnt, rhs.frac_cnt)
        Read(d) == [buf |-> d.word_buf, int |-> IntWords(d), frac |-> Least(FracWords(d), fix.frac)]
        words == IF Read(lhs).frac > Read(rhs).frac
                 THEN AddWords(Read(lhs), Read(rhs), fix.int + fix.frac)
                 ELSE AddWords(Read(rhs), Read(lhs), fix.int + fix.frac)
    IN  IF fix.kind = "Overflow"
        THEN Overflow(max_decimal(WORD_BUF_LEN * DIGITS_PER_WORD, 0))
        ELSE [kind |-> fix.kind,
              d |-> [int_cnt |-> fix.int * DIGITS_PER_WORD,
                     frac_cnt |-> IF fix.kind = "Ok" THEN frac_cnt
                                  ELSE Least(fix.frac * DIGITS_PER_WORD, frac_cnt),
                     negative |-> lhs.negative, word_buf |-> words]]

\* What a subtraction reads of d: from which word, how many integer and fraction
\* words.
Part(d, other) ==
    [buf |-> d.word_buf, at |-> Start(d), int |-> IntWords(d) - Start(d), frac |-> FracRead(d, other)]

\* The words of p less those of q: the fraction words of one of them only, those of
\* both, then the integer words of p alone.
SubWords(p, q) ==
    LET shared == Least(p.frac, q.frac)
        first == Cursor(p.int + Greatest(p.frac, q.frac))
        tail == IF p.frac > q.frac
                THEN FoldLeft(LAMBDA s, i : Copy(s, p.buf[p.at + p.int + p.frac - i]),
                              first, Steps(p.frac - q.frac))
                ELSE FoldLeft(LAMBDA s, i :
                                Write(s, sub(0, q.buf[q.at + q.int + q.frac - i], s.carry)),
                              first, Steps(q.frac - p.frac))
        both == FoldLeft(LAMBDA s, i :
                            Write(s, sub(p.buf[p.at + p.int + shared - i],
                                         q.buf[q.at + q.int + shared - i], s.carry)),
                         tail, Steps(q.int + shared))
    IN  FoldLeft(LAMBDA s, i : Write(s, sub(p.buf[p.at + p.int - q.int - i], 0, s.carry)),
                 both, Steps(p.int - q.int)).words

\* a - b, where the magnitude of a is the larger one.
SubLarger(a, b, negative) ==
    LET fix == fix_word_cnt_err(IntWords(a) - Start(a), Greatest(FracWords(a), FracWords(b)))
        Cut(n, limit) == IF fix.kind = "Ok" THEN n ELSE Least(n, limit)
        CutPart(p) == [p EXCEPT !.int = Cut(@, fix.int), !.frac = Cut(@, fix.frac)]
    IN  [kind |-> fix.kind,
         d |-> [int_cnt |-> fix.int * DIGITS_PER_WORD,
                frac_cnt |-> Cut(Greatest(a.frac_cnt, b.frac_cnt), fix.frac * DIGITS_PER_WORD),
                negative |-> negative,
                word_buf |-> SubWords(CutPart(Part(a, b)), CutPart(Part(b, a)))]]

do_sub(lhs, rhs) ==
    LET larger == calc_sub_carry(lhs, rhs)
    IN  IF larger = "none" THEN Ok(zero)
        ELSE IF larger = "rhs" THEN SubLarger(rhs, lhs, ~lhs.negative)
        ELSE SubLarger(lhs, rhs, lhs.negative)

Add(l, r) == IF l.negative = r.negative THEN do_add(l, r) ELSE do_sub(l, r)
Sub(l, r) == IF l.negative = r.negative THEN do_sub(l, r) ELSE do_add(l, r)

Neg(d) == IF is_zero(d) THEN d ELSE [d EXCEPT !.negative = ~@]
abs(d) == [d EXCEPT !.negative = FALSE]

-----------------------------------------------------------------------------
(* Multiplication *)

\* One row of the product: every word of rhs times one word of lhs, added in place.
MulRow(m, word, rhs, r_start) ==
    LET Mul(s, i) ==
            LET p == word * rhs.word_buf[r_start - i]
                t == add(s.words[s.at - 1], p % WORD_BASE, s.carry)
            IN  Write(s, [t EXCEPT !.carry = @ + p \div WORD_BASE])
        Ripple(s, i) == IF s.carry > 0 THEN Write(s, add(s.words[s.at - 1], 0, s.carry)) ELSE s
        row == FoldLeft(Mul, [at |-> m.at, carry |-> 0, words |-> m.words], Steps(r_start))
        done == FoldLeft(Ripple, row, Steps(row.at))
    IN  [at |-> m.at - 1, words |-> done.words, over |-> done.carry > 0]

\* The branch for a product with too many integer words is left out: that product
\* has been reported as an overflow before.
do_mul(lhs, rhs) ==
    LET fix == fix_word_cnt_err(word_cnt(lhs.int_cnt + rhs.int_cnt),
                                FracWords(lhs) + FracWords(rhs))
        cut == fix.kind = "Truncated"
        frac_cnt == Least(lhs.frac_cnt + rhs.frac_cnt, NOT_FIXED_DEC)
        lost == FracWords(lhs) + FracWords(rhs) - fix.int
        half == Quot(lost, 2)
        l_less == IF ~cut THEN 0 ELSE IF FracWords(lhs) <= FracWords(rhs) THEN half ELSE lost - half
        r_less == IF ~cut THEN 0 ELSE lost - l_less
        Clamped(n) == Least(Greatest(n, 0), WORD_BUF_LEN)
        l_stop == Clamped(IntWords(lhs) + FracWords(lhs) - l_less)
        r_start == Clamped(IntWords(rhs) + FracWords(rhs) - r_less)
        prod == FoldLeft(LAMBDA m, i : IF m.over \/ m.at < r_start THEN m
                                       ELSE MulRow(m, lhs.word_buf[l_stop - i], rhs, r_start),
                         [at |-> fix.int + fix.frac, words |-> NoWords, over |-> FALSE],
                         Steps(l_stop))
        dec == [int_cnt |-> fix.int * DIGITS_PER_WORD,
                frac_cnt |-> IF cut THEN Least(frac_cnt, fix.frac * DIGITS_PER_WORD) ELSE frac_cnt,
                negative |-> lhs.negative # rhs.negative,
                word_buf |-> prod.words]
        minus0 == dec.negative /\ \A i \in 0 .. fix.int + fix.frac - 1 : prod.words[i] = 0
        \* leading zero words are squeezed out, one integer word is kept
        gone == CHOOSE n \in 0 .. fix.int :
                    /\ \A i \in 0 .. n - 1 : prod.words[i] = 0
                    /\ n >= fix.int - 1 \/ prod.words[n] # 0
        moved == fix.int + word_cnt(dec.frac_cnt) - gone
    IN  IF fix.kind = "Overflow"
        THEN Overflow(New(fix.int * DIGITS_PER_WORD, frac_cnt, lhs.negative # rhs.negative))
        ELSE IF prod.over THEN Overflow(dec)
        ELSE IF minus0 THEN [kind |-> fix.kind, d |-> zero]
        ELSE [kind |-> fix.kind,
              d |-> [dec EXCEPT !.int_cnt = @ - gone * DIGITS_PER_WORD,
                                !.word_buf = [i \in DOMAIN @ |->
                                                IF i < moved THEN @[i + gone] ELSE @[i]]]]

-----------------------------------------------------------------------------
(* Rounding *)

Cleared(words, from, to) == [i \in DOMAIN words |-> IF i \in from .. to THEN 0 ELSE words[i]]

\* The rounded word is normalised: a carry runs to the front and may need one
\* more word, a zero result loses its sign.  (The test of the first digit that
\* follows in the code never holds: int_cnt counts whole words here.)
handle_carry(kind, d, to_idx, frac, frac_word_to, int_word_cnt) ==
    LET Ripple(s, i) == IF s.carry = 1 THEN Write(s, add(s.words[s.at - 1], 0, s.carry)) ELSE s
        run == FoldLeft(Ripple, [at |-> to_idx, carry |-> 1,
                                 words |-> [d.word_buf EXCEPT ![to_idx] = @ - WORD_BASE]],
                        Steps(to_idx))
        full == int_word_cnt + frac_word_to >= WORD_BUF_LEN
        fracs == IF full THEN frac_word_to - 1 ELSE frac_word_to
        shifted == int_word_cnt + Greatest(fracs, 0)
        over == shifted >= WORD_BUF_LEN \/ d.int_cnt >= DIGITS_PER_WORD * WORD_BUF_LEN
        frac_cnt == Greatest(0, IF run.carry > 0 /\ full THEN fracs * DIGITS_PER_WORD ELSE frac)
    IN  IF d.word_buf[to_idx] >= WORD_BASE
        THEN IF run.carry = 0 THEN [kind |-> kind,
                                    d |-> [d EXCEPT !.word_buf = run.words, !.frac_cnt = frac_cnt]]
             ELSE [kind |-> IF over THEN "Overflow" ELSE IF full THEN "Truncated" ELSE kind,
                   d |-> [d EXCEPT !.frac_cnt = frac_cnt,
                                   !.int_cnt = IF @ < DIGITS_PER_WORD * WORD_BUF_LEN THEN @ + 1 ELSE @,
                                   !.word_buf = [i \in DOMAIN @ |->
                                                   IF i = 0 THEN 1
                                                   ELSE IF i <= shifted THEN run.words[i - 1]
                                                   ELSE run.words[i]]]]
        ELSE IF \A i \in 0 .. to_idx : d.word_buf[i] = 0
        THEN Ok([int_cnt |-> 1, negative |-> FALSE, frac_cnt |-> Greatest(0, frac),
                 word_buf |-> Cleared(d.word_buf, 0, frac_word_to)])
        ELSE [kind |-> kind, d |-> [d EXCEPT !.frac_cnt = Greatest(0, frac)]]

handle_incr(kind, d, int_word_cnt, frac_words_to, frac, frac_word_cnt, mode) ==
    LET to == int_word_cnt + frac_words_to - 1
        whole == frac = frac_words_to * DIGITS_PER_WORD
        do_inc == CASE mode = "Ceiling" ->
                          \E i \in to + 1 .. int_word_cnt + frac_word_cnt - 1 : d.word_buf[i] # 0
                    [] mode = "HalfEven" ->
                          d.word_buf[to + 1] \div Radix ^ (DIGITS_PER_WORD - 1) >= Radix \div 2
                    [] mode = "Truncate" -> FALSE
        unit == Radix ^ (frac_words_to * DIGITS_PER_WORD - frac - 1)
        shifted == d.word_buf[to] \div unit
        digit == shifted % Radix
        up == CASE mode = "Ceiling" -> digit > 0
                [] mode = "HalfEven" -> digit >= Radix \div 2
                [] mode = "Truncate" -> FALSE
        words == IF ~whole
                 THEN [d.word_buf EXCEPT ![to] = unit * (shifted - digit + IF up THEN Radix ELSE 0)]
                 ELSE IF ~do_inc THEN d.word_buf
                 ELSE IF to >= 0 THEN [d.word_buf EXCEPT ![to] = @ + 1]
                 ELSE [d.word_buf EXCEPT ![0] = WORD_BASE]
        from == IF frac = 0 /\ int_word_cnt = 0 THEN 1 ELSE int_word_cnt + frac_words_to
        kept == IF frac_words_to < frac_word_cnt
                THEN Cleared(words, from, WORD_BUF_LEN - 1) ELSE words
    IN  IF whole /\ ~do_inc /\ to = -1 THEN Ok(zero)
        ELSE handle_carry(kind, [d EXCEPT !.word_buf = kept], Greatest(to, 0), frac,
                          frac_words_to, int_word_cnt)

round(d, scale, mode) ==
    LET asked == Least(scale, MAX_FRACTION)
        words == IF asked > 0 THEN word_cnt(asked) ELSE Quot(asked + 1, DIGITS_PER_WORD)
        ints == IntWords(d)
        fracs == FracWords(d)
        full == ints + words > WORD_BUF_LEN
        to == IF full THEN WORD_BUF_LEN - ints ELSE words
        frac == IF full THEN to * DIGITS_PER_WORD ELSE asked
        kind == IF full THEN "Truncated" ELSE "Ok"
        wide == [d EXCEPT !.int_cnt = Least(ints, WORD_BUF_LEN) * DIGITS_PER_WORD]
    IN  IF ~full /\ d.int_cnt + frac < 0 THEN Ok(zero)
        ELSE IF to > fracs
        THEN [kind |-> kind, d |-> [wide EXCEPT !.frac_cnt = frac,
                                                !.word_buf = Cleared(@, ints + fracs, ints + to - 1)]]
        ELSE IF frac >= d.frac_cnt THEN [kind |-> kind, d |-> [wide EXCEPT !.frac_cnt = frac]]
        ELSE handle_incr(kind, wide, ints, to, frac, fracs, mode)

ceil(d) == round(d, 0, IF d.negative THEN "Truncate" ELSE "Ceiling")
floor(d) == round(d, 0, IF d.negative THEN "Ceiling" ELSE "Truncate")

-----------------------------------------------------------------------------
(* Conversion to integers of IntBits bits *)

IntMin == -(2 ^ (IntBits - 1))
IntMax == 2 ^ (IntBits - 1) - 1
UintMax == 2 ^ IntBits - 1

\* x as a two's complement integer
Wrapped(x) == ((x - IntMin) % (2 ^ IntBits)) + IntMin

HasFraction(d) == \E i \in IntWords(d) .. IntWords(d) + FracWords(d) - 1 : d.word_buf[i] # 0

\* The integer part is accumulated as a negative number, which reaches further.
as_i64(d) ==
    LET Word(s, i) ==
            LET x == Wrapped(Wrapped(s.x * WORD_BASE) - d.word_buf[i - 1])
            IN  IF s.over \/ s.x < Quot(IntMin, WORD_BASE) \/ x > s.x
                THEN [s EXCEPT !.over = TRUE] ELSE [s EXCEPT !.x = x]
        all == FoldLeft(Word, [x |-> 0, over |-> FALSE], Steps(IntWords(d)))
    IN  IF all.over \/ (~d.negative /\ all.x = IntMin)
        THEN Overflow(IF d.negative THEN IntMin ELSE IntMax)
        ELSE [kind |-> IF HasFraction(d) THEN "Truncated" ELSE "Ok",
              d |-> IF d.negative THEN all.x ELSE -all.x]

as_u64(d) ==
    LET Word(s, i) ==
            IF s.over \/ s.x * WORD_BASE + d.word_buf[i - 1] > UintMax
            THEN [s EXCEPT !.over = TRUE] ELSE [s EXCEPT !.x = @ * WORD_BASE + d.word_buf[i - 1]]
        all == FoldLeft(Word, [x |-> 0, over |-> FALSE], Steps(IntWords(d)))
    IN  IF d.negative THEN Overflow(0)
        ELSE IF all.over THEN Overflow(UintMax)
        ELSE [kind |-> IF HasFraction(d) THEN "Truncated" ELSE "Ok", d |-> all.x]

-----------------------------------------------------------------------------
(* Division and remainder *)

\* Variant: a difference below -WORD_BASE borrows once.
SubBorrowsOnce(a, b, carry) ==
    IF a - b - carry < 0 THEN [res |-> a - b - carry + WORD_BASE, carry |-> 1]
    ELSE [res |-> a - b - carry, carry |-> 0]

sub2(a, b, carry) ==
    LET diff == a - b - carry
    IN  IF diff < -WORD_BASE THEN [res |-> diff + 2 * WORD_BASE, carry |-> 2]
        ELSE IF diff < 0 THEN [res |-> diff + WORD_BASE, carry |-> 1]
        ELSE [res |-> diff, carry |-> 0]

count_leading_zeroes(i, word) == Cardinality({j \in 0 .. i : Radix ^ j > word})

\* The first non-zero word among the leading `prec` digits, and how many digits are left from there.
remove_leading_zeroes(d, prec) ==
    LET words == word_cnt(prec)
        idx == CHOOSE n \in 0 .. words :
                  /\ \A i \in 0 .. n - 1 : d.word_buf[i] = 0
                  /\ n < words => d.word_buf[n] # 0
        cnt == IF idx = 0 THEN prec ELSE (words - idx) * DIGITS_PER_WORD
    IN  [idx |-> idx,
         cnt |-> IF cnt = 0 THEN 0
                 ELSE cnt - count_leading_zeroes((cnt - 1) % DIGITS_PER_WORD, d.word_buf[idx])]

\* One word of the quotient: guess it from the leading words, correct the guess,
\* subtract.  s holds the dividend's words, the place, the word carried in front
\* of it, the quotient and whether an index has left buf; r is the divisor's words, the first one non-zero.
DivStep(s, r, to) ==
    LET norm == WORD_BASE \div (r[1] + 1)
        r_norm == norm * r[1] + (IF Len(r) > 1 THEN (norm * r[2]) \div WORD_BASE ELSE 0)
        x == s.buf[s.at] + s.dcarry * WORD_BASE
        y == s.buf[s.at + 1]
        g0 == Least((norm * x + (norm * y) \div WORD_BASE) \div r_norm, WORD_BASE - 1)
        Less1(g) == IF Len(r) > 1 /\ r[2] * g > (x - g * r[1]) * WORD_BASE + y THEN g - 1 ELSE g
        g1 == Less1(Less1(g0))
        last_at == s.at + Len(r) - 1
        Minus(c, i) ==
            LET p == g1 * r[Len(r) + 1 - i]
                t == sub2(c.buf[last_at + 1 - i], p % WORD_BASE, c.carry)
            IN  [buf |-> [c.buf EXCEPT ![last_at + 1 - i] = t.res], carry |-> t.carry + p \div WORD_BASE]
        Plus(c, i) ==
            LET t == add(c.buf[last_at + 1 - i], r[Len(r) + 1 - i], c.carry)
            IN  [buf |-> [c.buf EXCEPT ![last_at + 1 - i] = t.res], carry |-> t.carry]
        minus == FoldLeft(Minus, [buf |-> s.buf, carry |-> 0], Steps(Len(r)))
        tooMuch == s.dcarry < minus.carry
        plus == FoldLeft(Plus, [buf |-> minus.buf, carry |-> 0], Steps(Len(r)))
        none == s.dcarry = 0 /\ s.buf[s.at] < r[1]
        buf == IF none THEN s.buf ELSE IF tooMuch THEN plus.buf ELSE minus.buf
        guess == IF none THEN 0 ELSE IF tooMuch THEN g1 - 1 ELSE g1
    IN  IF s.panic \/ s.at \notin DOMAIN s.buf
              \/ (~none /\ Greatest(last_at, s.at + 1) \notin DOMAIN s.buf)
        THEN [s EXCEPT !.panic = TRUE]
        ELSE [s EXCEPT !.buf = buf, !.at = @ + 1, !.dcarry = buf[s.at], !.quot[to] = guess]

\* The word carried in front of what is left of the dividend is put back.
Unread(s) ==
    IF s.dcarry # 0 THEN [s EXCEPT !.at = @ - 1, !.buf[s.at - 1] = s.dcarry] ELSE s

\* An index outside buf, a slice that ends before it starts, or a count that is
\* subtracted below zero.
Panic == [kind |-> "Panic", d |-> zero]

\* The remainder is what is left in buf, placed by how many words were consumed.
RemainderOf(s, l, l_frac_cnt, lhs, rhs) ==
    LET at == Unread(s).at
        buf == Unread(s).buf
        int_cnt_to == l.cnt - l_frac_cnt - at * DIGITS_PER_WORD
        ints == IF int_cnt_to < 0 THEN Quot(int_cnt_to, DIGITS_PER_WORD) ELSE word_cnt(int_cnt_to)
        frac_cnt == Greatest(lhs.frac_cnt, rhs.frac_cnt)
        fracs == word_cnt(frac_cnt)
        int_cnt == IF ints <= 0 THEN 0 ELSE Least(ints * DIGITS_PER_WORD, rhs.int_cnt)
        \* integer and fraction words copied, and the zero words before them
        ints2 == Greatest(ints, 0)
        fracs2 == IF ints <= 0 THEN fracs + ints ELSE fracs
        pad == IF ints <= 0 THEN -ints ELSE 0
        excess == Greatest(0, ints2 + fracs2 - WORD_BUF_LEN)
        count == ints2 + fracs2 - excess
        words == [i \in 0 .. WORD_BUF_LEN - 1 |->
                    IF i \in pad .. pad + count - 1 THEN buf[at + i - pad] ELSE 0]
        dec == [int_cnt |-> int_cnt, negative |-> lhs.negative, word_buf |-> words,
                frac_cnt |-> IF excess = 0 THEN frac_cnt ELSE WORD_BUF_LEN - ints2 - ints2]
    IN  IF ints = 0 /\ fracs = 0 THEN Ok(zero)
        ELSE IF ints <= 0 /\ -ints >= WORD_BUF_LEN THEN Truncated(zero)
        ELSE IF ints > WORD_BUF_LEN
        THEN Overflow(New(DIGITS_PER_WORD * WORD_BUF_LEN, 0, lhs.negative))
        ELSE IF fracs2 < 0 \/ at + count - 1 \notin DOMAIN buf \/ dec.frac_cnt < 0 THEN Panic
        ELSE [kind |-> IF excess = 0 THEN "Ok" ELSE "Truncated", d |-> dec]

\* The working copy of the dividend: its words from the first non-zero one, and
\* room for the words the division adds.
DividendWords(d, l, extra) ==
    LET words == word_cnt(l.cnt)
    IN  [i \in 0 .. Greatest(3, words + extra + 1) - 1 |->
            IF i < words THEN d.word_buf[l.idx + i] ELSE 0]

\* The words of the divisor from the first to the last that is not zero.
DivisorWords(d, r) ==
    LET end == r.idx + word_cnt(r.cnt) - 1
        final == CHOOSE n \in r.idx .. end :
                     d.word_buf[n] # 0 /\ \A i \in n + 1 .. end : d.word_buf[i] = 0
    IN  [i \in 1 .. final - r.idx + 1 |-> d.word_buf[r.idx + i - 1]]

\* `count` words of a quotient, the first at index `first`.
LongDivision(buf, r, first, count) ==
    LET skip == buf[0] < r[1]
    IN  FoldLeft(LAMBDA s, i : DivStep(s, r, first + i - 1),
                 [buf |-> buf, at |-> IF skip THEN 1 ELSE 0, dcarry |-> IF skip THEN buf[0] ELSE 0,
                  quot |-> NoWords, panic |-> FALSE],
                 Steps(count))

\* None (a division by zero) is the kind "None".
do_div_mod_impl(lhs, rhs, incr, do_mod) ==
    LET r_frac_cnt == FracWords(rhs) * DIGITS_PER_WORD
        l_frac_cnt == FracWords(lhs) * DIGITS_PER_WORD
        r == remove_leading_zeroes(rhs, rhs.int_cnt + r_frac_cnt)
        l == remove_leading_zeroes(lhs, lhs.int_cnt + l_frac_cnt)
        frac_incr == Greatest(0, incr - (l_frac_cnt - lhs.frac_cnt + r_frac_cnt - rhs.frac_cnt))
        int_cnt_to == (l.cnt - l_frac_cnt) - (r.cnt - r_frac_cnt)
                        + (IF lhs.word_buf[l.idx] >= rhs.word_buf[r.idx] THEN 1 ELSE 0)
        ints == IF int_cnt_to < 0 THEN 0 ELSE word_cnt(int_cnt_to)
        fix == IF do_mod THEN [kind |-> "Ok", int |-> ints, frac |-> 0]
               ELSE fix_word_cnt_err(ints, word_cnt(l_frac_cnt + r_frac_cnt + frac_incr))
        first == IF ~do_mod /\ int_cnt_to < 0
                 THEN Least(-Quot(int_cnt_to, DIGITS_PER_WORD), WORD_BUF_LEN) ELSE 0
        done == LongDivision(DividendWords(lhs, l, word_cnt(2 * r_frac_cnt + frac_incr + 1)),
                             DivisorWords(rhs, r), first, fix.int + fix.frac - first)
    IN  IF r.cnt = 0 THEN [kind |-> "None", d |-> zero]
        ELSE IF l.cnt = 0 THEN Ok(zero)
        ELSE IF done.panic THEN Panic
        ELSE IF do_mod THEN RemainderOf(done, l, l_frac_cnt, lhs, rhs)
        ELSE [kind |-> fix.kind,
              d |-> [int_cnt |-> fix.int * DIGITS_PER_WORD, frac_cnt |-> fix.frac * DIGITS_PER_WORD,
                     negative |-> lhs.negative # rhs.negative, word_buf |-> done.quot]]

Div(l, r) == do_div_mod_impl(l, r, DEFAULT_DIV_FRAC_INCR, FALSE)
Rem(l, r) == do_div_mod_impl(l, r, 0, TRUE)

-----------------------------------------------------------------------------
(* The running value *)

Init ==
    \E lit \in DOMAIN Starts :
        LET d == from_bytes(lit)
        IN  /\ last = [op |-> "literal", l |-> d, r |-> d, arg |-> 0, res |-> Ok(d)]
            /\ left = Starts[lit]

value == last.res.d

\* Any other outcome ends the evaluation with an error.
Usable == last.res.kind \in {"Ok", "Truncated"}

Ready == Usable /\ left > 0

Step(op, l, r, arg, res) ==
    /\ left' = left - 1
    /\ last' = [op |-> op, l |-> l, r |-> r, arg |-> arg, res |-> res]

Others == {from_bytes(lit) : lit \in Literals}

\* A binary operation with a literal, which comes second or first.
Operands == {<<value, other>> : other \in Others} \cup {<<other, value>> : other \in Others}

DoAdd == Ready /\ \E o \in Operands : Step("add", o[1], o[2], 0, Add(o[1], o[2]))
DoSub == Ready /\ \E o \in Operands : Step("sub", o[1], o[2], 0, Sub(o[1], o[2]))
DoMul == Ready /\ \E o \in Operands : Step("mul", o[1], o[2], 0, do_mul(o[1], o[2]))
DoDiv == Ready /\ \E o \in Operands : Step("div", o[1], o[2], 0, Div(o[1], o[2]))
DoRem == Ready /\ \E o \in Operands : Step("rem", o[1], o[2], 0, Rem(o[1], o[2]))
DoRound ==
    Ready /\ \E scale \in Scales, mode \in {"HalfEven", "Truncate"} :
        Step(mode, value, value, scale, round(value, scale, mode))
DoCeil == Ready /\ Step("ceil", value, value, 0, ceil(value))
DoFloor == Ready /\ Step("floor", value, value, 0, floor(value))
DoNeg == Ready /\ Step("neg", value, value, 0, Ok(Neg(value)))

Next == DoAdd \/ DoSub \/ DoMul \/ DoDiv \/ DoRem \/ DoRound \/ DoCeil \/ DoFloor \/ DoNeg

Spec == Init /\ [][Next]_vars

-----------------------------------------------------------------------------
(* Properties *)

\* A magnitude as an integer, in units of the last fraction word.
Magnitude(d) ==
    FoldLeft(LAMBDA n, i : n * WORD_BASE + d.word_buf[i - 1], 0, Steps(IntWords(d) + FracWords(d)))

Signed(d) == IF d.negative THEN -Magnitude(d) ELSE Magnitude(d)

\* The value in units of the f-th fraction word, f >= FracWords(d).
Scaled(d, f) == Signed(d) * WORD_BASE ^ (f - FracWords(d))

Abs(n) == IF n < 0 THEN -n ELSE n

Bounded(d) ==
    /\ d.int_cnt >= 0 /\ d.frac_cnt >= 0 /\ d.int_cnt + d.frac_cnt > 0
    /\ IntWords(d) + FracWords(d) <= WORD_BUF_LEN
    /\ \A i \in DOMAIN d.word_buf : d.word_buf[i] \in 0 .. WORD_MAX

\* Every operation but a product keeps what the next one relies on: every word
\* below WORD_BASE and the counts within the buffer.  No index leaves the division's
\* working copy of the dividend unless the divisor's fraction takes about half of a
\* buffer, where word_cnt! caps the length of that copy.  (A product may break it: ProductBounded.  A truncated remainder
\* records too few fraction digits.)
WordsBounded ==
    /\ last.res.kind = "Panic" =>
          2 * FracWords(last.r) * DIGITS_PER_WORD + DEFAULT_DIV_FRAC_INCR + 1
            > DIGITS_PER_WORD * WORD_BUF_LEN
    /\ /\ Bounded(last.l) /\ Bounded(last.r) /\ Usable
       /\ last.op # "mul" /\ ~(last.op = "rem" /\ last.res.kind = "Truncated")
       => Bounded(value)

\* "A word is an u32 ... can hold 9 digits.(0 <= word < wordbase)", the comment on
\* word_buf.  do_mul adds two words and a carry that may itself fill a word, and
\* takes WORD_BASE off only once, so a word of a product may exceed it.
ProductBounded == last.op = "mul" /\ last.res.kind = "Ok" => Bounded(value)

\* The cursors of do_add and do_sub stay aligned at the point whatever the operands'
\* leading zero words and fractions: a sum or difference reported as Ok is exact,
\* a truncated one is off by less than two units of its last word, and only
\* numbers that fill the leading word are reported as an overflow.
SumExact ==
    last.op \in {"add", "sub"} =>
        LET f == Greatest(FracWords(last.l), FracWords(last.r))
            sum == Scaled(last.l, f) + (IF last.op = "add" THEN 1 ELSE -1) * Scaled(last.r, f)
            unit == WORD_BASE ^ (f - FracWords(value))
        IN  CASE last.res.kind = "Ok" -> Scaled(value, f) = sum
              [] last.res.kind = "Truncated" -> Abs(Scaled(value, f) - sum) < 2 * unit
              [] OTHER -> Abs(sum) >= WORD_MAX * WORD_BASE ^ (WORD_BUF_LEN - 1 + f)

\* A product reported as Ok is exact, cut to the words of NOT_FIXED_DEC digits:
\* the rows are added and shifted at the right place, leading zero words included.
ProductExact ==
    last.op = "mul" /\ last.res.kind = "Ok" =>
        LET f == FracWords(last.l) + FracWords(last.r)
            unit == WORD_BASE ^ (f - FracWords(value))
            exact == Signed(last.l) * Signed(last.r)
        IN  IF last.l.frac_cnt + last.r.frac_cnt <= NOT_FIXED_DEC
            THEN Scaled(value, f) = exact
            ELSE Abs(Scaled(value, f)) = (Abs(exact) \div unit) * unit

\* a * WORD_BASE^k \div b, word by word
LongQuot(a, b, k) ==
    IF k < 0 THEN a \div (b * WORD_BASE ^ (-k))
    ELSE FoldLeft(LAMBDA s, i : [q |-> s.q * WORD_BASE + (s.rem * WORD_BASE) \div b,
                                 rem |-> (s.rem * WORD_BASE) % b],
                  [q |-> a \div b, rem |-> a % b], Steps(k)).q

\* A quotient is the exact one cut after its last word: every guessed word is
\* corrected to the right one, and the first is written at the right place.
QuotExact ==
    last.op = "div" /\ Usable =>
        /\ Magnitude(value) = LongQuot(Magnitude(last.l), Magnitude(last.r),
                                       FracWords(value) - FracWords(last.l) + FracWords(last.r))
        /\ Magnitude(value) # 0 => value.negative = (last.l.negative # last.r.negative)

\* A remainder has the size and the sign of the exact one: the words left in the
\* dividend are placed by the number of words the division consumed.
RemExact ==
    last.op = "rem" /\ last.res.kind = "Ok" =>
        LET f == Greatest(FracWords(last.l), FracWords(last.r))
        IN  /\ Abs(Scaled(value, f)) = Abs(Scaled(last.l, f)) % Abs(Scaled(last.r, f))
            /\ Magnitude(value) # 0 => value.negative = last.l.negative

\* round, ceil and floor give the multiple of the unit asked for, on either side of
\* the point, also when the carry runs through all words and adds one.
RoundExact ==
    last.op \in {"HalfEven", "Truncate", "ceil", "floor"} =>
        LET d == last.l
            scale == Least(last.arg, MAX_FRACTION)
            digits == FracWords(d) * DIGITS_PER_WORD
            unit == Radix ^ Greatest(0, digits - scale)
            low == (Magnitude(d) \div unit) * unit
            up == CASE last.op = "HalfEven" -> 2 * (Magnitude(d) - low) >= unit
                    [] last.op = "Truncate" -> FALSE
                    [] last.op = "ceil" -> ~d.negative /\ low # Magnitude(d)
                    [] last.op = "floor" -> d.negative /\ low # Magnitude(d)
            want == IF up THEN low + unit ELSE low
            f == Greatest(FracWords(d), FracWords(value))
        IN  Usable =>
              Abs(Scaled(value, f)) = want * WORD_BASE ^ (f - FracWords(d))

\* A quotient or a remainder may be a zero that is negative.
NegativeZero(d) == d.negative /\ Magnitude(d) = 0

\* The order is that of the numbers, whatever their representations (leading and
\* trailing zero words, different counts), except that a negative zero is below any
\* other zero: cmp looks at the sign first.  Equal decimals have equal hashes.
OrderExact ==
    \A r \in {last.l, last.r} :
        LET f == Greatest(FracWords(value), FracWords(r))
            a == Scaled(value, f)
            b == Scaled(r, f)
            below == a < b \/ (a = b /\ NegativeZero(value) /\ ~NegativeZero(r))
            above == a > b \/ (a = b /\ ~NegativeZero(value) /\ NegativeZero(r))
        IN  Usable /\ Bounded(value) /\ Bounded(r) =>
            /\ cmp(value, r) = (IF below THEN "Less" ELSE IF above THEN "Greater" ELSE "Equal")
            /\ cmp(value, r) = "Equal" => hash(value) = hash(r)

\* as_i64 and as_u64 give the integer part, saturated, and report an overflow exactly
\* when it does not fit and otherwise a lost fraction exactly when there is one,
\* although they test for overflow after the multiplication has wrapped.  Nothing
\* negative fits as_u64: not a fraction below zero, and not a negative zero.
IntegersExact ==
    Usable =>
        LET int == Magnitude(value) \div WORD_BASE ^ FracWords(value)
            n == IF value.negative THEN -int ELSE int
            i == as_i64(value)
            u == as_u64(value)
        IN  /\ i.d = (IF n < IntMin THEN IntMin ELSE IF n > IntMax THEN IntMax ELSE n)
            /\ (i.kind = "Overflow") = (n < IntMin \/ n > IntMax)
            /\ u.d = (IF value.negative THEN 0 ELSE IF n > UintMax THEN UintMax ELSE n)
            /\ (u.kind = "Overflow") = (value.negative \/ n > UintMax)
            /\ \A c \in {i, u} : c.kind # "Overflow" =>
                  (c.kind = "Ok") = (int * WORD_BASE ^ FracWords(value) = Magnitude(value))

\* What an operation reports as done is what arithmetic on integers gives, whichever
\* operations made its operands: sums, products, quotients, remainders and rounding.
ArithmeticExact == SumExact /\ ProductExact /\ QuotExact /\ RemExact /\ RoundExact

\* What a caller sees of a value (its order, its hash and its conversions to
\* integers) depends on the number and on the sign of a zero, never on how the words
\* represent it.
ObservedExactly == OrderExact /\ IntegersExact
=============================================================================
