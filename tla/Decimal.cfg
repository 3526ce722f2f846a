\* Radix 6, two digits to a word, three words.
CONSTANTS
    Radix = 6
    DIGITS_PER_WORD = 2
    WORD_BUF_LEN = 3
    MAX_FRACTION = 2
    NOT_FIXED_DEC = 3
    DEFAULT_DIV_FRAC_INCR = 1
    IntBits = 14
    ChainLen = 1
    StartLen = 4
    LiteralLen = 2
    Starts <- MCStarts
    Literals <- MCLiterals
    Scales <- MCScales
SPECIFICATION Spec
INVARIANTS ArithmeticExact WordsBounded ObservedExactly
CHECK_DEADLOCK FALSE
