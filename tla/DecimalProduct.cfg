\* Ten digits, one to a word: 95 * 959.
CONSTANTS
    Radix = 10
    DIGITS_PER_WORD = 1
    WORD_BUF_LEN = 5
    MAX_FRACTION = 3
    NOT_FIXED_DEC = 4
    DEFAULT_DIV_FRAC_INCR = 1
    IntBits = 14
    ChainLen = 1
    StartLen = 2
    LiteralLen = 3
    Starts <- MCStarts
    Literals <- MCLiterals
    Scales <- MCScales
SPECIFICATION Spec
INVARIANT ProductBounded
CHECK_DEADLOCK FALSE
