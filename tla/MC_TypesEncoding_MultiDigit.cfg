\* An array size and a bitfield width of two digits.
CONSTANTS
    Inputs <- MCInputs
    MCCases <- MultiDigitCases

SPECIFICATION DSpec

INVARIANT DecodesAsSpecified

\* decode_type returns: the final state has no successor.
CHECK_DEADLOCK FALSE
