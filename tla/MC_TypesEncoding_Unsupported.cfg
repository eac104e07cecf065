\* A character no rule of the grammar starts with, between two types.
CONSTANTS
    Inputs <- MCInputs
    MCCases <- UnsupportedCases

SPECIFICATION DSpec

INVARIANT DecodesAsSpecified

\* decode_type returns: the final state has no successor.
CHECK_DEADLOCK FALSE
