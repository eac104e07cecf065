\* A method whose parameter is a forward-declared union.
CONSTANTS
    Inputs <- MCInputs
    MCCases <- ForwardUnionCases

SPECIFICATION DSpec

INVARIANT DecodesAsSpecified

\* decode_type returns: the final state has no successor.
CHECK_DEADLOCK FALSE
