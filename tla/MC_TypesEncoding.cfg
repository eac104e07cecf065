\* Method signatures and ivar types the grammar of spec 4.4 covers, and
\* every string of up to MaxLen characters over Alphabet: unterminated and
\* unbalanced aggregates, arrays without a size, stray quotes.
CONSTANTS
    Inputs <- AllInputs

SPECIFICATION DSpec

INVARIANT DecodesAsSpecified
INVARIANT IteratorInRange
INVARIANT IterationsBounded

\* decode_type returns: the final state has no successor.
CHECK_DEADLOCK FALSE
