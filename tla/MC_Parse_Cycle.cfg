\* Every superclass graph on three classes, cycles included.
CONSTANTS
    p1 = p1
    p2 = p2
    c1 = c1
    c2 = c2
    c3 = c3
    nA = nA
    nB = nB
    NULL = NULL
    ProtoAddr <- MCProtoAddr
    ClassAddr <- MCClassAddr
    Names <- MCNames
    Images <- HierarchyAllImages
    MaxDepth <- MCMaxDepth

SPECIFICATION Spec

INVARIANT RecursionBounded

\* parse() returns, or the process dies of a stack overflow: either way the
\* final state has no successor.
CHECK_DEADLOCK FALSE
