\* Registry images whose protolist names no protocol twice.
CONSTANTS
    p1 = p1
    p2 = p2
    c1 = c1
    c2 = c2
    c3 = c3
    nA = nA
    nB = nB
    NULL = NULL
    ProtoAddr <- MCProtoAddr
    ClassAddr <- MCClassAddr
    Names <- MCNames
    Images <- RegistryListedOnce
    MaxDepth <- MCMaxDepth

SPECIFICATION Spec

INVARIANT ProtocolUniquePerOffset

\* parse() returns: the final state has no successor.
CHECK_DEADLOCK FALSE
