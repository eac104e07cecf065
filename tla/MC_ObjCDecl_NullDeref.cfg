CONSTANTS
    PtrBits <- MCPtrBits
    TagBits <- MCTagBits
    OffBits <- MCOffBits
    ListBits <- MCListBits
    Images <- MCImages
SPECIFICATION Spec
INVARIANT NoNullDereference
\* generate() returns once the class or protocol is declared.
CHECK_DEADLOCK FALSE
