CONSTANTS
    PtrBits <- MCPtrBits
    TagBits <- MCTagBits
    OffBits <- MCOffBits
    ListBits <- MCListBits
    Images <- MCImages
SPECIFICATION Spec
INVARIANT MethodReadAsSpecified
INVARIANT ClassReadAsSpecified
INVARIANT IvarsReadAsSpecified
\* generate() returns once the class or protocol is declared.
CHECK_DEADLOCK FALSE
