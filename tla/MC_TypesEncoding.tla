------------------------- MODULE MC_TypesEncoding -------------------------
(***************************************************************************)
(* decode_type over small families of inputs.  A case pairs an encoded    *)
(* string with the types spec section 4.4 says it decodes to.              *)
(***************************************************************************)
EXTENDS TypesEncoding

\* The types of a C aggregate's fields and of array elements.
CLeaf  == {Prim("i"), Prim("d")}
CInner == CLeaf \cup {Pointer(Prim("c")), Array(2, Prim("i")),
                      Struct(<<"T">>, <<>>), Struct(<<"T">>, <<<<<<>>, Prim("d")>>>>)}
CField == {<<n, t>> : n \in {<<>>, <<"a">>}, t \in CInner \cup {Bitfield(3)}}
CFields == {<<f>> : f \in CField} \cup {<<<<<<>>, Prim("i")>>, f>> : f \in CField}

\* Struct and union encodings, named and anonymous.
Aggregates ==
    {Struct(n, fs) : n \in {<<"S">>, <<>>}, fs \in CFields \cup {<<>>}}
        \cup {Union(n, fs) : n \in {<<"U">>, <<>>}, fs \in CFields}

\* The types a method signature or an ivar encoding holds at top level.
TopTypes ==
    CLeaf \cup Aggregates \cup
    {ClassT, SelectorT, UnknownT, BlockT, Object(<<>>), Object(<<"N">>),
     Pointer(Prim("v")), Pointer(Struct(<<"S">>, <<>>)), Pointer(Pointer(Prim("i"))),
     Array(3, Struct(<<"S">>, <<<<<<>>, Prim("d")>>>>))}

Offset(n) == DecimalOf(n)

\* A method "<ret><size>@0:8<qualifiers><param>16", the shape clang emits,
\* and an ivar type on its own.
MethodCase(ret, q, p) ==
    <<EncodeSignature(<<ret, Object(<<>>), SelectorT, p>>,
                      <<<<>>, <<>>, <<>>, q>>,
                      <<Offset(24), Offset(0), Offset(8), Offset(16)>>),
      <<ret, Object(<<>>), SelectorT, p>>>>
IvarCase(t) == <<Encode(t), <<t>>>>

WellFormedCases ==
    {MethodCase(ret, q, p) : ret \in {Prim("v")},
                             q \in {<<>>, <<"r">>, <<"n", "o">>},
                             p \in TopTypes}
        \cup {IvarCase(t) : t \in TopTypes}

\* Sizes and widths of more than one digit.
MultiDigitCases ==
    {IvarCase(Array(12, Prim("c"))),
     IvarCase(Struct(<<"S">>, <<<<<<>>, Bitfield(12)>>>>)),
     IvarCase(Array(2, Prim("c")))}

\* A forward-declared union, (Name) with no '='.
ForwardUnionCases ==
    {MethodCase(Prim("v"), <<>>, Union(<<"U">>, <<>>)),
     MethodCase(Prim("v"), <<>>, Union(<<"U">>, <<<<<<>>, Prim("i")>>>>))}

\* A character no rule of the grammar starts with: decoding stops there
\* and the types before it are returned.
UnsupportedCases ==
    {<<Encode(Prim("i")) \o <<x>> \o Encode(t), <<Prim("i")>>>> :
        x \in {"X", "%"}, t \in {Prim("d"), Pointer(Prim("i"))}}

MCCases == WellFormedCases

\* Every string of up to MaxLen characters of Alphabet.
Alphabet == {"{", "}", "(", ")", "[", "]", "=", "\"", "^", "@", "?", "2", "i", "X"}
MaxLen   == 5
AllStrings == UNION {[1..n -> Alphabet] : n \in 0..MaxLen}

MCInputs == {c[1] : c \in MCCases}

\* The cases with their expected types, and every short string.
AllInputs == MCInputs \cup AllStrings

\* What spec section 4.4 says decode_type returns for each input.
Expected == [e \in MCInputs |-> (CHOOSE c \in MCCases : c[1] = e)[2]]

\* decode_type returns the types the input encodes (spec 4.4 and the
\* round-trip property of spec 8), frame offsets and qualifiers skipped:
\* what it has decoded so far is always a prefix of them, and at the end
\* it is all of them.  Strings that are not cases are not constrained.
DecodesAsSpecified ==
    encoded \in MCInputs =>
        /\ IsPrefix(types, Expected[encoded])
        /\ DecodeDone => types = Expected[encoded]

=============================================================================
