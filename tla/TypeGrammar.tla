---------------------------- MODULE TypeGrammar ----------------------------
(***************************************************************************)
(* The Type AST of an Objective-C type encoding and the encoding of a      *)
(* type, as the grammar of spec section 4.4 gives them.  This module is    *)
(* the reference the decoder of TypesEncoding is checked against: it says *)
(* which strings encode which types, not how the code reads them.          *)
(*                                                                         *)
(* An encoding is a sequence of one-character strings; a name is the       *)
(* sequence of its characters.                                             *)
(***************************************************************************)
EXTENDS Naturals, Sequences, SequencesExt

DigitChars == <<"0", "1", "2", "3", "4", "5", "6", "7", "8", "9">>
Digits     == ToSet(DigitChars)

\* The type specifiers (qualifiers) r n N o O R V A j.
Specifiers == {"r", "n", "N", "o", "O", "R", "V", "A", "j"}

\* The one-character primitive encodings c i s l q C I S L Q f d B v *.
PrimChars == {"c", "i", "s", "l", "q", "C", "I", "S", "L", "Q",
              "f", "d", "B", "v", "*"}

\* The AST nodes (spec section 3, Type).  NoType stands for a nullptr.
NoType       == [k |-> "none"]
Prim(c)      == [k |-> "prim", c |-> c]
ClassT       == [k |-> "class"]
SelectorT    == [k |-> "selector"]
UnknownT     == [k |-> "unknown"]
BlockT       == [k |-> "block"]
Object(n)    == [k |-> "object", name |-> n]
Pointer(t)   == [k |-> "pointer", sub |-> t]
Array(n, t)  == [k |-> "array", dim |-> n, sub |-> t]
Struct(n, f) == [k |-> "struct", name |-> n, fields |-> f]
Union(n, f)  == [k |-> "union", name |-> n, fields |-> f]
Bitfield(n)  == [k |-> "bitfield", size |-> n]

\* The decimal digits of n.
RECURSIVE DecimalOf(_)
DecimalOf(n) ==
    IF n < 10 THEN <<DigitChars[n + 1]>>
              ELSE DecimalOf(n \div 10) \o <<DigitChars[(n % 10) + 1]>>

Quoted(n) == <<"\"">> \o n \o <<"\"">>

\* An aggregate's name: "?" for an anonymous one.
AggregateName(n) == IF n = <<>> THEN <<"?">> ELSE n

\* type := prim | '#' | ':' | '?' | '@' '?' | '@' objname? | '^' type
\*       | '[' digits type ']' | '{' name ('=' field*)? '}'
\*       | '(' name ('=' field*)? ')' | 'b' digits
\* field := ('"' name '"')? type
RECURSIVE Encode(_)
Encode(t) ==
    LET fields(fs) ==
            FlattenSeq([j \in DOMAIN fs |->
                (IF fs[j][1] = <<>> THEN <<>> ELSE Quoted(fs[j][1]))
                    \o Encode(fs[j][2])])
        aggregate(open, close) ==
            <<open>> \o AggregateName(t.name)
                \o (IF t.fields = <<>> THEN <<>> ELSE <<"=">> \o fields(t.fields))
                \o <<close>>
    IN CASE t.k = "prim"     -> <<t.c>>
         [] t.k = "class"    -> <<"#">>
         [] t.k = "selector" -> <<":">>
         [] t.k = "unknown"  -> <<"?">>
         [] t.k = "block"    -> <<"@", "?">>
         [] t.k = "object"   -> <<"@">> \o (IF t.name = <<>> THEN <<>> ELSE Quoted(t.name))
         [] t.k = "pointer"  -> <<"^">> \o Encode(t.sub)
         [] t.k = "array"    -> <<"[">> \o DecimalOf(t.dim) \o Encode(t.sub) \o <<"]">>
         [] t.k = "struct"   -> aggregate("{", "}")
         [] t.k = "union"    -> aggregate("(", ")")
         [] t.k = "bitfield" -> <<"b">> \o DecimalOf(t.size)

\* encoded := (specifier* type digits*)*: a method signature, each type
\* after its qualifiers qs[j] and followed by the digits offs[j] of its
\* frame offset.
EncodeSignature(ts, qs, offs) ==
    FlattenSeq([j \in DOMAIN ts |-> qs[j] \o Encode(ts[j]) \o offs[j]])

=============================================================================
