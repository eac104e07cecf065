--------------------------- MODULE TypesEncoding ---------------------------
(***************************************************************************)
(* decode_type (src/src/ObjC/TypesEncoding.cpp): the recursive descent     *)
(* over an encoded type string.                                            *)
(*                                                                         *)
(* The string iterator `it` is a position i in 1..Len(s)+1 (Len(s)+1 is    *)
(* std::end).  Each reader returns the position it leaves the iterator    *)
(* at: a parse function returns [t |-> the Type or NoType, i |-> position] *)
(* The loop of decode_type is the state machine; the functions it calls   *)
(* are operators.                                                          *)
(***************************************************************************)
EXTENDS TypeGrammar

CONSTANT Inputs          \* the encoded strings decode_type may be given

ASSUME Inputs \subseteq Seq(STRING)

At(s, i, c) == i <= Len(s) /\ s[i] = c

\* The first position from i on whose character is in S (stopIn) or not in
\* S (~stopIn), or the end.
Scan(s, i, S, stopIn) ==
    LET k == SelectInSubSeq(s, i, Len(s), LAMBDA c : (c \in S) = stopIn)
    IN  IF k = 0 THEN Len(s) + 1 ELSE k

\* skip_digits: frame offsets between types (is_digit: c \in Digits).
skip_digits(s, i) == Scan(s, i, Digits, FALSE)

\* Mutation of read_opt_name: the closing quote is skipped without the
\* it != end test.
read_opt_name_unguarded(s, i) ==
    IF ~At(s, i, "\"") THEN [name |-> <<>>, i |-> i]
    ELSE LET j == Scan(s, i + 1, {"\""}, TRUE)
         IN  [name |-> SubSeq(s, i + 1, j - 1), i |-> j + 1]

\* read_opt_name: a '"'-quoted name, or nothing.
read_opt_name(s, i) ==
    IF ~At(s, i, "\"") THEN [name |-> <<>>, i |-> i]
    ELSE LET j == Scan(s, i + 1, {"\""}, TRUE)
         IN  [name |-> SubSeq(s, i + 1, j - 1),
              i    |-> IF j <= Len(s) THEN j + 1 ELSE j]

\* read_str_number: n = *it++ for every digit, so n is the last digit only.
read_str_number(s, i) ==
    LET j == skip_digits(s, i)
    IN  [n |-> IF j = i THEN <<>> ELSE <<s[j - 1]>>, i |-> j]

\* std::strtoull(n, &endp, 10) of a string of digits.
strtoull(n) ==
    FoldLeft(LAMBDA acc, d : 10 * acc + (CHOOSE v \in 0..9 : DigitChars[v + 1] = d),
             0, n)

\* process_specifier: one qualifier character is consumed; its value is
\* returned and dropped by every caller.
process_specifier(s, i) ==
    IF i <= Len(s) /\ s[i] \in Specifiers THEN i + 1 ELSE i

\* The do { } while loop of process: specifiers until UNKNOWN or the end.
RECURSIVE skip_specifiers(_, _)
skip_specifiers(s, i) ==
    LET j == process_specifier(s, i)
    IN  IF j # i /\ j <= Len(s) THEN skip_specifiers(s, j) ELSE j

RECURSIVE process(_, _), process_array(_, _), process_structure(_, _),
          process_union(_, _), fields(_, _, _, _), array_body(_, _, _)

\* The field loop of process_structure and process_union:
\*   while (it != end && *it != close) { name = read_opt_name; process }
fields(s, i, close, fs) ==
    IF i > Len(s) \/ s[i] = close THEN [fs |-> fs, i |-> i]
    ELSE LET nm == read_opt_name(s, i)
             r  == process(s, nm.i)
         IN  fields(s, r.i, close, Append(fs, <<nm.name, r.t>>))

\* The loop of process_array: every type up to ']' overwrites the last.
array_body(s, i, t) ==
    IF i > Len(s) \/ s[i] = "]" THEN [t |-> t, i |-> i]
    ELSE LET r == process(s, i) IN array_body(s, r.i, r.t)

\* An aggregate after its opening character: '?', the name up to one of
\* nameStop, '=', then no fields or fields up to close.  kind is "struct"
\* or "union".
Aggregate(s, i, nameStop, close, kind) ==
    LET i1 == IF At(s, i, "?") THEN i + 1 ELSE i
        i2 == Scan(s, i1, nameStop, TRUE)
        nm == SubSeq(s, i1, i2 - 1)
        i3 == IF At(s, i2, "=") THEN i2 + 1 ELSE i2
        f  == fields(s, i3, close, <<>>)
        made(fs) == [k |-> kind, name |-> nm, fields |-> fs]
    IN  CASE At(s, i2, close)  -> [t |-> made(<<>>), i |-> i2 + 1]
          [] At(s, i3, close)  -> [t |-> made(<<>>), i |-> i3 + 1]
          [] At(s, f.i, close) -> [t |-> made(f.fs), i |-> f.i + 1]
          [] OTHER             -> [t |-> NoType, i |-> f.i]

\* Mutation of process_structure: the name loop of process_union, which
\* stops at '=' only.
process_structure_name_to_eq(s, i) == Aggregate(s, i, {"="}, "}", "struct")

\* process_structure: the name stops at '=' or '}'.
process_structure(s, i) == Aggregate(s, i, {"=", "}"}, "}", "struct")

\* process_union: the name stops at '=' only.
process_union(s, i) == Aggregate(s, i, {"="}, ")", "union")

\* process_bitfield: 'b' and its width.
process_bitfield(s, i) ==
    LET r == read_str_number(s, i)
    IN  IF r.n = <<>> THEN [t |-> NoType, i |-> r.i]
                      ELSE [t |-> Bitfield(strtoull(r.n)), i |-> r.i]

\* process_array: '[' digits, the body, ']'.
process_array(s, i) ==
    LET r == read_str_number(s, i)
        b == array_body(s, r.i, NoType)
    IN  CASE r.n = <<>>       -> [t |-> NoType, i |-> r.i]
          [] At(s, b.i, "]")  -> [t |-> Array(strtoull(r.n), b.t), i |-> b.i + 1]
          [] OTHER            -> [t |-> NoType, i |-> b.i]

\* process: frame offsets, qualifiers, then one type by its lead character,
\* which is consumed whatever it is.
process(s, i) ==
    LET i1 == skip_digits(s, i)
        i2 == skip_specifiers(s, i1)
        c  == s[i2]
        j  == i2 + 1
    IN  CASE i1 > Len(s) -> [t |-> NoType, i |-> i1]
          [] i2 > Len(s) -> [t |-> NoType, i |-> i2]
          [] c \in PrimChars -> [t |-> Prim(c), i |-> j]
          [] c = "#" -> [t |-> ClassT, i |-> j]
          [] c = ":" -> [t |-> SelectorT, i |-> j]
          [] c = "?" -> [t |-> UnknownT, i |-> j]
          [] c = "[" -> process_array(s, j)
          [] c = "{" -> process_structure(s, j)
          [] c = "(" -> process_union(s, j)
          [] c = "b" -> process_bitfield(s, j)
          [] c = "^" /\ At(s, j, "?") -> [t |-> Pointer(Prim("v")), i |-> j + 1]
          [] c = "^" -> LET r == process(s, j)
                        IN  [t |-> IF r.t = NoType THEN NoType ELSE Pointer(r.t),
                             i |-> r.i]
          [] c = "@" /\ At(s, j, "?") -> [t |-> BlockT, i |-> j + 1]
          [] c = "@" -> LET nm == read_opt_name(s, j)
                        IN  [t |-> Object(nm.name), i |-> nm.i]
          [] OTHER -> [t |-> NoType, i |-> j]

-----------------------------------------------------------------------------
(* decode_type: the loop over top-level types                              *)

VARIABLES
    encoded,     \* the argument
    it,          \* the iterator
    types,       \* the vector returned
    iterations   \* ghost: iterations of the while loop so far

dvars == <<encoded, it, types, iterations>>

DInit ==
    /\ encoded \in Inputs
    /\ it = 1
    /\ types = <<>>
    /\ iterations = 0

\* One iteration: a specifier, then process; a non-null type is kept.
Decoded == process(encoded, process_specifier(encoded, it))

DecodeType ==
    /\ it <= Len(encoded)
    /\ Decoded.t # NoType
    /\ it' = Decoded.i
    /\ types' = Append(types, Decoded.t)
    /\ iterations' = iterations + 1
    /\ UNCHANGED encoded

\* Mutation of DropType: after a nullptr the iterator is put back where the
\* iteration started.
DropTypeRewinds ==
    /\ it <= Len(encoded)
    /\ Decoded.t = NoType
    /\ it' = it
    /\ iterations' = iterations + 1
    /\ UNCHANGED <<encoded, types>>

\* process returned nullptr: nothing is kept and the loop goes on.
DropType ==
    /\ it <= Len(encoded)
    /\ Decoded.t = NoType
    /\ it' = Decoded.i
    /\ iterations' = iterations + 1
    /\ UNCHANGED <<encoded, types>>

DNext == DecodeType \/ DropType

\* decode_type is a plain function call: each iteration is taken.
DSpec == DInit /\ [][DNext]_dvars /\ WF_dvars(DNext)

DecodeDone == it > Len(encoded)

-----------------------------------------------------------------------------
(* Properties                                                              *)

\* The iterator never moves past std::end: every ++it of the readers is
\* guarded by it != end, so the position decode_type holds stays within
\* 1..Len+1.  This is about the moves of the iterator only.  Not every
\* *it is guarded: the error message of process_struct (line 108) reads
\* *it at end() for every struct that lacks its '}', a read that only
\* feeds the log and that the model leaves out.
IteratorInRange == it \in 1..Len(encoded) + 1

\* decode_type returns on every input, after at most one iteration per
\* character: each iteration consumes at least one character, whatever
\* process makes of it (an unsupported lead character included).
IterationsBounded == iterations <= Len(encoded)

=============================================================================
