--------------------------- MODULE MachOAddress ---------------------------
(***************************************************************************)
(* The address arithmetic of the parser and of MachOStream: how a pointer  *)
(* read from metadata becomes a virtual address (Parser::decode_ptr), how  *)
(* a self-relative int32 of small_method_t is added to a position, and    *)
(* how MachOStream::read_at finds the segment a virtual address lies in.  *)
(*                                                                         *)
(* Widths are scaled so that TLC's integers hold them: uintptr_t has      *)
(* PtrBits bits (64 in the code), decode_ptr keeps the low TagBits (51),  *)
(* and a self-relative field has OffBits (32).  Addresses count units of  *)
(* four bytes: an int32 field is one unit, a uintptr_t two.               *)
(*                                                                         *)
(* A binary `bin` is a record: its imagebase, its memory_base_address,    *)
(* its segments [va, vmsize, filesize] and the values its file content    *)
(* holds at the virtual addresses that matter (mem).                      *)
(***************************************************************************)
EXTENDS Integers, Bitwise

CONSTANTS
    PtrBits,     \* bits of uintptr_t and size_t
    TagBits,     \* low bits decode_ptr keeps: (1llu << 51) - 1
    OffBits,     \* bits of a small_method_t field
    ListBits     \* bits of method_list_t::entsize_and_flags (32)

ASSUME PtrBits \in Nat /\ TagBits \in 1..PtrBits - 1 /\ OffBits \in 1..PtrBits
ASSUME ListBits \in Nat /\ ListBits >= 4 /\ ListBits % 2 = 0

Word == 2^PtrBits

\* size_t and uintptr_t arithmetic wraps.
Wrap(x) == x % Word

\* Field sizes and offsets in units (Types.hpp: method_t<int32_t> and
\* method_t<uintptr_t>; offsetof(small_method_t, types) is four bytes).
SmallField     == 1
SizeofSmall    == 3 * SmallField
SizeofBig      == 6
OffsetofTypes  == SmallField
OffsetofImp    == 2 * SmallField

\* method_list_t: FLAG_MASK 0xffff0003 (the high half and the two low bits)
\* and IS_SMALL 0x80000000, at ListBits bits; the header is two uint32_t.
FLAG_MASK == 2^ListBits - 2^(ListBits \div 2) + 3
IS_SMALL  == 2^(ListBits - 1)
flags(entsize_and_flags) == entsize_and_flags & FLAG_MASK
SizeofMethodList == 2 * SmallField

\* objc_class_t and class_ro_t, in units (0x28 and 0x48 bytes).
SizeofObjcClass == 10
SizeofClassRo   == 18

\* ivars_list_t and properties_list_t: two uint32_t, like method_list_t;
\* ivar_t: offset, name and type pointers, then alignment_raw and size
\* (0x20 bytes); property_t: name and attributes pointers (0x10 bytes).
SizeofListHeader == 2 * SmallField
SizeofProperty   == 4

\* Mutation of SizeofIvar: the two uint32_t after the pointers forgotten.
SizeofIvarNoTail == 6

SizeofIvar == 8

\* class_data_bits_t::class_ro_ptr: bits & FAST_DATA_MASK.  The mask
\* (0x00007ffffffffff8) clears the flag bits below the eight-byte alignment
\* of a class_ro_t (the runtime's Swift flags), here the low unit bit, and
\* the bits above the address space, here those from TagBits on.  In the
\* code the mask ends at bit 46 while decode_ptr keeps bits up to 50, so a
\* tag in bits 47..50 survives decode_ptr but not the mask; at this width
\* both end at TagBits, and that difference is not modelled.
FAST_DATA_MASK == 2^TagBits - 2

\* Mutation of class_ro_ptr: the flag bits are kept.
class_ro_ptr_unmasked(bits) == bits

class_ro_ptr(bits) == bits & FAST_DATA_MASK

\* An int32_t field stored as its bit pattern u, converted to size_t for
\* pos + field: sign-extended, then taken modulo 2^64.
SignedField(u) == IF u >= 2^(OffBits - 1) THEN u - 2^OffBits ELSE u

\* Mutation of AddOffset: the field is taken as unsigned (uint32_t).
AddOffsetUnsigned(pos, u) == Wrap(pos + u)

AddOffset(pos, u) == Wrap(pos + SignedField(u))

\* Parser::decode_ptr: strip the tag bits, rebase a value below imagebase.
decode_ptr(bin, ptr) ==
    LET decoded == ptr % 2^TagBits
    IN  IF bin.imagebase > 0 /\ decoded < bin.imagebase
        THEN decoded + bin.imagebase
        ELSE decoded

\* Binary::segment_from_virtual_address: the segments whose virtual range
\* holds a (segments do not overlap, so there is at most one).
SegmentsAt(bin, a) == {s \in bin.segments : s.va <= a /\ a < s.va + s.vmsize}

NoRead == [ok |-> FALSE]

\* Content this model does not name is zero bytes.
ZeroCell == [k |-> "zero"]

\* MachOStream::read_at(offset, size): an offset above memory_base_address
\* is moved from the shared-cache address space to the image's; then the
\* segment holding it is found and the read lands delta bytes into its
\* content.  size is not looked at, and MachOStream::size() is -1, so
\* BinaryStream::peek never refuses a read either.
read_at(bin, offset, size) ==
    LET r == IF bin.membase > 0 /\ offset > bin.membase
             THEN Wrap(offset - bin.membase + bin.imagebase)
             ELSE offset
    IN  IF SegmentsAt(bin, r) = {} THEN NoRead
        ELSE LET s == CHOOSE x \in SegmentsAt(bin, r) : TRUE
             IN  [ok |-> TRUE, seg |-> s, delta |-> r - s.va, addr |-> r]

\* BinaryStream::peek<T>(offset) and peek_string_at(offset): the cell the
\* content holds where read_at lands, or NoRead.
peek(bin, offset, size) ==
    LET rd == read_at(bin, offset, size)
    IN  IF ~rd.ok THEN NoRead
        ELSE [ok |-> TRUE,
              cell |-> IF rd.addr \in DOMAIN bin.mem THEN bin.mem[rd.addr] ELSE ZeroCell]

\* A cell read as a T.  The bytes of an object of another kind are not
\* modelled: they read as zeros do.
AsWord(c) == IF c.k = "word" THEN c.v ELSE 0
AsStr(c)  == IF c.k = "str" THEN c.s ELSE <<>>
AsEntry(c, kind) ==
    IF c.k = kind THEN c
    ELSE [k |-> kind, name |-> 0, types |-> 0, imp |-> 0, ef |-> 0, count |-> 0]
AsClass(c) == IF c.k = "objc_class" THEN c ELSE [k |-> "objc_class", super |-> 0, bits |-> 0]
AsRo(c)    == IF c.k = "ro" THEN c
              ELSE [k |-> "ro", name |-> 0, base_method_list |-> 0,
                    ivars |-> 0, base_properties |-> 0]
AsIvar(c)  == IF c.k = "ivar" THEN c ELSE [k |-> "ivar", name |-> 0, type |-> 0]
AsProp(c)  == IF c.k = "prop" THEN c ELSE [k |-> "prop", name |-> 0]

=============================================================================
