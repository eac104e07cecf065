# TLA+ models of iCDump

iCDump reads the Objective-C metadata of a Mach-O image and returns a
`Metadata` catalog: protocols, classes with their methods, ivars and
properties, and two name indices. It also ships a decoder for Objective-C
type encodings. This directory holds TLA+ models of the parser, the decoder, the address
arithmetic of the stream and the Clang declaration generator, checked
with TLC.

## The system

| Part | Source | What it does |
|---|---|---|
| Entry point | `src/src/iCDump.cpp` | loads the file with LIEF, takes the ARM64 slice, else X86_64, and calls `Parser::parse` |
| MetadataParser | `src/src/ObjC/Parser.cpp` | `parse` = `process_protocols` then `process_classes`; `get_or_create_protocol`; `decode_ptr` |
| Class creation | `src/src/ObjC/Class.cpp` | `Class::create`: reads `objc_class_t`, `class_ro_t` and the name; recurses into the superclass; walks the method, protocol, ivar and property lists |
| Protocol creation | `src/src/ObjC/Protocol.cpp` | `Protocol::create`: the four method lists and the property list |
| Entities | `Method.cpp`, `IVar.cpp`, `Property.cpp` | `create` peeks one on-disk entry |
| Catalog | `src/src/ObjC/Metadata.cpp` | `protocols_`, `classes_`, and `get_protocol`/`get_class` by name |
| Stream | `src/src/MachOStream.cpp` | virtual-address reads, rebased by `memory_base_address` |
| TypeDecoder | `src/src/ObjC/TypesEncoding.cpp` | recursive descent over a type-encoding string |
| Declaration generator | `src/src/ClangAST/ASTGen.cpp`, `utils.cpp` | `generate()`: `decl_class`/`decl_protocol`, `decl_method`, `decl_ivar`, `get_qtype` |
| Not modelled | `log.cpp`, `iterators.hpp`, `bindings/` | logging, iterator adaptors, Python wrappers |

**How the parts interact.** The parser owns a stream positioned by
`ScopedStream` guards. `process_protocols` creates one `Protocol` for each
readable `__objc_protolist` entry. It records each one by offset in
`Parser::protocols_` and by name in `Metadata::protocol_lookup_`.

`process_classes` calls `Class::create` for each `__objc_classlist` entry.
- That call recurses into the superclass when the pointer is non-null and
  is not the class's own position.
- It moves the superclass's methods into the subclass with
  `is_instance_ = false`.
- It resolves each protocol reference through `get_or_create_protocol`.

Everything runs synchronously on one thread.

**Where behaviour is hard to get right.**
- A protocol can be created in two places, and only one of them records its
  offset.
- The name indices are overwritten by later entities of the same name.
- The superclass recursion is guarded only against self-reference.
- Some list loops break at a failed entry while others skip it.
- The superclass object is dropped after its methods are adopted.

## Modules

| Module | Role |
|---|---|
| `ObjCImage` | The image as the parser sees it, plus the pure creators (`Protocol::create`, the entity creators, the list loops of `Class::create`) as operators. |
| `ObjCParser` | `Parser::parse` and the recursive `Class::create` as a state machine. |
| `ObjCCatalog` | The abstract specification of the catalog `parse()` returns. |
| `MC_Parse` | Instantiates `ObjCParser` over images with protocols, protocol references and name collisions (the registry images) and over three-class superclass graphs (the hierarchy images). |
| `TypeGrammar` | The Type AST and the encoder of the grammar of spec section 4.4: the reference the decoder is checked against. |
| `TypesEncoding` | `decode_type` and the readers it calls (`TypesEncoding.cpp`). |
| `MC_TypesEncoding` | Input families for `TypesEncoding`: encoder-built cases with their expected types, and every short string of delimiters. |
| `MachOAddress` | `Parser::decode_ptr`, `MachOStream::read_at`, `peek`, the `method_list_t` flags and the self-relative `small_method_t` arithmetic, as operators over scaled widths. |
| `ObjCDecl` | For a class, `Class::create` at the address level (`objc_class_t`, `class_ro_ptr`, `class_ro_t`, the name, the method list, the ivars list and the properties list); `Method::create`, `IVar::create` and `Property::create` in full; then `generate()` of the class or protocol: `decl_method` over `Method::prototype` (the decoder of `TypesEncoding`, by `INSTANCE`), `decl_ivar` over `IVar::type` for each ivar, `decl_property`, and `get_qtype` with `search()` over the ivars already declared. |
| `MC_ObjCDecl` | Scenarios for `ObjCDecl`: binaries built from the chained-pointer and relative-offset encodings. |

### ObjCImage

An image is a record:
- `protolist` and `classlist`: the two sections, where a missing section
  is the empty list;
- `proto[a]`: the `protocol_t` at each protocol address;
- `class[a]`: the `objc_class_t` and its `class_ro_t` at each class address.

Pointers are given as the addresses `decode_ptr` yields.

A structure either can be peeked or cannot (`ok`). Each list entry is a
BOOLEAN: whether `Method::create`, `IVar::create` or `Property::create`
succeeds on it, since a failed peek is their only failure. Names are model
values. An entity is identified by the slot it was read from,
`<<owner, list, index>>`.

The two loop shapes of the code are two operators:
- `ReadableSlots` is a loop that skips failures (the protocol method lists,
  ivars and properties);
- `ReadablePrefix` is a loop that breaks at the first failure
  (`base_method_list`).

`ProtocolCreate` routes the lists as `Protocol.cpp` does:
- the instance methods, then the class methods, go into `required`;
- the optional instance methods, then the optional class methods, go into
  `optional`;
- `is_instance_` is TRUE for instance methods and FALSE for class methods.

### ObjCParser

**Variables**

| Variable | Code |
|---|---|
| `img` | the input |
| `pc` | the loop `parse()` is in, or `"overflow"` |
| `idx` | the loop index of `process_protocols` or `process_classes` |
| `protoMap` | `Parser::protocols_` |
| `protocols`, `classes` | `Metadata::protocols_`, `classes_` (entities are numbered by place) |
| `protoLookup`, `classLookup` | `protocol_lookup_`, `classes_lookup_` |
| `stack` | the nested `Class::create` calls, one frame each |

A frame holds the class address (the stream position `P`), the statement it
is at, the index of its protocol loop, and the `Class` built so far.

**Actions**, one per loop iteration or per branch of the code:

| Action | Code |
|---|---|
| `ProcessProtocol`, `SkipProtocol`, `ProtocolsDone` | the `process_protocols` loop and its exit |
| `StartClass`, `ClassesDone` | the `process_classes` loop |
| `ClassUnreadable` | the three early `return nullptr` of `Class::create` |
| `ClassRead`, `CreateSuperclass`, `StackOverflow` | the superclass test (`HasSuper`, line 80) and the recursion |
| `BaseMethods` | the method loop, appended after the adopted methods |
| `GetProtocolFound`, `GetProtocolCreated`, `GetProtocolFailed` | the three outcomes of `get_or_create_protocol` for one reference |
| `ClassFinish` | the ivar and property loops and `return cls` |
| `Return` | the caller's side: `process_classes` records the class by name and appends it, or the subclass frame adopts the methods |

`get_protocol` and `get_class` are the lookups of `Metadata.cpp` over the
name indices. The lookup properties are stated through them.

`StackOverflow` is the step where the recursion needs more frames than the
thread has (`MaxDepth`). The process dies there, and `pc = "overflow"` has
no successor.

### ObjCCatalog and the refinement

`ObjCCatalog` says what the returned catalog contains, with one step per
appended entity:
- **Protocols:** first the readable protolist entries, in order. After
  them come only protocols that some class refers to.
- **Classes:** the readable classlist entries, in order. Each class has:
  - the methods of its readable superclass chain, root first and demoted,
    then the readable prefix of its own methods;
  - its readable protocol references, as offsets;
  - its readable ivars and properties.
- **Ancestry:** `Ancestry` is a RECURSIVE reference definition of the
  superclass chain. It stops at null, at a self-reference, or at an
  unreadable class.

`ObjCParser` instantiates it with `classes` mapped through `CatalogClass`,
which replaces protocol indices by the offsets those protocols were read
from. `CatalogRefinement == Catalog!CSpec` is checked as a PROPERTY, with
its weak fairness on adding listed protocols and classes. That fairness makes
"every readable class is eventually in the catalog" part of the refinement.

The catalog has one other ending. `Overflow` sets `overflowed` when the
superclass chain of the next class to append runs into a cycle
(`ChainCycles`, a RECURSIVE walk with the set of classes seen). `AddClass`
is enabled only when it does not. `ObjCParser` maps `overflowed` to
`pc = "overflow"`. The refinement therefore says the process dies only on
such a class, after every class before it was appended. `Overflow` is
weakly fair, as the implementation's recursion is: once it starts on a
cycle, nothing stops it.

The catalog describes what `parse()` returns, not what spec 3 asks of it.
It appends a protocol once for each time it is listed or referenced, so it
admits duplicates. Uniqueness by offset is checked separately, by
`ProtocolUniquePerOffset` in the registry_offset_unique run. The catalog's
classes take their methods, ivars and properties from `ObjCImage`'s readers.
So the refinement checks the order and inheritance of `Class::create`, not
its reading loops. `MC_ObjCDecl` checks those loops against laid-out bytes.

### TypeGrammar and TypesEncoding

A string is a sequence of one-character strings, and the iterator `it` is a
position in `1..Len(s)+1`, where `Len(s)+1` is `std::end`. Each reader of
`TypesEncoding.cpp` is an operator of the same name that returns where it
leaves the iterator: a parse function returns `[t |-> Type or NoType, i |-> position]`,
with `NoType` standing for `nullptr`. The mutually recursive functions
(`process`, `process_array`, `process_structure`, `process_union`, and their
loops `fields` and `array_body`) are one RECURSIVE group.
`process_structure` and `process_union` share `Aggregate`. They differ only
in where the name stops (`{"=", "}"}` against `{"="}`) and in the closing
character, which is exactly the difference in the code.

`read_str_number` is modelled as the code does it: `n = *it++` keeps only the
last digit. `strtoull` is a fold over the digit values. The specifier values
are dropped, as every caller drops them.

The `while` loop of `decode_type` is the state machine:
- `DecodeType` is an iteration whose `process` returns a type, which is
  appended;
- `DropType` is one that returns `nullptr`, and the loop goes on.

`iterations` is a ghost counter of loop iterations.

`TypeGrammar!Encode` writes a Type as the grammar of section 4.4 spells it.
`EncodeSignature` interleaves types with qualifiers and frame-offset digits,
the shape clang emits for a method (`v24@0:8r*16`). `MC_TypesEncoding`
pairs each such string with the types it encodes (`Expected`).

### MachOAddress

Widths are scaled so that TLC's 32-bit integers hold them, and the
constants name them:
- `PtrBits` is the width of `uintptr_t` (64 in the code);
- `TagBits` is the number of low bits `decode_ptr` keeps (51);
- `OffBits` is the width of a `small_method_t` field (32);
- `ListBits` is the width of `entsize_and_flags` (32).

`FLAG_MASK` (the high half and the two low bits) and `IS_SMALL` (the top
bit) are defined from `ListBits`, and the flags are tested with
`Bitwise`'s `&`. Addresses count units of four bytes: an `int32_t` is one
unit, a `uintptr_t` two, a `small_method_t` three, a `big_method_t` six.

`SignedField` sign-extends an `int32_t` bit pattern, and `AddOffset` adds it
to a position modulo 2^`PtrBits`, which is what `pos + raw_method->name`
does in `size_t`.

A binary is a record with these fields:
- its `imagebase` and `memory_base_address`;
- its segments, as virtual ranges;
- `mem`, the cells its content holds at the addresses that matter: words,
  strings, method entries and list headers.

`read_at` rebases an offset strictly above the memory base, then finds the
segment. `peek` returns the cell there, `NoRead` when no segment holds the
address, and zeros where the content holds nothing the model names.

### ObjCDecl

| Variable | Code |
|---|---|
| `img` | the scenario: the binary, the class position or the protocol's list pointer, the container, and what it should read (`want`) |
| `pc` | where `Class::create`, then `generate()`, is; `"none"` when no class is returned, `"segv"` when `class_ro_ptr2` faults, `"crashed"` after a null dereference |
| `cname`, `raw_ro` | `Class::name_`, and the `class_ro_t` read |
| `mlist`, `mi` | the list being read (method, ivar or property list: where its entries start, their stride and count) and the loop index `i` |
| `methods`, `ivars`, `props` | the container's `methods_`, `ivars_` and `properties_` |
| `di`, `params`, `pi`, `decl` | the method (ivar, property) being declared, its `prototype.params`, the parameter index, the QualTypes built |
| `encoded`, `it`, `types`, `iterations` | the state of `decode_type`, shared with `TypesEncoding` |

| Action | Code |
|---|---|
| `ReadClass` | `objc_class_t` and the `class_ro_t` at the decoded `class_ro_ptr()` read; the name and the `base_method_list` pointer follow (`CreateFromRo`) |
| `ClassUnreadable` | one of the early `return nullptr`: no `objc_class_t`, or no `class_ro_t` outside a cache image |
| `ClassRoPtr2` | a cache image whose `class_ro_t` does not read: the retry at `class_ro_ptr2()` |
| `ReadMethodList` | `Class::create` reads the header; `is_small` is `flags() & IS_SMALL` |
| `ReadMethod` | one iteration of the list loop: `Method::create` at `methods_addr + i * sizeof_meth`; a `nullptr` breaks a class's loop and is skipped by a protocol's |
| `MethodsRead` | the end of the method loop: a class goes on with its ivars, a protocol to `generate()` |
| `ReadIvarList`, `ReadPropList` (`ReadList`) | the `ivars_list_t` or `properties_list_t` header at the decoded pointer; a null pointer or an unreadable header leaves the list empty |
| `ReadIvar`, `ReadProp` | one iteration: `IVar::create` or `Property::create` at `addr + i * sizeof(ivar_t)` (`sizeof(property_t)`); a `nullptr` is skipped |
| `ListRead` | the end of the ivars loop, then of the properties loop, which ends `Class::create` |
| `DeclMethod`, `DecodeStep`, `DropStep`, `DeclReturnType` | `decl_method` calls `prototype()` (`decode_type`), then `get_qtype(*prototype.rtype)` |
| `DeclParam`, `DeclMethodDone` | the parameter loop, with `self` declared as the class pointer in a class |
| `DeclMethodsDone` | `decl_class` goes on to the ivars, and `decl_protocol` to the properties |
| `DeclIvarsDone`, `DeclProperty`, `DeclPropertiesDone` | the properties loop: `decl_property` declares each `void`; then `DC->addDecl(cls_decl)` |
| `DeclIvarUntyped`, `DeclIvar`, `DeclIvarType` | `decl_ivar` for each ivar: a pointer to `NSObjectTy(DC)` for an empty type, otherwise `IVar::type` and `get_qtype`, or `UnknownAny` |

`Method_create` translates both forms:
- **Small:** the selector reference at `pos + name` is peeked as a word,
  decoded and read as a string. `types` is taken relative to
  `&entry.types`. `imp` is stored as read.
- **Big:** `name` and `types` are decoded.

`class_ro_ptr` masks the data bits with `FAST_DATA_MASK`. The mask clears
the flag bits below the eight-byte alignment of a `class_ro_t`, which are
set for Swift classes. At the scaled width this is the low unit bit, plus
the bits from `TagBits` on.

`class_ro_ptr2` casts the binary address to a `class_rw_t*` of the
process and reads through it. That is undefined behaviour. The model lets
it fault (`"segv"`) or read any word of `HostGarbage`: zero, or an address
the image holds something at. Whatever it reads is then used as the code
uses a `class_ro_t` read there.

`get_qtype` is RECURSIVE over the Type, with one case per `switch` arm.
`Crash` stands for the dereference of a null `Type`. QualTypes are records
saying how each was built. `search()` looks a name up in the class and
then the translation unit. Each call of `generate()` makes a new
translation unit, and the class is added to it only at the end, so the
lookup finds only what was added to the class: the ivars declared so far
(`DC`). Methods are named by selectors, and nothing `get_qtype` creates
is added. A struct or union named like an earlier ivar becomes `void*`
("is not a structure"), a class named like one becomes `void*` too, and
an untyped ivar after one named `NSObject` becomes `UnknownAny`. The
scenarios declare `^{S}` after an ivar named `S` and get `void*`.

## Runs

| Run | cfg | Expect | Properties | What it shows |
|---|---|---|---|---|
| parse | `MC_Parse.cfg` | pass | TypeOK, LookupsIndexLastSeen, CatalogRefinement | Over all images of two protocols and two classes, and every superclass graph on three classes (cycles included), the results hold as stated below. |
| registry_offset_unique | `MC_Parse_ProtocolUniquePerOffset.cfg` | violation | ProtocolUniquePerOffset | Two classes refer to a protocol that is not in the protolist, and get two `Protocol` objects for one offset. |
| registry_lookup_refs | `MC_Parse_ProtocolLookupResolvesRefs.cfg` | violation | ProtocolLookupResolvesRefs | Two protocols share a name, so `get_protocol` answers a different protocol than the one a class refers to. The spec contradicts itself here: line 118 prescribes this last-seen index, and the code follows it; section 8 (line 222) asks that every class protocol be what `get_protocol` answers. |
| hierarchy_cycle | `MC_Parse_Cycle.cfg` | violation | RecursionBounded | A two-class superclass cycle nests `Class::create` beyond the number of classes, until the stack overflows. |
| hierarchy_super | `MC_Parse_Super.cfg` | violation | SuperclassKept | A class whose superclass reads is returned without one, because `super_` is never set. |
| types | `MC_TypesEncoding.cfg` | pass | DecodesAsSpecified, IteratorInRange, IterationsBounded | For the 504 encoder-built cases below, `decode_type` returns exactly the encoded types. Over every string of up to 5 characters of a 14-character delimiter alphabet, the iterator never moves past `end` (the one unguarded `*it`, in the error message of `process_struct` at line 108, reads `end()` and is not modelled, since it only feeds the log), and the loop takes at most one iteration per character. |
| types_multidigit | `MC_TypesEncoding_MultiDigit.cfg` | violation | DecodesAsSpecified | `[12c]` decodes as an array of 2: `read_str_number` keeps only the last digit. |
| types_forward_union | `MC_TypesEncoding_ForwardUnion.cfg` | violation | DecodesAsSpecified | In `v24@0:8(U)16`, the union name runs past `)` to the end, and the parameter is lost. |
| types_unsupported | `MC_TypesEncoding_Unsupported.cfg` | violation | DecodesAsSpecified | `i%d` returns `[int, double]`: decoding does not stop at the unsupported `%` as section 4.4 says. |
| method_read | `MC_ObjCDecl.cfg` | pass | MethodReadAsSpecified, ClassReadAsSpecified, IvarsReadAsSpecified | `Class::create` reads the `class_ro_t` behind the masked data bits and takes its name. The method list loop returns one `Method` per mapped entry, with the selector and type strings the entry designates. The ivar and property loops return their entries in order, one `sizeof` apart, skipping the unmapped one in the middle and reading the one after it, which a loop that broke there would miss. See below. |
| method_imp | `MC_ObjCDecl_Imp.cfg` | violation | MethodAddressIsImplementation | A big entry's tagged `imp` pointer, or a small entry's self-relative `imp`, is stored as the method's address instead of the implementation's virtual address. |
| decl_null_deref | `MC_ObjCDecl_NullDeref.cfg` | violation | NoNullDereference | A method whose type string is empty gets an empty prototype, and `decl_method` dereferences its null `rtype` (ASTGen.cpp:294); this is the trace TLC reports. An ivar of type `long double[2]`, encoded `[2D]`, also crashes: it decodes to an `ArrayTy` with a null subtype, which `get_qtype` dereferences (line 244). |

The parse run shows, for the images it covers:
- each index answers the last entity registered under a name;
- `parse()` implements the catalog spec: protocol ordering, on-demand
  protocols, and the skip and break loops; it dies only on a class whose
  superclass chain cycles;
- inherited methods arrive root first and demoted.

The method_read run covers:
- classes with and without the Swift flag bit in their data bits, whose
  `class_ro_t` lies in the image or past it (in a cache image, past it
  takes the undefined `class_ro_ptr2` path, on which nothing is claimed),
  and protocols;
- small and big lists;
- images with and without an imagebase, and images extracted from the
  shared cache;
- both chained-pointer formats, with and without tag bits;
- self-relative offsets of both signs;
- a list of three ivars whose second is unmapped, and a list of
  two properties or a null `base_properties`.

Every property of the passing runs has a mutant that makes TLC find it
violated:
- in `ObjCParser`:
  - a created protocol indexed before it is appended;
  - one missing from the name index;
  - the protolist loop breaking instead of skipping;
- in `TypesEncoding`:
  - the struct name read up to `=` only, like the union's;
  - `read_opt_name` stepping over the end;
  - the loop rewinding after a failed type;
- in `MachOAddress`:
  - the small-method offset taken as unsigned;
  - `class_ro_ptr` without `FAST_DATA_MASK`;
  - `sizeof(ivar_t)` without its two trailing `uint32_t`.

## Bounds

**MC_Parse** (registry images) has two protocol addresses, two class addresses and two
names. Each protocol is readable or not and takes either name. Its method
lists mix a readable and an unreadable entry, so skip semantics are
visible. Each class refers to none, one, or both protocols in either order.

The protolist may be:
- empty: every protocol is created on demand;
- one entry: a mix of listed and on-demand protocols;
- both entries in reverse order;
- one entry twice.

These are the smallest sets that cover:
- a listed protocol referred to again;
- an unlisted protocol referred to twice;
- a name shared by two protocols;
- an unreadable protocol in the list and in a reference.

**MC_Parse** (hierarchy images) has three classes, and each may be unreadable. Each
superclass field is null, itself, or either other class, so self-reference,
two-cycles, three-cycles and chains of length three all occur. The second
class is a metaclass, so demotion of instance and class methods is
distinguished. Method lists are `<<TRUE>>` or `<<FALSE, TRUE>>`, so the
break of the method loop is visible.

`MaxDepth` is one more than the number of classes. That is the least depth
at which a stack that holds every class once can still grow, so an overflow
happens only when a class is entered twice.

**MC_TypesEncoding.** The well-formed family combines these types:
- every primitive class of type;
- pointers to a primitive, a struct and a pointer, and `^?`;
- an array of a struct;
- named and anonymous structs and unions with zero, one or two fields;
- fields with and without names, including nested struct, array, pointer
  and bitfield fields;
- objects with and without a class name, and blocks.

These appear as the parameter of a method with no, one or two qualifiers,
and as an ivar type. That reaches every branch of `process` and both
success arms of the aggregate readers.

The malformed run uses all strings up to length 5 over the grammar's
delimiters plus `i`, `2` and an unsupported `X`. Five characters are enough
for every early exit:
- a missing `}`, `)` or `]`;
- an unterminated name;
- `^` or `@` at the end;
- `[` with no digits;
- nesting two deep.

The violation runs use one to four strings each, chosen by the grammar's
cases the code gets wrong.

**MC_ObjCDecl.** The widths are:
- `uintptr_t`: 10 bits, of which `decode_ptr` keeps the low 9, so one tag
  bit can be set above them;
- `int32_t` fields: 5 bits;
- `entsize_and_flags`: 8 bits.

An image has a text segment of 8 units, a data segment of 16, an
`__objc_data` segment of 4 and, after a gap of 2, an `__objc_const`
segment of 24, and at offset 62 a last segment of 8. `__objc_data` holds the `objc_class_t` and `class_ro_t` as
cells with the fields `Class::create` uses; their other bytes are not laid
out. `__objc_const` holds the ivar types, the property name, the
properties list (two entries) and the ivars list. The ivars list says three
entries. The second would start at the end of `__objc_const`, in the gap,
and the third lies in the last segment. So `IVar::create` fails in the
middle of the list, and only a loop that skips reads the third. Every
`ivar_t` and `property_t` lies wholly in a segment. The `objc_class_t` and
`class_ro_t` cells, and the third entry of a big method list, do not. They
read only because `read_at` ignores the size it is given, which is what the
code does (see the hazard at `MachOStream.cpp`). An
image is never larger than its imagebase (128) when it has one. That is the condition under
which `decode_ptr` can tell a chained offset from an address, and it holds
of real executables.

Cache images use a memory base of 256, so their addresses stay below the
tag mask. A list or `class_ro_t` pointer past the image is given only as a
virtual address: as an offset, `decode_ptr` would take it for an address
in the image.

The selector reference lies either before the entries or after them, so the
name offset takes both signs. The type offset is always negative.

A list has 2 or 4 entries. A big list of 4 runs past the data segment, so
`Method::create` returns `nullptr` there: the class loop breaks and the
protocol loop skips. A list pointer may also lie outside every segment.

The method signatures are:
- `v@:`;
- `@@:@`, so that the `self` branch and an object parameter occur;
- `D@:`, a long double return, which the decoder drops;
- the empty string, which decodes to no type, so `prototype()` returns `{}`.

The first ivar is named `S`; the third, `b`, is a `^{S}`. The first
ivar's types are:
- none, which gives `NSObject*`;
- `i` and `^{S}`;
- `ii`, two types, which gives `UnknownAny`;
- `[2D]`.

## Fairness

`Spec` has `WF_vars(Next)`. `parse()` is a synchronous call on one thread
with no waits (spec section 5), so while a step is enabled it is taken.
`DSpec` has `WF_dvars(DNext)` for the same reason: `decode_type` is a plain
call. `ObjCDecl`'s `Spec` has `WF_vars(Next)` because `generate()` is a
sequence of plain calls. Decoder termination is checked as the invariant `IterationsBounded`, which
bounds the number of loop iterations by the length of the input. That is
stronger than `<>DecodeDone`, and TLC checks it without evaluating
`ENABLED` over the recursive readers. The same holds for `generate()`: `<>(pc` terminal`)` under
`WF_vars(Next)` makes TLC evaluate `ENABLED` over `peek`, `decode_ptr` and
the recursive `&` of `Bitwise` with arguments it does not evaluate once.
That costs seconds per state. The loops of `Class::create` and
`generate()` each run over a finite list, and each decode is bounded by
`IterationsBounded`.

Every run sets `CHECK_DEADLOCK FALSE` because `parse()`, `decode_type` and `generate()` terminate: the final
state (`pc = "done"`, or `"overflow"` or `"crashed"` when the process dies) has no
successor by design.

## Not modelled, and why

- **Pointers in ObjCImage and ObjCParser.** These are given as decoded
  addresses. `decode_ptr` and `read_at` are checked in `ObjCDecl` on method
  lists, which is where the relative and tagged forms meet.
- **The `entsize` of a method list.** The loop strides by `sizeof`, and
  the scenarios have `entsize` equal to it, the only layout section 6
  gives.
- **Reads past a segment's file content.** These are undefined behaviour in
  `read_at`, which has no size check. Segments are modelled as virtual
  ranges only.
- **What `class_ro_ptr2` should do.** Its path is modelled as the
  undefined outcomes it can have, but section 3 names no fallback, so no
  property states what it should return.
- **A property on the declared ivar types.** The name collision of
  `search()` is modelled and occurs in the scenarios. But the spec gives no
  declared type for an ivar, and every run slot is spent on other
  disagreements, so no violation run records it. It is listed as a
  hazard.
- **`pretty_struct`.** It renames one spelling of libc++'s `std::string`,
  which no scenario holds.
- **The superclass in `ObjCDecl`.** The scenarios' `super_class` is null;
  the recursion is `ObjCParser`'s.
- **Type printing, `to_string` and printing the translation unit.** These
  are output only. `decl_property` declares `void` for every property.
- **What a type qualifier decodes to.** `process_specifier`'s value is
  discarded by every caller, so only its consumption is modelled.
- **The `arch` parameter of `iCDump::ObjC::parse`.** It is ignored: ARM64
  is always tried first. There is no state to model.
- **Logging, iterators and bindings.** These are adaptors, with no state.

## Plan

1. Compose `ObjCDecl`'s method lists with `ObjCParser`'s classes, so that
   inherited and demoted methods are declared too.
2. Model segment file sizes, for the `read_at` bound.
3. A violation run for the ivar name collision of `search()`: a struct
   ivar type named like an earlier ivar is declared `void*`.
