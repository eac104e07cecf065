---------------------------- MODULE MC_ObjCDecl ----------------------------
(***************************************************************************)
(* Scenarios for ObjCDecl: a class or a protocol whose method list holds   *)
(* two or four entries, in the small or the big form; for a class, an     *)
(* objc_class_t whose data bits carry a Swift flag bit or not, over a     *)
(* class_ro_t that lies in the image or not, with a list of three ivars  *)
(* (the middle one unmapped) and a list of two properties or none; in    *)
(* images with and without an                                             *)
(* imagebase and extracted or not from the shared cache, with pointers in *)
(* either chained-pointer format and with or without high tag bits.       *)
(***************************************************************************)
EXTENDS ObjCDecl, FiniteSets, TLC

\* uintptr_t of 10 bits, decode_ptr keeping the low 9, int32_t fields of
\* 5, entsize_and_flags of 8.
MCPtrBits  == 10
MCTagBits  == 9
MCOffBits  == 5
MCListBits == 8

\* Every image has a text segment (the strings and a selector reference)
\* of TextSize units, a data segment (the method list and another
\* selector reference) of DataSize units and an __objc_data segment (the
\* objc_class_t and its class_ro_t) of ObjcSize units, from its imagebase
\* on, at ConstAt an __objc_const segment (the ivar and property lists
\* and the ivar type strings) of ConstSize units, and at TailAt a last
\* segment of TailSize units that holds the third ivar_t.  An image is never larger than a nonzero imagebase, which is what
\* lets decode_ptr tell an offset from an address.
TextSize == 8
DataSize == 16
ObjcSize == 4
ConstAt  == 30
ConstSize == 24
TailAt   == 62
TailSize == 8
Bases == {[imagebase |-> 0,  membase |-> 0],
          [imagebase |-> 128, membase |-> 0],
          [imagebase |-> 128, membase |-> 256]}

\* Where things lie, relative to the imagebase: the selector and type
\* strings, the code of the implementation, the selector reference before
\* or after the entries, and the method list (ListAt is mapped, ListOut
\* is past the image).  A pointer past the image is a virtual address
\* (decode_ptr cannot tell one from an offset into the image), and keeps
\* below the tag bits.
NameAt   == 2
ClassNameAt == 3
TypesAt  == 4
ImpAt    == 7
SelRefAt == {6, 22}
ListAt   == 8
ListOut  == 71

\* The objc_class_t, and its class_ro_t in __objc_data (RoAt) or past
\* the image (RoOut).  Both are cells holding the fields Class::create
\* uses (super_class and bits; name and base_method_list): their other
\* bytes are not laid out, so they take less room than sizeof says, which
\* leaves the last entry of a big list of four (at 28) in the unmapped gap
\* before __objc_const.  These two cells run past the end of __objc_data:
\* they read only because MachOStream::read_at never compares the size
\* with the segment, as the code does.
ClassAt == 24
RoAt    == 26
RoOut   == 70
\* In __objc_const: the types of the two ivars, the name of the
\* properties, the properties_list_t
\* and its two property_t, the ivars_list_t and its first ivar_t; the
\* list says three ivars: the second would lie at ConstAt + ConstSize, in
\* the gap before the tail segment, and the third lies at TailAt.  The names of the ivars are in the text segment (whose first
\* unit, the Mach-O header, holds none of these).
IvarNameAt  == <<1, 5>>
IvarTypeAt  == <<30, 31>>
PropNameAt  == 32
PropListAt  == 34
IvarListAt  == 44
IvarCount   == 3

\* The ivars that read: the first, named S, of one of IvarTypes; the
\* third, b, a pointer to a struct S, whose name search() finds as the
\* first ivar.
IvarName  == <<<<"S">>, <<"b">>>>
Ivar2Type == <<"^", "{", "S", "}">>
PropName  == <<"p">>

Str(s) == [k |-> "str", s |-> s]

Places(at, out, fmt) == IF fmt = "vmaddr" THEN {at, out} ELSE {at}

\* The entries of a list of count methods: a big list of four runs past
\* the data segment, so its last entry cannot be read.
Counts == {2, 4}

\* An image address as the metadata of a cache image gives it.
ToPtr(b, a) == IF b.membase > 0 THEN a - b.imagebase + b.membase ELSE a

\* A chained pointer to a: the target itself or its offset from the
\* imagebase, with a tag bit above the low MCTagBits or not.
Formats(b) == IF b.membase > 0 THEN {"vmaddr"} ELSE {"vmaddr", "offset"}
Raw(b, fmt, hi, a) ==
    (IF fmt = "offset" THEN a - b.imagebase ELSE ToPtr(b, a)) + hi * 2^MCTagBits

\* The bit pattern of an int32_t.
Field(x) == x % 2^MCOffBits

\* entsize_and_flags of a small list (IS_SMALL, entsize 12) and of a big
\* one (entsize 24 does not fit the scaled entsize bits; the low flag bits
\* are set instead).
SmallFlags == 2^(MCListBits - 1) + 12
BigFlags   == 8 + 3

Sel == <<"s">>
ClassName == <<"K">>

\* Method signatures: clang's "v@:", a long double return (not supported
\* by the decoder), an object parameter, and an empty string, which
\* decode_type turns into no type at all.
MethodTypes == {<<"v", "@", ":">>, <<"D", "@", ":">>, <<"@", "@", ":", "@">>,
                <<>>}

\* Ivar types: none, an int, two types, a long double array, a pointer to
\* a struct.
IvarTypes == {<<>>, <<"i">>, <<"i", "i">>, <<"[", "2", "D", "]">>,
              <<"^", "{", "S", "}">>}

\* A class's data bits: a class_ro_t pointer, with a Swift flag or not,
\* and whether its base_properties is null; a protocol has no
\* objc_class_t.
ClassVariants(ctr, fmt) ==
    IF ctr = "class"
    THEN {<<sw, ro, pp>> : sw \in {0, 1},
                           ro \in Places(RoAt, RoOut, fmt),
                           pp \in BOOLEAN}
    ELSE {<<0, RoAt, FALSE>>}

Scenario(b, fmt, hi, small, sel, at, n, mt, iv, ctr, cv) ==
    LET ib      == b.imagebase
        list    == ib + at
        size    == IF small THEN SizeofSmall ELSE SizeofBig
        posOf(i) == list + SizeofMethodList + i * size
        entry(i) ==
            IF small
            THEN [k |-> "small",
                  name  |-> Field(ToPtr(b, ib + sel) - ToPtr(b, posOf(i))),
                  types |-> Field(ToPtr(b, ib + TypesAt) - (ToPtr(b, posOf(i)) + OffsetofTypes)),
                  imp   |-> Field(ToPtr(b, ib + ImpAt) - (ToPtr(b, posOf(i)) + OffsetofImp))]
            ELSE [k |-> "big",
                  name  |-> Raw(b, fmt, hi, ib + NameAt),
                  types |-> Raw(b, fmt, hi, ib + TypesAt),
                  imp   |-> Raw(b, fmt, hi, ib + ImpAt)]
        segs    == {[va |-> ib, vmsize |-> TextSize],
                    [va |-> ib + TextSize, vmsize |-> DataSize],
                    [va |-> ib + TextSize + DataSize, vmsize |-> ObjcSize],
                    [va |-> ib + ConstAt, vmsize |-> ConstSize],
                    [va |-> ib + TailAt, vmsize |-> TailSize]}
        ivTypes == <<iv, Ivar2Type>>
        ivarAt(i) == ib + IvarListAt + SizeofListHeader + i * SizeofIvar
        propAt(i) == ib + PropListAt + SizeofListHeader + i * SizeofProperty
        ivarCell(j) == [k |-> "ivar", name |-> Raw(b, fmt, hi, ib + IvarNameAt[j]),
                                      type |-> Raw(b, fmt, hi, ib + IvarTypeAt[j])]
        propCell    == [k |-> "prop", name |-> Raw(b, fmt, hi, ib + PropNameAt)]
        members ==
            (ib + IvarNameAt[1] :> Str(IvarName[1])) @@ (ib + IvarNameAt[2] :> Str(IvarName[2]))
            @@ (ib + IvarTypeAt[1] :> Str(iv)) @@ (ib + IvarTypeAt[2] :> Str(Ivar2Type))
            @@ (ib + PropNameAt :> Str(PropName))
            @@ (ib + IvarListAt :> [k |-> "list", count |-> IvarCount])
            @@ (ivarAt(0) :> ivarCell(1)) @@ (ivarAt(2) :> ivarCell(2))
            @@ (ib + PropListAt :> [k |-> "list", count |-> 2])
            @@ (propAt(0) :> propCell) @@ (propAt(1) :> propCell)
        mapped  == {i \in 0..n - 1 : posOf(i) < ib + TextSize + DataSize}
        ro      == ib + cv[2]
        clsRead == IF ctr = "protocol" \/ cv[2] = RoAt THEN "read"
                   ELSE IF b.membase = 0 THEN "unread" ELSE "ub" 
        mem == (ib + NameAt :> [k |-> "str", s |-> Sel])
               @@ (ib + TypesAt :> [k |-> "str", s |-> mt])
               @@ (IF ctr = "class"
                   THEN (ib + ClassNameAt :> [k |-> "str", s |-> ClassName])
                        @@ (ib + ClassAt :> [k |-> "objc_class", super |-> 0,
                                             bits |-> Raw(b, fmt, hi, ro) + cv[1]])
                        @@ (ro :> [k |-> "ro", name |-> Raw(b, fmt, hi, ib + ClassNameAt),
                                   base_method_list |-> Raw(b, fmt, hi, list),
                                   ivars |-> Raw(b, fmt, hi, ib + IvarListAt),
                                   base_properties |->
                                       IF cv[3] THEN Raw(b, fmt, hi, ib + PropListAt) ELSE 0])
                        @@ members
                   ELSE <<>>)
               @@ (list :> [k |-> "mlist", ef |-> IF small THEN SmallFlags ELSE BigFlags,
                            count |-> n])
               @@ [a \in {posOf(i) : i \in 0..n - 1} |-> entry((a - list - SizeofMethodList) \div size)]
               @@ (IF small THEN ib + sel :> [k |-> "word", v |-> Raw(b, fmt, hi, ib + NameAt)]
                            ELSE <<>>)
    IN  [bin |-> [imagebase |-> ib, membase |-> b.membase, mem |-> mem, segments |-> segs],
         list |-> ToPtr(b, list), cls |-> ToPtr(b, ib + ClassAt),
         container |-> ctr, name |-> ClassName,
         want |-> [cls |-> clsRead,
                   found |-> IF at = ListAt /\ clsRead = "read" THEN Cardinality(mapped) ELSE 0,
                   name |-> Sel, types |-> mt, imp |-> ToPtr(b, ib + ImpAt),
                   ivars |-> [j \in 1..2 |-> [name |-> IvarName[j], mangled_type |-> ivTypes[j]]],
                   props |-> IF cv[3] THEN <<[name |-> PropName], [name |-> PropName]>>
                             ELSE <<>>]]

MCImages ==
    UNION {UNION {{Scenario(b, fmt, hi, small, sel, at, n, mt, iv, ctr, cv) :
                     hi \in {0, 1}, small \in BOOLEAN, sel \in SelRefAt,
                     at \in Places(ListAt, ListOut, fmt), n \in Counts,
                     mt \in MethodTypes, cv \in ClassVariants(ctr, fmt),
                     iv \in IF ctr = "class" THEN IvarTypes ELSE {<<>>}} :
                   ctr \in {"class", "protocol"}, fmt \in Formats(b)} :
           b \in Bases}

\* Where generate() is, once Class::create has returned.
Declaring == {"decl", "prototype", "params", "ivar", "ivar_type", "property",
              "done", "crashed"}

\* The method list loop returns one Method for each entry that lies in a
\* mapped segment (the entries past the segment end the list), and each
\* has the name and mangled type spec 4.3 says its entry designates: for
\* a small entry the selector string reached through the reference at
\* pos + name and the string at &entry.types + types, for a big one the
\* strings the tagged pointers address; with entries one sizeof apart, in
\* either chained-pointer format, and for cache images through the
\* rebasing of MachOStream::read_at.
MethodReadAsSpecified ==
    /\ pc \notin {"class", "list", "methods"} => Len(methods) = img.want.found
    /\ \A j \in 1..Len(methods) :
           /\ methods[j].name = img.want.name
           /\ methods[j].mangled_type = img.want.types

\* Class::create reads the class_ro_t that class_ro_ptr() designates, the
\* data bits with their flag bits (set for Swift classes) masked off, and
\* names the class by its class_ro_t's name; when that class_ro_t is not
\* in the image and the image is not from the shared cache, no class is
\* returned.  (In a cache image the class_ro_ptr2 retry is undefined and
\* nothing is claimed.)
ClassReadAsSpecified ==
    img.container = "class" /\ pc # "class" =>
        CASE img.want.cls = "read"   -> pc # "none" /\ cname = ClassName
          [] img.want.cls = "unread" -> pc = "none"
          [] OTHER                   -> TRUE

\* Class::create returns the ivars and the properties its class_ro_t
\* lists, in the order of their entries, sizeof(ivar_t) and
\* sizeof(property_t) apart, each with the name (and for an ivar the
\* mangled type) its tagged pointers designate; the unmapped entry is
\* skipped and the loop goes on to the next, and a null base_properties gives none.  While the lists are
\* read, what has been read is a prefix of them.
IvarsReadAsSpecified ==
    img.container = "class" /\ img.want.cls = "read" =>
        /\ IsPrefix(ivars, img.want.ivars)
        /\ IsPrefix(props, img.want.props)
        /\ pc \in Declaring => ivars = img.want.ivars /\ props = img.want.props

\* Each Method's address is the virtual address of its implementation
\* (spec 3, Method.address): for a small entry &entry.imp + imp, for a
\* big one the address the tagged imp pointer designates.  Method::create
\* stores the imp field as read in both forms.
MethodAddressIsImplementation ==
    \A j \in 1..Len(methods) : methods[j].addr = img.want.imp

=============================================================================
