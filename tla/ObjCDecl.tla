------------------------------ MODULE ObjCDecl ------------------------------
(***************************************************************************)
(* From a method list in a binary to the Clang declarations of its        *)
(* class or protocol: Method::create reads each entry (small or big form)*)
(* through the address arithmetic of MachOAddress, then ClangAST's        *)
(* generate() declares the container: decl_method takes the prototype    *)
(* (Method::prototype, i.e. decode_type, whose loop is the state machine  *)
(* of TypesEncoding) and maps each type to a QualType with get_qtype;     *)
(* decl_class then declares the ivars (IVar::type, decode_type again) and *)
(* the properties.                                                         *)
(*                                                                         *)
(* For a class, Class::create first reads the objc_class_t and the        *)
(* class_ro_t its data bits designate, then the class name, the           *)
(* base_method_list, the ivars and the base_properties.  A scenario img   *)
(* gives the binary (bin), the container kind, and the stream position of *)
(* the objc_class_t (cls) or of the protocol's method_list_t (list).       *)
(* Names and types are sequences of characters, as in TypeGrammar.        *)
(***************************************************************************)
EXTENDS MachOAddress, TypeGrammar

CONSTANT Images          \* the scenarios

VARIABLES
    img,         \* the scenario: fixed for a behaviour
    pc,          \* where Class::create, then generate() is
    cname,       \* Class::name_ (the name read from the class_ro_t)
    raw_ro,      \* the class_ro_t Class::create read
    mlist,       \* the list being read: where it is, then its header
    mi,          \* i of the loop over that list
    methods,     \* the Methods of the container, in order
    ivars,       \* Class::ivars_, in order
    props,       \* Class::properties_, in order
    di,          \* index of the method (ivar, property) being declared
    params,      \* prototype.params of the method being declared
    decl,        \* the QualTypes declared so far
    pi,          \* index of the next parameter in decl_method's loop
    encoded, it, types, iterations   \* decode_type's state (TypesEncoding)

\* What Class::create builds, and what generate() builds.
read == <<cname, raw_ro, mlist, mi, methods, ivars, props>>
gen  == <<di, params, decl, pi>>
dec  == <<encoded, it, types, iterations>>

vars == <<img, pc, read, gen, dec>>

Decoder == INSTANCE TypesEncoding WITH Inputs <- {}

NoMethod == [none |-> TRUE]

-----------------------------------------------------------------------------
(* Method::create                                                          *)

\* The small (relative) form: name is a selector reference at pos + name
\* holding a pointer to the string; types is relative to &entry.types;
\* imp is stored as read.
small_method(bin, pos) ==
    LET raw == peek(bin, pos, SizeofSmall)
        e   == AsEntry(raw.cell, "small")
        ref == peek(bin, AddOffset(pos, e.name), 2 * SmallField)
        str == peek(bin, decode_ptr(bin, AsWord(ref.cell)), 0)
        ty  == peek(bin, AddOffset(Wrap(pos + OffsetofTypes), e.types), 0)
    IN  [name         |-> IF ref.ok /\ str.ok THEN AsStr(str.cell) ELSE <<>>,
         mangled_type |-> IF ty.ok THEN AsStr(ty.cell) ELSE <<>>,
         addr         |-> Wrap(SignedField(e.imp))]

\* The big (absolute) form: name and types are tagged pointers to the
\* strings; imp is stored as read.
big_method(bin, pos) ==
    LET e  == AsEntry(peek(bin, pos, SizeofBig).cell, "big")
        nm == peek(bin, decode_ptr(bin, e.name), 0)
        ty == peek(bin, decode_ptr(bin, e.types), 0)
    IN  [name         |-> IF nm.ok THEN AsStr(nm.cell) ELSE <<>>,
         mangled_type |-> IF ty.ok THEN AsStr(ty.cell) ELSE <<>>,
         addr         |-> e.imp]

\* Method::create: nullptr when the entry itself cannot be peeked; a name
\* or types string that cannot be read is left empty.
Method_create(bin, pos, is_small) ==
    CASE ~peek(bin, pos, IF is_small THEN SizeofSmall ELSE SizeofBig).ok -> NoMethod
      [] is_small -> small_method(bin, pos)
      [] OTHER    -> big_method(bin, pos)


\* IVar::create and Property::create return this for an entry that cannot
\* be peeked.
NoEntity == [none |-> TRUE]

\* IVar::create: the ivar_t at pos; its name and type strings, each left
\* empty when it cannot be read.
IVar_create(bin, pos) ==
    LET raw == peek(bin, pos, SizeofIvar)
        e   == AsIvar(raw.cell)
        nm  == peek(bin, decode_ptr(bin, e.name), 0)
        ty  == peek(bin, decode_ptr(bin, e.type), 0)
    IN  IF ~raw.ok THEN NoEntity
        ELSE [name         |-> IF nm.ok THEN AsStr(nm.cell) ELSE <<>>,
              mangled_type |-> IF ty.ok THEN AsStr(ty.cell) ELSE <<>>]

\* Property::create: the property_t at pos and its name (the attributes
\* string is read too, and nothing in generate() uses it).
Property_create(bin, pos) ==
    LET raw == peek(bin, pos, SizeofProperty)
        nm  == peek(bin, decode_ptr(bin, AsProp(raw.cell).name), 0)
    IN  IF ~raw.ok THEN NoEntity
        ELSE [name |-> IF nm.ok THEN AsStr(nm.cell) ELSE <<>>]

-----------------------------------------------------------------------------
(* get_qtype: ObjC::Type to clang QualType                                  *)

\* The QualTypes, by how they are built.  Crash is the dereference of a
\* null Type.
QBuiltin(n)     == [q |-> "builtin", n |-> n]
QPointer(t)     == [q |-> "pointer", to |-> t]
QConstPointer(t) == [q |-> "const_pointer", to |-> t]
QInterface(n)   == [q |-> "interface", name |-> n]
QRecord(tag, n) == [q |-> "record", tag |-> tag, name |-> n]
QArray(d, t)    == [q |-> "array", dim |-> d, elem |-> t]
Crash           == [q |-> "crash"]

NSObjectName == <<"N", "S", "O", "b", "j", "e", "c", "t">>

\* A QualType built over the QualType of a subtype, unless that crashed.
Over(sub, made) == IF sub = Crash THEN Crash ELSE made

\* search(ctx, name, DC): the declarations named name in DC and its
\* parents.  generate() starts from an empty TranslationUnitDecl, and
\* decl_class adds the class to it only at the end; what the class's
\* DeclContext holds while its members are declared are the ivars and the
\* properties declared so far (methods are named by selectors, and the
\* records and interfaces get_qtype creates are never added).  dc is the
\* set of those names.
search(name, dc) == name \in dc

\* NSObjectTy: the NSObject interface, unless search finds something else
\* named NSObject, which gives UnknownAny.
NSObjectTy(dc) ==
    IF search(NSObjectName, dc) THEN QBuiltin("unknown_any")
    ELSE QInterface(NSObjectName)

\* get_qtype(gen, t, DC).  A struct or union whose name search finds is
\* not a RecordDecl here (only ivars and properties are), so it is
\* declared void*; an object class name found the same way gives void.
\* Otherwise a new declaration is made.  pretty_struct renames only the
\* libc++ std::string, which no scenario names.  The code has a third
\* outcome when search finds several declarations of the name: a null
\* QualType for a struct or union (lines 202-204, 273-275), void for an
\* object (229-232).  dc is a set, so that case is merged with the
\* single result; it needs an ivar and a property of the same name,
\* which the scenarios' distinct names never give.
RECURSIVE get_qtype(_, _)
get_qtype(t, dc) ==
    CASE t = NoType                         -> Crash
      [] t.k = "prim" /\ t.c = "*"          -> QConstPointer(QBuiltin("c"))
      [] t.k = "prim"                       -> QBuiltin(t.c)
      [] t.k \in {"selector", "block", "class"} -> QBuiltin(t.k)
      [] t.k = "pointer" -> LET u == get_qtype(t.sub, dc) IN Over(u, QPointer(u))
      [] t.k \in {"struct", "union"} /\ search(t.name, dc) -> QBuiltin("void_ptr")
      [] t.k \in {"struct", "union"}        -> QRecord(t.k, t.name)
      [] t.k = "object" /\ t.name = <<>>    -> get_qtype(Object(NSObjectName), dc)
      [] t.k = "object" /\ search(t.name, dc) -> QPointer(QBuiltin("v"))
      [] t.k = "object"                     -> QPointer(QInterface(t.name))
      [] t.k = "array"   -> LET u == get_qtype(t.sub, dc) IN Over(u, QArray(t.dim, u))
      [] OTHER                              -> QBuiltin("v")

-----------------------------------------------------------------------------
(* generate(): decl_class or decl_protocol                                 *)

NoQual == [q |-> "none"]

\* After the methods: decl_class goes on with the ivars, decl_protocol with
\* the properties (the protocol scenarios have none).
AfterMethods == IF img.container = "class" THEN "ivar" ELSE "property"

\* The state a call of decode_type starts from.
StartDecode(s) ==
    /\ encoded' = s
    /\ it' = 1
    /\ types' = <<>>
    /\ iterations' = 0

NoRo == AsRo(ZeroCell)

Init ==
    /\ img \in Images
    /\ pc = IF img.container = "class" THEN "class" ELSE "list"
    /\ cname = <<>>
    /\ raw_ro = NoRo
    /\ mlist = IF img.container = "class" THEN [count |-> 0]
                                          ELSE [count |-> 0, at |-> img.list]
    /\ mi = 0
    /\ methods = <<>>
    /\ ivars = <<>>
    /\ props = <<>>
    /\ di = 1
    /\ params = <<>>
    /\ decl = [rtype |-> NoQual, params |-> <<>>, ivars |-> <<>>, props |-> <<>>]
    /\ pi = 0
    /\ encoded = <<>> /\ it = 1 /\ types = <<>> /\ iterations = 0

-----------------------------------------------------------------------------
(* Class::create                                                           *)

\* The objc_class_t at the stream position, and the class_ro_t at the
\* decoded class_ro_ptr() of its data bits.
ClassPeek == peek(img.bin, img.cls, SizeofObjcClass)
RoPeek    == peek(img.bin,
                  decode_ptr(img.bin, class_ro_ptr(AsClass(ClassPeek.cell).bits)),
                  SizeofClassRo)

\* Class::create from a class_ro_t read: nullptr when the name cannot be
\* read; else the class is named, and its base_method_list, when not
\* null, is where the method list is read.  (The superclass fields of the
\* scenarios are null; ObjCParser models the recursion.)
CreateFromRo(ro) ==
    LET nm == peek(img.bin, decode_ptr(img.bin, ro.name), 0)
    IN  IF ~nm.ok
        THEN pc' = "none" /\ UNCHANGED <<cname, raw_ro, mlist>>
        ELSE /\ cname' = AsStr(nm.cell)
             /\ raw_ro' = ro
             /\ IF ro.base_method_list = 0
                THEN pc' = "methods" /\ UNCHANGED mlist
                ELSE /\ pc' = "list"
                     /\ mlist' = [count |-> 0,
                                  at |-> decode_ptr(img.bin, ro.base_method_list)]

\* The objc_class_t and its class_ro_t read.
ReadClass ==
    /\ pc = "class"
    /\ ClassPeek.ok
    /\ RoPeek.ok
    /\ CreateFromRo(AsRo(RoPeek.cell))
    /\ UNCHANGED <<img, mi, methods, ivars, props>> /\ UNCHANGED <<gen, dec>>

\* The objc_class_t cannot be read, or its class_ro_t cannot and the image
\* is not from the shared cache: Class::create returns nullptr, and no
\* header is generated for the class.
ClassUnreadable ==
    /\ pc = "class"
    /\ \/ ~ClassPeek.ok
       \/ ~RoPeek.ok /\ img.bin.membase = 0
    /\ pc' = "none"
    /\ UNCHANGED <<img, read, gen, dec>>

\* The values class_ro_ptr2 may produce: it dereferences class_ro_ptr() as
\* a pointer of the process (a class_rw_t*), which is undefined: the read
\* faults, or it finds some word, which the model draws from 0 and the
\* addresses the image holds something at.
HostGarbage(bin) == {0} \cup DOMAIN bin.mem

\* A cache image whose class_ro_t cannot be read: Class::create retries at
\* class_ro_ptr2(), then goes on as from a class_ro_t read there.
ClassRoPtr2 ==
    /\ pc = "class"
    /\ ClassPeek.ok
    /\ ~RoPeek.ok
    /\ img.bin.membase > 0
    /\ \/ /\ pc' = "segv"
          /\ UNCHANGED <<cname, raw_ro, mlist>>
       \/ \E w \in HostGarbage(img.bin) :
             LET ro2 == peek(img.bin, w, SizeofClassRo)
             IN  IF ro2.ok THEN CreateFromRo(AsRo(ro2.cell))
                 ELSE pc' = "none" /\ UNCHANGED <<cname, raw_ro, mlist>>
    /\ UNCHANGED <<img, mi, methods, ivars, props>> /\ UNCHANGED <<gen, dec>>

\* Class::create (or Protocol::create) reads the method_list_t at the
\* decoded list pointer; the entries follow it, one sizeof(small_method_t)
\* or sizeof(big_method_t) apart whatever entsize says.  A header that
\* cannot be read leaves the container without methods.
ReadMethodList ==
    /\ pc = "list"
    /\ LET h == peek(img.bin, mlist.at, SizeofMethodList)
           small == h.ok /\ (flags(AsEntry(h.cell, "mlist").ef) & IS_SMALL) # 0
       IN  mlist' = IF h.ok
                    THEN [is_small |-> small,
                          addr     |-> Wrap(mlist.at + SizeofMethodList),
                          sizeof   |-> IF small THEN SizeofSmall ELSE SizeofBig,
                          count    |-> AsEntry(h.cell, "mlist").count]
                    ELSE [count |-> 0]
    /\ pc' = "methods"
    /\ mi' = 0
    /\ UNCHANGED <<img, cname, raw_ro, methods, ivars, props>> /\ UNCHANGED <<gen, dec>>

\* One iteration of the method list loop: Method::create at
\* methods_addr + i * sizeof_meth.  A nullptr breaks the loop of
\* Class::create and is skipped by the loop of Protocol::create.
ReadMethod ==
    /\ pc = "methods"
    /\ mi < mlist.count
    /\ LET m == Method_create(img.bin, Wrap(mlist.addr + mi * mlist.sizeof), mlist.is_small)
       IN  /\ methods' = IF m = NoMethod THEN methods ELSE Append(methods, m)
           /\ mi' = IF m = NoMethod /\ img.container = "class" THEN mlist.count ELSE mi + 1
    /\ UNCHANGED <<img, pc, cname, raw_ro, mlist, ivars, props>> /\ UNCHANGED <<gen, dec>>

\* The end of the method list loop.  Class::create goes on with its
\* ivars (the scenarios' base_protocols are null); for a protocol the
\* methods are all generate() is given.
MethodsRead ==
    /\ pc = "methods"
    /\ mi >= mlist.count
    /\ pc' = IF img.container = "class" THEN "ivar_list" ELSE "decl"
    /\ UNCHANGED <<img, cname, raw_ro, mlist, mi, methods, ivars, props>>
    /\ UNCHANGED <<gen, dec>>

\* The ivars_list_t at ro.ivars, or the properties_list_t at
\* ro.base_properties: when the pointer is not null and the header can be
\* read, the entries follow it, sizeof(ivar_t) or sizeof(property_t)
\* apart whatever entsize says; otherwise the list is empty and
\* Class::create goes on with what comes after it.
ReadList(ptr, sizeof_entry, loop, after) ==
    LET at == decode_ptr(img.bin, ptr)
        h  == peek(img.bin, at, SizeofListHeader)
    IN  IF ptr # 0 /\ h.ok
        THEN /\ mlist' = [addr   |-> Wrap(at + SizeofListHeader),
                          sizeof |-> sizeof_entry,
                          count  |-> AsEntry(h.cell, "list").count]
             /\ mi' = 0
             /\ pc' = loop
        ELSE /\ pc' = after
             /\ UNCHANGED <<mlist, mi>>

ReadIvarList ==
    /\ pc = "ivar_list"
    /\ ReadList(raw_ro.ivars, SizeofIvar, "ivars", "prop_list")
    /\ UNCHANGED <<img, cname, raw_ro, methods, ivars, props>> /\ UNCHANGED <<gen, dec>>

ReadPropList ==
    /\ pc = "prop_list"
    /\ ReadList(raw_ro.base_properties, SizeofProperty, "props", "decl")
    /\ UNCHANGED <<img, cname, raw_ro, methods, ivars, props>> /\ UNCHANGED <<gen, dec>>

\* One iteration of the ivars loop: IVar::create at addr + i * sizeof(ivar_t).
\* Unlike the method loop, a nullptr is skipped and the loop goes on.
ReadIvar ==
    /\ pc = "ivars"
    /\ mi < mlist.count
    /\ LET v == IVar_create(img.bin, Wrap(mlist.addr + mi * mlist.sizeof))
       IN  ivars' = IF v = NoEntity THEN ivars ELSE Append(ivars, v)
    /\ mi' = mi + 1
    /\ UNCHANGED <<img, pc, cname, raw_ro, mlist, methods, props>> /\ UNCHANGED <<gen, dec>>

\* One iteration of the base_properties loop: Property::create.
ReadProp ==
    /\ pc = "props"
    /\ mi < mlist.count
    /\ LET p == Property_create(img.bin, Wrap(mlist.addr + mi * mlist.sizeof))
       IN  props' = IF p = NoEntity THEN props ELSE Append(props, p)
    /\ mi' = mi + 1
    /\ UNCHANGED <<img, pc, cname, raw_ro, mlist, methods, ivars>> /\ UNCHANGED <<gen, dec>>

\* The end of the ivars loop, or of the properties loop, which ends
\* Class::create: generate() starts declaring the class.
ListRead ==
    /\ pc \in {"ivars", "props"}
    /\ mi >= mlist.count
    /\ pc' = IF pc = "ivars" THEN "prop_list" ELSE "decl"
    /\ UNCHANGED <<img, cname, raw_ro, mlist, mi, methods, ivars, props>>
    /\ UNCHANGED <<gen, dec>>

-----------------------------------------------------------------------------
(* decl_class / decl_protocol                                              *)

\* What search() finds in the class's DeclContext while its members are
\* declared: the ivars declared so far (while an ivar is declared, those
\* before it; the methods come first and meet none).
DC == IF pc \in {"ivar", "ivar_type"}
      THEN {ivars[j].name : j \in 1..di - 1}
      ELSE {}

\* decl_class (decl_protocol) calls decl_method for each method in turn,
\* which first calls meth.prototype(): decode_type of the mangled type.
DeclMethod ==
    /\ pc = "decl"
    /\ di <= Len(methods)
    /\ StartDecode(methods[di].mangled_type)
    /\ pc' = "prototype"
    /\ UNCHANGED <<img, read, di, params, decl, pi>>

\* The methods are declared: decl_class goes on with the ivars, from the
\* first.
DeclMethodsDone ==
    /\ pc = "decl"
    /\ di > Len(methods)
    /\ pc' = AfterMethods
    /\ di' = 1
    /\ UNCHANGED <<img, read, params, decl, pi>> /\ UNCHANGED dec

\* One iteration of the decode_type loop of Method::prototype or IVar::type.
DecodeStep ==
    /\ pc \in {"prototype", "ivar_type"}
    /\ Decoder!DecodeType
    /\ UNCHANGED <<img, pc, read, gen>>

DropStep ==
    /\ pc \in {"prototype", "ivar_type"}
    /\ Decoder!DropType
    /\ UNCHANGED <<img, pc, read, gen>>

\* Method::prototype returns {} when decode_type returned nothing, else the
\* first type and the rest; decl_method then calls
\* get_qtype(*prototype.rtype) whatever prototype() returned.
DeclReturnType ==
    /\ pc = "prototype"
    /\ Decoder!DecodeDone
    /\ LET q == get_qtype(IF types = <<>> THEN NoType ELSE Head(types), DC)
       IN  /\ decl' = [decl EXCEPT !.rtype = q, !.params = <<>>]
           /\ pc' = IF q = Crash THEN "crashed" ELSE "params"
    /\ params' = IF types = <<>> THEN <<>> ELSE Tail(types)
    /\ pi' = 1
    /\ UNCHANGED <<img, read, di>> /\ UNCHANGED dec

\* One parameter of decl_method: a first parameter of type object is self,
\* a pointer to the class when DC is an ObjCInterfaceDecl; every other
\* parameter ("id" for a selector, "argN" otherwise) goes to get_qtype.
DeclParam ==
    /\ pc = "params"
    /\ pi <= Len(params)
    /\ LET p == params[pi]
           q == IF pi = 1 /\ p.k = "object" /\ img.container = "class"
                THEN QPointer(QInterface(cname))
                ELSE get_qtype(p, DC)
       IN  /\ decl' = [decl EXCEPT !.params = Append(@, q)]
           /\ pc' = IF q = Crash THEN "crashed" ELSE "params"
    /\ pi' = pi + 1
    /\ UNCHANGED <<img, read, di, params>> /\ UNCHANGED dec

\* setMethodParams and DC->addDecl: the method is declared, and decl_class
\* goes on with the next one.
DeclMethodDone ==
    /\ pc = "params"
    /\ pi > Len(params)
    /\ pc' = "decl"
    /\ di' = di + 1
    /\ UNCHANGED <<img, read, params, decl, pi>> /\ UNCHANGED dec

\* decl_ivar of an ivar whose type is empty: a pointer to NSObjectTy(DC).
DeclIvarUntyped ==
    /\ pc = "ivar"
    /\ di <= Len(ivars)
    /\ ivars[di].mangled_type = <<>>
    /\ decl' = [decl EXCEPT !.ivars = Append(@, QPointer(NSObjectTy(DC)))]
    /\ di' = di + 1
    /\ UNCHANGED <<img, pc, read, params, pi>> /\ UNCHANGED dec

\* decl_ivar of a typed ivar calls IVar::type, which decodes it.
DeclIvar ==
    /\ pc = "ivar"
    /\ di <= Len(ivars)
    /\ ivars[di].mangled_type # <<>>
    /\ StartDecode(ivars[di].mangled_type)
    /\ pc' = "ivar_type"
    /\ UNCHANGED <<img, read, gen>>

\* IVar::type returns nullptr unless decode_type returned exactly one type;
\* decl_ivar declares UnknownAny for a nullptr and get_qtype of the type
\* otherwise, then adds the ivar to the class.
DeclIvarType ==
    /\ pc = "ivar_type"
    /\ Decoder!DecodeDone
    /\ LET q == IF Len(types) # 1 THEN QBuiltin("unknown_any") ELSE get_qtype(types[1], DC)
       IN  /\ decl' = [decl EXCEPT !.ivars = Append(@, q)]
           /\ pc' = IF q = Crash THEN "crashed" ELSE "ivar"
    /\ di' = di + 1
    /\ UNCHANGED <<img, read, params, pi>> /\ UNCHANGED dec

\* The ivars are declared: decl_class goes on with the properties.
DeclIvarsDone ==
    /\ pc = "ivar"
    /\ di > Len(ivars)
    /\ pc' = "property"
    /\ di' = 1
    /\ UNCHANGED <<img, read, params, decl, pi>> /\ UNCHANGED dec

\* decl_property: every property is declared void, under its name.
DeclProperty ==
    /\ pc = "property"
    /\ di <= Len(props)
    /\ decl' = [decl EXCEPT !.props = Append(@, [name |-> props[di].name,
                                                  type |-> QBuiltin("v")])]
    /\ di' = di + 1
    /\ UNCHANGED <<img, pc, read, params, pi>> /\ UNCHANGED dec

\* DC->addDecl(cls_decl): the class is declared.
DeclPropertiesDone ==
    /\ pc = "property"
    /\ di > Len(props)
    /\ pc' = "done"
    /\ UNCHANGED <<img, read, gen, dec>>

Next ==
    \/ ReadClass \/ ClassUnreadable \/ ClassRoPtr2
    \/ ReadMethodList \/ ReadMethod \/ MethodsRead
    \/ ReadIvarList \/ ReadIvar \/ ReadPropList \/ ReadProp \/ ListRead
    \/ DeclMethod \/ DeclMethodsDone
    \/ DecodeStep \/ DropStep
    \/ DeclReturnType \/ DeclParam \/ DeclMethodDone
    \/ DeclIvarUntyped \/ DeclIvar \/ DeclIvarType \/ DeclIvarsDone
    \/ DeclProperty \/ DeclPropertiesDone

\* Class::create and generate() are a sequence of plain calls: each
\* enabled step is taken.
Spec == Init /\ [][Next]_vars /\ WF_vars(Next)

-----------------------------------------------------------------------------
(* Properties                                                              *)

\* generate() never dereferences a null ObjC::Type: decl_method calls
\* get_qtype(*prototype.rtype) even when prototype() returned {}, and
\* get_qtype's ARRAY case dereferences array_ty.subtype, which
\* process_array leaves null when the element type is not supported.
NoNullDereference == pc # "crashed"

=============================================================================
