----------------------------- MODULE ObjCImage -----------------------------
(***************************************************************************)
(* The Objective-C metadata of a Mach-O image as the parser reads it, and  *)
(* the parts of the parser that read one structure and touch no parser    *)
(* state: Protocol::create, Method::create, IVar::create and              *)
(* Property::create (src/src/ObjC/*.cpp).                                  *)
(*                                                                         *)
(* Pointers are given already decoded: a field names the address the      *)
(* parser seeks to after Parser::decode_ptr.  A structure is either       *)
(* readable at its address (stream.peek<T>() succeeds) or not; strings    *)
(* are abstracted to a small set of Names.  An entry of an on-disk list   *)
(* is a BOOLEAN: whether its slot can be peeked.  Entities built from     *)
(* list entries are identified by their slot <<owner, list, index>>.      *)
(***************************************************************************)
EXTENDS Naturals, Sequences, SequencesExt

CONSTANTS
    ProtoAddr,   \* addresses a protocol_t pointer can decode to
    ClassAddr,   \* addresses an objc_class_t pointer can decode to
    Names,       \* what a mangled name read with peek_string_at can be
    NULL         \* a zero pointer field

\* protocol_t: ok is whether peek<protocol_t> succeeds; the five list fields
\* (an absent or unreadable list header reads as the empty list).
ProtocolImage ==
    [ok: BOOLEAN, name: Names,
     inst: Seq(BOOLEAN), cls: Seq(BOOLEAN),
     optInst: Seq(BOOLEAN), optCls: Seq(BOOLEAN), props: Seq(BOOLEAN)]

\* objc_class_t with its class_ro_t: ok is whether objc_class_t, class_ro_t
\* and the name string can all be read; protos is the readable part of
\* protocol_list_t (the loop stops at the first unreadable pointer).
ClassImage ==
    [ok: BOOLEAN, name: Names, meta: BOOLEAN, super: ClassAddr \cup {NULL},
     methods: Seq(BOOLEAN), protos: Seq(ProtoAddr),
     ivars: Seq(BOOLEAN), props: Seq(BOOLEAN)]

\* The sections __objc_protolist and __objc_classlist (a missing section is
\* the empty sequence) and what lies at every address.
Image ==
    [protolist: Seq(ProtoAddr), classlist: Seq(ClassAddr),
     proto: [ProtoAddr -> ProtocolImage], class: [ClassAddr -> ClassImage]]

\* The slot <<owner, list, index>> an entity was read from.
Slot == (ProtoAddr \cup ClassAddr) \X STRING \X Nat

\* A Method: the slot it was read from and its is_instance_ flag.
Method == [id: Slot, inst: BOOLEAN]

\* Method::create at slot k of list lst of owner o, with is_instance_ = inst.
MethodAt(o, lst, k, inst) == [id |-> <<o, lst, k>>, inst |-> inst]

\* The slots a loop keeps when it skips the entries whose create fails.
ReadableSlots(flags) == SelectSeq([k \in DOMAIN flags |-> k], LAMBDA k : flags[k])

\* The number of slots a loop keeps when it breaks at the first failure.
ReadablePrefix(flags) ==
    LET bad == SelectInSeq(flags, LAMBDA f : ~f)
    IN  IF bad = 0 THEN Len(flags) ELSE bad - 1

\* One method list of a protocol_t: every readable entry, with is_instance_.
ProtocolMethods(im, a, lst, inst) ==
    LET slots == ReadableSlots(im.proto[a][lst])
    IN  [j \in DOMAIN slots |-> MethodAt(a, lst, slots[j], inst)]

\* The ivar_t or property_t entries of list lst of owner o that IVar::create
\* or Property::create accept (they fail only when the entry cannot be peeked).
ItemsOf(o, flags, lst) ==
    LET slots == ReadableSlots(flags)
    IN  [j \in DOMAIN slots |-> <<o, lst, slots[j]>>]

\* Protocol::create at address a (readable).  addr is a ghost field: the
\* offset the protocol was read from, which the code keeps only as the key
\* of Parser::protocols_.
ProtocolCreate(im, a) ==
    [addr     |-> a,
     name     |-> im.proto[a].name,
     required |-> ProtocolMethods(im, a, "inst", TRUE)
                    \o ProtocolMethods(im, a, "cls", FALSE),
     optional |-> ProtocolMethods(im, a, "optInst", TRUE)
                    \o ProtocolMethods(im, a, "optCls", FALSE),
     props    |-> ItemsOf(a, im.proto[a].props, "props")]

\* The base_method_list loop of Class::create: it breaks at the first entry
\* Method::create cannot read, and sets is_instance_ = !is_meta.
ClassOwnMethods(im, a) ==
    [k \in 1..ReadablePrefix(im.class[a].methods) |->
        MethodAt(a, "methods", k, ~im.class[a].meta)]

\* The ivars and base_properties loops of Class::create skip failed entries.
ClassIvars(im, a) == ItemsOf(a, im.class[a].ivars, "ivars")
ClassProps(im, a) == ItemsOf(a, im.class[a].props, "props")

=============================================================================
