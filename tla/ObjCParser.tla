----------------------------- MODULE ObjCParser -----------------------------
(***************************************************************************)
(* Parser::parse (src/src/ObjC/Parser.cpp) with the recursive              *)
(* Class::create (src/src/ObjC/Class.cpp) it drives.                       *)
(*                                                                         *)
(* The parser is single-threaded; a behaviour is one parse() of one image  *)
(* drawn from Images.  Each step is one iteration of a loop of the code:   *)
(* one __objc_protolist entry, one phase of a Class::create frame, one     *)
(* protocol reference.  The recursion of Class::create into the            *)
(* superclass is an explicit call stack of frames.                         *)
(*                                                                         *)
(* Entities are numbered by their place in Metadata::protocols_ and        *)
(* Metadata::classes_; 0 is the null pointer.                              *)
(***************************************************************************)
EXTENDS ObjCImage, FiniteSets

CONSTANTS
    Images,      \* the images parse() may be given, a subset of Image
    MaxDepth     \* frames the thread's stack holds before it overflows

ASSUME Images \subseteq Image /\ MaxDepth \in Nat \ {0}

VARIABLES
    img,         \* the image being parsed (never changes)
    pc,          \* "protocols", "classes", "done" or "overflow"
    idx,         \* the loop index of process_protocols / process_classes
    protoMap,    \* Parser::protocols_ : offset -> Protocol* (0: absent)
    protocols,   \* Metadata::protocols_
    protoLookup, \* Metadata::protocol_lookup_ : name -> Protocol* (0: absent)
    classes,     \* Metadata::classes_
    classLookup, \* Metadata::classes_lookup_ : name -> Class* (0: absent)
    stack        \* the Class::create frames, innermost last

vars == <<img, pc, idx, protoMap, protocols, protoLookup, classes,
          classLookup, stack>>

None == 0

\* A Class under construction or returned.  addr is a ghost field (the
\* offset it was read from); super stands for Class::super_.
NewClass(a) ==
    [addr |-> a, name |-> img.class[a].name, meta |-> img.class[a].meta,
     super |-> NULL, methods |-> <<>>, protocols |-> <<>>,
     ivars |-> <<>>, props |-> <<>>]

\* A Class::create frame: the class address (the stream position P), the
\* statement it is at, the index of its protocol loop, the Class so far.
Frame == [addr: ClassAddr,
          phase: {"start", "super", "methods", "protocols"},
          i: Nat, cls: [addr: ClassAddr, name: Names, meta: BOOLEAN,
                        super: ClassAddr \cup {NULL}, methods: Seq(Method),
                        protocols: Seq(Nat), ivars: Seq(Slot), props: Seq(Slot)]]

NewFrame(a) == [addr |-> a, phase |-> "start", i |-> 1, cls |-> NewClass(a)]

Top == stack[Len(stack)]
SetTop(f) == stack' = [stack EXCEPT ![Len(stack)] = f]

\* metadata_->protocol_lookup_[name] = ptr; metadata_->protocols_.push_back
RegisterProtocol(a) ==
    /\ protocols'   = Append(protocols, ProtocolCreate(img, a))
    /\ protoLookup' = [protoLookup EXCEPT ![img.proto[a].name] = Len(protocols) + 1]

Init ==
    /\ img \in Images
    /\ pc = "protocols"
    /\ idx = 1
    /\ protoMap = [a \in ProtoAddr |-> None]
    /\ protocols = <<>>
    /\ protoLookup = [n \in Names |-> None]
    /\ classes = <<>>
    /\ classLookup = [n \in Names |-> None]
    /\ stack = <<>>

-----------------------------------------------------------------------------
(* Parser::process_protocols                                               *)

\* An __objc_protolist entry whose protocol_t reads: record it by offset
\* and by name.
ProcessProtocol ==
    /\ pc = "protocols"
    /\ idx <= Len(img.protolist)
    /\ LET a == img.protolist[idx] IN
         /\ img.proto[a].ok
         /\ protoMap' = [protoMap EXCEPT ![a] = Len(protocols) + 1]
         /\ RegisterProtocol(a)
    /\ idx' = idx + 1
    /\ UNCHANGED <<img, pc, classes, classLookup, stack>>

\* Mutation of SkipProtocol: the loop breaks at an unreadable protocol, as
\* it does when the pointer itself cannot be read.
SkipProtocolBreaks ==
    /\ pc = "protocols"
    /\ idx <= Len(img.protolist)
    /\ ~img.proto[img.protolist[idx]].ok
    /\ idx' = Len(img.protolist) + 1
    /\ UNCHANGED <<img, pc, protoMap, protocols, protoLookup, classes,
                   classLookup, stack>>

\* An entry whose protocol_t cannot be read: warn and go on.
SkipProtocol ==
    /\ pc = "protocols"
    /\ idx <= Len(img.protolist)
    /\ ~img.proto[img.protolist[idx]].ok
    /\ idx' = idx + 1
    /\ UNCHANGED <<img, pc, protoMap, protocols, protoLookup, classes,
                   classLookup, stack>>

\* Parser::parse: process_protocols() then process_classes().
ProtocolsDone ==
    /\ pc = "protocols"
    /\ idx > Len(img.protolist)
    /\ pc' = "classes"
    /\ idx' = 1
    /\ UNCHANGED <<img, protoMap, protocols, protoLookup, classes,
                   classLookup, stack>>

-----------------------------------------------------------------------------
(* Parser::process_classes                                                 *)

\* Call Class::create with the stream at the next __objc_classlist entry.
StartClass ==
    /\ pc = "classes"
    /\ stack = <<>>
    /\ idx <= Len(img.classlist)
    /\ stack' = <<NewFrame(img.classlist[idx])>>
    /\ UNCHANGED <<img, pc, idx, protoMap, protocols, protoLookup, classes,
                   classLookup>>

ClassesDone ==
    /\ pc = "classes"
    /\ stack = <<>>
    /\ idx > Len(img.classlist)
    /\ pc' = "done"
    /\ UNCHANGED <<img, idx, protoMap, protocols, protoLookup, classes,
                   classLookup, stack>>

\* Mutation of Return: the adopted superclass methods keep is_instance_.
ReturnKeepsInstance(ok, cls) ==
    \/ /\ Len(stack) = 1
       /\ stack' = <<>>
       /\ idx' = idx + 1
       /\ \/ /\ ok
             /\ classLookup' = [classLookup EXCEPT ![cls.name] = Len(classes) + 1]
             /\ classes' = Append(classes, cls)
          \/ /\ ~ok
             /\ UNCHANGED <<classes, classLookup>>
    \/ /\ Len(stack) > 1
       /\ LET n == Len(stack) - 1
          IN  stack' = [SubSeq(stack, 1, n) EXCEPT
                          ![n].phase = "methods",
                          ![n].cls.methods = IF ok THEN @ \o cls.methods ELSE @]
       /\ UNCHANGED <<idx, classes, classLookup>>

\* Class::create returns to its caller: ok says whether it returned a Class.
\* At depth 1 the caller is process_classes, which records a returned Class
\* by name and appends it; deeper, the caller is the subclass's frame,
\* which moves the superclass's methods into its own with is_instance_
\* false and drops the superclass object.
Return(ok, cls) ==
    \/ /\ Len(stack) = 1
       /\ stack' = <<>>
       /\ idx' = idx + 1
       /\ \/ /\ ok
             /\ classLookup' = [classLookup EXCEPT ![cls.name] = Len(classes) + 1]
             /\ classes' = Append(classes, cls)
          \/ /\ ~ok
             /\ UNCHANGED <<classes, classLookup>>
    \/ /\ Len(stack) > 1
       /\ LET n       == Len(stack) - 1
              adopted == [k \in DOMAIN cls.methods |->
                            [cls.methods[k] EXCEPT !.inst = FALSE]]
          IN  stack' = [SubSeq(stack, 1, n) EXCEPT
                          ![n].phase = "methods",
                          ![n].cls.methods = IF ok THEN @ \o adopted ELSE @]
       /\ UNCHANGED <<idx, classes, classLookup>>

-----------------------------------------------------------------------------
(* Class::create, one frame                                                *)

\* The superclass test of Class::create: super_class is non-zero and does
\* not decode to the stream position, which is still the class's own
\* address (objc_class_t was peeked, not read).
HasSuper(f) ==
    /\ img.class[f.addr].super # NULL
    /\ img.class[f.addr].super # f.addr

\* objc_class_t, class_ro_t or the name cannot be read: return nullptr.
ClassUnreadable ==
    /\ pc = "classes"
    /\ stack # <<>>
    /\ Top.phase = "start"
    /\ ~img.class[Top.addr].ok
    /\ Return(FALSE, Top.cls)
    /\ UNCHANGED <<img, pc, protoMap, protocols, protoLookup>>

\* The class reads and has no superclass to follow.
ClassRead ==
    /\ pc = "classes"
    /\ stack # <<>>
    /\ Top.phase = "start"
    /\ img.class[Top.addr].ok
    /\ ~HasSuper(Top)
    /\ SetTop([Top EXCEPT !.phase = "methods"])
    /\ UNCHANGED <<img, pc, idx, protoMap, protocols, protoLookup, classes,
                   classLookup>>

\* The class reads and has a superclass: a ScopedStream seeks to it and
\* Class::create recurses.
CreateSuperclass ==
    /\ pc = "classes"
    /\ stack # <<>>
    /\ Top.phase = "start"
    /\ img.class[Top.addr].ok
    /\ HasSuper(Top)
    /\ Len(stack) < MaxDepth
    /\ stack' = Append([stack EXCEPT ![Len(stack)].phase = "super"],
                       NewFrame(img.class[Top.addr].super))
    /\ UNCHANGED <<img, pc, idx, protoMap, protocols, protoLookup, classes,
                   classLookup>>

\* The recursion needs one frame more than the stack holds: the process
\* dies and parse() never returns.
StackOverflow ==
    /\ pc = "classes"
    /\ stack # <<>>
    /\ Top.phase = "start"
    /\ img.class[Top.addr].ok
    /\ HasSuper(Top)
    /\ Len(stack) = MaxDepth
    /\ pc' = "overflow"
    /\ UNCHANGED <<img, idx, protoMap, protocols, protoLookup, classes,
                   classLookup, stack>>

\* base_method_list: the class's own methods after the adopted ones.
BaseMethods ==
    /\ pc = "classes"
    /\ stack # <<>>
    /\ Top.phase = "methods"
    /\ SetTop([Top EXCEPT !.phase = "protocols", !.i = 1,
                          !.cls.methods = @ \o ClassOwnMethods(img, Top.addr)])
    /\ UNCHANGED <<img, pc, idx, protoMap, protocols, protoLookup, classes,
                   classLookup>>

\* The protocol reference the base_protocols loop is at.
ProtoRef == img.class[Top.addr].protos[Top.i]

AtProtoRef ==
    /\ pc = "classes"
    /\ stack # <<>>
    /\ Top.phase = "protocols"
    /\ Top.i <= Len(img.class[Top.addr].protos)

\* Parser::get_or_create_protocol finds the offset in Parser::protocols_.
GetProtocolFound ==
    /\ AtProtoRef
    /\ protoMap[ProtoRef] # None
    /\ SetTop([Top EXCEPT !.i = @ + 1,
                          !.cls.protocols = Append(@, protoMap[ProtoRef])])
    /\ UNCHANGED <<img, pc, idx, protoMap, protocols, protoLookup, classes,
                   classLookup>>

\* Mutation of GetProtocolCreated: the returned pointer is taken before the
\* protocol is appended.
GetProtocolCreatedEarlyIndex ==
    /\ AtProtoRef
    /\ protoMap[ProtoRef] = None
    /\ img.proto[ProtoRef].ok
    /\ RegisterProtocol(ProtoRef)
    /\ SetTop([Top EXCEPT !.i = @ + 1,
                          !.cls.protocols = Append(@, Len(protocols))])
    /\ UNCHANGED <<img, pc, idx, protoMap, classes, classLookup>>

\* Mutation of GetProtocolCreated: the protocol is appended to the Metadata
\* but not entered in protocol_lookup_.
GetProtocolCreatedNoLookup ==
    /\ AtProtoRef
    /\ protoMap[ProtoRef] = None
    /\ img.proto[ProtoRef].ok
    /\ protocols' = Append(protocols, ProtocolCreate(img, ProtoRef))
    /\ SetTop([Top EXCEPT !.i = @ + 1,
                          !.cls.protocols = Append(@, Len(protocols) + 1)])
    /\ UNCHANGED <<img, pc, idx, protoMap, protoLookup, classes, classLookup>>

\* get_or_create_protocol creates the protocol: it is recorded in the
\* Metadata by name, but not in Parser::protocols_ by offset.
GetProtocolCreated ==
    /\ AtProtoRef
    /\ protoMap[ProtoRef] = None
    /\ img.proto[ProtoRef].ok
    /\ RegisterProtocol(ProtoRef)
    /\ SetTop([Top EXCEPT !.i = @ + 1,
                          !.cls.protocols = Append(@, Len(protocols) + 1)])
    /\ UNCHANGED <<img, pc, idx, protoMap, classes, classLookup>>

\* get_or_create_protocol returns nullptr: the reference is dropped.
GetProtocolFailed ==
    /\ AtProtoRef
    /\ protoMap[ProtoRef] = None
    /\ ~img.proto[ProtoRef].ok
    /\ SetTop([Top EXCEPT !.i = @ + 1])
    /\ UNCHANGED <<img, pc, idx, protoMap, protocols, protoLookup, classes,
                   classLookup>>

\* ivars and base_properties, then return the Class.
ClassFinish ==
    /\ pc = "classes"
    /\ stack # <<>>
    /\ Top.phase = "protocols"
    /\ Top.i > Len(img.class[Top.addr].protos)
    /\ Return(TRUE, [Top.cls EXCEPT !.ivars = ClassIvars(img, Top.addr),
                                    !.props = ClassProps(img, Top.addr)])
    /\ UNCHANGED <<img, pc, protoMap, protocols, protoLookup>>

-----------------------------------------------------------------------------

Next ==
    \/ ProcessProtocol \/ SkipProtocol \/ ProtocolsDone
    \/ StartClass \/ ClassesDone
    \/ ClassUnreadable \/ ClassRead \/ CreateSuperclass \/ StackOverflow
    \/ BaseMethods
    \/ GetProtocolFound \/ GetProtocolCreated \/ GetProtocolFailed
    \/ ClassFinish

\* parse() is a synchronous call on one thread: while it has a step to
\* take, it takes it.
Spec == Init /\ [][Next]_vars /\ WF_vars(Next)

-----------------------------------------------------------------------------
(* Metadata::get_protocol and get_class: the entity the name index holds   *)
(* for name, or nullptr (None) for a name it does not hold.                 *)

get_protocol(name) == protoLookup[name]
get_class(name)    == classLookup[name]

-----------------------------------------------------------------------------
(* Properties                                                              *)

TypeOK ==
    /\ img \in Image
    /\ pc \in {"protocols", "classes", "done", "overflow"}
    /\ idx \in Nat \ {0}
    /\ protoMap \in [ProtoAddr -> 0..Len(protocols)]
    /\ protoLookup \in [Names -> 0..Len(protocols)]
    /\ classLookup \in [Names -> 0..Len(classes)]
    /\ \A k \in DOMAIN classes :
          classes[k].protocols \in Seq(1..Len(protocols))
    /\ stack \in Seq(Frame)

\* The place of the last entity of s named n (0 if none).
LastNamed(s, n) == SelectLastInSeq(s, LAMBDA e : e.name = n)

\* Metadata::get_protocol and get_class answer, for every name, the last
\* protocol or class registered under it, and nothing for a name none has.
\* Both the protolist loop and get_or_create_protocol write the protocol
\* index; process_classes writes the class index before moving the Class.
LookupsIndexLastSeen ==
    \A n \in Names :
        /\ get_protocol(n) = LastNamed(protocols, n)
        /\ get_class(n) = LastNamed(classes, n)

\* spec 3: a Protocol is reference-unique by the offset it was read from:
\* no two protocols of the Metadata were read at the same offset.  Both
\* the protolist loop and get_or_create_protocol create protocols.
ProtocolUniquePerOffset ==
    \A j, k \in DOMAIN protocols :
        protocols[j].addr = protocols[k].addr => j = k

\* spec 8: every protocol a class refers to is what get_protocol answers
\* for its name.
ProtocolLookupResolvesRefs ==
    \A k \in DOMAIN classes :
        \A j \in DOMAIN classes[k].protocols :
            LET r == classes[k].protocols[j]
            IN  get_protocol(protocols[r].name) = r

\* spec 3 and 8: the superclass chain is finite and no longer than the
\* number of class offsets, so Class::create never nests deeper than that.
RecursionBounded == Len(stack) <= Cardinality(ClassAddr)

\* spec 3: a class whose super_class points at another class that reads
\* has that class as its superclass.
SuperclassKept ==
    \A k \in DOMAIN classes :
        LET s == img.class[classes[k].addr].super
        IN  (s \in ClassAddr /\ s # classes[k].addr /\ img.class[s].ok)
                => classes[k].super = s

\* A Class as the catalog specification sees it: its protocols by the
\* offsets the Protocol objects it points to were read from.
CatalogClass(c) ==
    [addr      |-> c.addr,
     name      |-> c.name,
     meta      |-> c.meta,
     methods   |-> c.methods,
     protocols |-> [k \in DOMAIN c.protocols |-> protocols[c.protocols[k]].addr],
     ivars     |-> c.ivars,
     props     |-> c.props]

Catalog == INSTANCE ObjCCatalog
              WITH classes    <- [k \in DOMAIN classes |-> CatalogClass(classes[k])],
                   overflowed <- (pc = "overflow")

\* parse() builds the catalog ObjCCatalog specifies: listed protocols first
\* and in order, the readable classlist entries in order and all of them,
\* each class with its inherited and own methods and its protocols; or the
\* stack overflows, and then only on a class whose superclass chain cycles.
CatalogRefinement == Catalog!CSpec

=============================================================================
