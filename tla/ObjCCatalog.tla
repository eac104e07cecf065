---------------------------- MODULE ObjCCatalog ----------------------------
(***************************************************************************)
(* What parse() promises of the Metadata it returns, as a specification   *)
(* whose steps each append one entity.                                     *)
(*                                                                         *)
(*  - the protocols of __objc_protolist that read come first, in list      *)
(*    order; after them only protocols some class refers to;               *)
(*  - the classes are the entries of __objc_classlist that read, in list   *)
(*    order, each exactly once, and all of them eventually;                *)
(*  - a class holds the methods of its readable superclass chain, root     *)
(*    first and marked non-instance, then the readable prefix of its own   *)
(*    base_method_list; the protocols it refers to that read; its          *)
(*    readable ivars and properties.                                       *)
(*                                                                         *)
(* A class's protocols are given by the offsets they were read from.       *)
(*                                                                         *)
(* One ending is allowed besides the full catalog: when the superclass     *)
(* chain of the next class runs into a cycle, the thread's stack           *)
(* overflows and the process dies with the classes before it appended.     *)
(***************************************************************************)
EXTENDS ObjCImage

CONSTANT Images

VARIABLES img, protocols, classes, overflowed

cvars == <<img, protocols, classes, overflowed>>

ListedProtocols == SelectSeq(img.protolist, LAMBDA a : img.proto[a].ok)
ListedClasses   == SelectSeq(img.classlist, LAMBDA a : img.class[a].ok)
Referenced      == UNION {ToSet(img.class[c].protos) : c \in ClassAddr}

\* A readable class and the readable superclasses above it, root first;
\* a superclass field pointing at the class itself ends the chain.
RECURSIVE Ancestry(_)
Ancestry(a) ==
    LET s == img.class[a].super
    IN  IF s \in ClassAddr /\ s # a /\ img.class[s].ok
        THEN Ancestry(s) \o <<a>>
        ELSE <<a>>

\* Following readable superclasses from the classes in seen, the last of
\* them being a, comes back to one of them.  A field pointing at its own
\* class ends the chain, as in Ancestry.
RECURSIVE ChainCycles(_, _)
ChainCycles(a, seen) ==
    LET s == img.class[a].super
    IN  /\ s \in ClassAddr
        /\ s # a
        /\ img.class[s].ok
        /\ s \in seen \/ ChainCycles(s, seen \cup {s})

\* The methods of the ancestors, each demoted to is_instance_ = FALSE.
InheritedMethods(a) ==
    LET anc == Ancestry(a)
        demoted(ms) == [k \in DOMAIN ms |-> [ms[k] EXCEPT !.inst = FALSE]]
    IN  FlattenSeq([j \in 1..Len(anc) - 1 |-> demoted(ClassOwnMethods(img, anc[j]))])

\* The class parse() returns.  Its methods, ivars and properties are the
\* ones ObjCImage's readers give (ClassOwnMethods, ReadablePrefix, ...), so
\* the refinement checks the order and the inheritance of Class::create,
\* not the reading loops themselves, which MC_ObjCDecl checks against the
\* laid-out bytes (IvarsReadAsSpecified, MethodReadAsSpecified).
ExpectedClass(a) ==
    [addr      |-> a,
     name      |-> img.class[a].name,
     meta      |-> img.class[a].meta,
     methods   |-> InheritedMethods(a) \o ClassOwnMethods(img, a),
     protocols |-> SelectSeq(img.class[a].protos, LAMBDA p : img.proto[p].ok),
     ivars     |-> ClassIvars(img, a),
     props     |-> ClassProps(img, a)]

ListedDone == Len(protocols) >= Len(ListedProtocols)

\* The next listed class to append, if any remains.
NextClassPending == Len(classes) < Len(ListedClasses)
NextClass        == ListedClasses[Len(classes) + 1]

CInit ==
    /\ img \in Images
    /\ protocols = <<>>
    /\ classes = <<>>
    /\ overflowed = FALSE

\* The catalog is what parse() returns, not what spec 3 asks of it: a
\* protocol listed twice, or referenced by several classes, is appended
\* once per occurrence, so duplicates are admitted here.  Uniqueness by
\* offset is the separate property ProtocolUniquePerOffset of ObjCParser.
AddListedProtocol ==
    /\ ~overflowed
    /\ ~ListedDone
    /\ protocols' = Append(protocols,
                           ProtocolCreate(img, ListedProtocols[Len(protocols) + 1]))
    /\ UNCHANGED <<img, classes, overflowed>>

AddReferencedProtocol ==
    /\ ~overflowed
    /\ ListedDone
    /\ \E a \in Referenced :
          /\ img.proto[a].ok
          /\ protocols' = Append(protocols, ProtocolCreate(img, a))
    /\ UNCHANGED <<img, classes, overflowed>>

AddClass ==
    /\ ~overflowed
    /\ ListedDone
    /\ NextClassPending
    /\ ~ChainCycles(NextClass, {NextClass})
    /\ classes' = Append(classes, ExpectedClass(NextClass))
    /\ UNCHANGED <<img, protocols, overflowed>>

Overflow ==
    /\ ~overflowed
    /\ ListedDone
    /\ NextClassPending
    /\ ChainCycles(NextClass, {NextClass})
    /\ overflowed' = TRUE
    /\ UNCHANGED <<img, protocols, classes>>

CNext == AddListedProtocol \/ AddReferencedProtocol \/ AddClass \/ Overflow

CSpec ==
    /\ CInit
    /\ [][CNext]_cvars
    /\ WF_cvars(AddListedProtocol)
    /\ WF_cvars(AddClass)
    /\ WF_cvars(Overflow)

=============================================================================
