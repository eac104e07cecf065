----------------------------- MODULE MC_Parse -----------------------------
(***************************************************************************)
(* Parser::parse over two families of images.                              *)
(*                                                                         *)
(* Registry: two protocols and two root classes that refer to them, a      *)
(* protolist that lists them, misses them or lists one twice, protocols   *)
(* and classes that do or do not read, and names that may collide.  The   *)
(* third class address holds an unlisted, unreadable class.               *)
(*                                                                         *)
(* Hierarchy: three classes (c2 a metaclass), each readable or not, with  *)
(* no superclass, a superclass field pointing at itself or at another     *)
(* class, and a base_method_list that reads in full or whose first entry  *)
(* does not.                                                              *)
(***************************************************************************)
EXTENDS ObjCParser, TLC
LOCAL R == INSTANCE Relation

CONSTANTS p1, p2, c1, c2, c3, nA, nB

MCProtoAddr == {p1, p2}
MCClassAddr == {c1, c2, c3}
MCNames     == {nA, nB}

\* One frame more than the longest chain of distinct classes: a stack that
\* holds every class once can still grow.
MCMaxDepth == Cardinality(MCClassAddr) + 1

-----------------------------------------------------------------------------
(* Registry                                                                *)

\* Every protocol carries one readable required instance method, an
\* optional class-method list whose first entry is unreadable, and a
\* property.
RegProtocols ==
    [ok: BOOLEAN, name: MCNames, inst: {<<TRUE>>}, cls: {<<>>},
     optInst: {<<>>}, optCls: {<<FALSE, TRUE>>}, props: {<<TRUE>>}]

\* Root classes (no superclass, no methods) referring to protocols; the
\* ivar list has an unreadable first entry.
RegClasses ==
    [ok: BOOLEAN, name: MCNames, meta: {FALSE}, super: {NULL},
     methods: {<<>>}, protos: {<<>>, <<p1>>, <<p2, p1>>},
     ivars: {<<FALSE, TRUE>>}, props: {<<>>}]

Unlisted ==
    [ok |-> FALSE, name |-> nA, meta |-> FALSE, super |-> NULL, methods |-> <<>>,
     protos |-> <<>>, ivars |-> <<>>, props |-> <<>>]

RegistryImages ==
    {[protolist |-> pl, classlist |-> <<c1, c2>>, proto |-> pr,
      class |-> c1 :> x1 @@ c2 :> x2 @@ c3 :> Unlisted] :
        pl \in {<<>>, <<p1>>, <<p2, p1>>, <<p1, p1>>},
        pr \in [MCProtoAddr -> RegProtocols],
        x1 \in RegClasses, x2 \in RegClasses}

\* Images whose protolist names no protocol twice.
RegistryListedOnce == {im \in RegistryImages : IsInjective(im.protolist)}

\* Images whose protolist names every protocol exactly once.
RegistryAllListed ==
    {im \in RegistryListedOnce : ToSet(im.protolist) = MCProtoAddr}

-----------------------------------------------------------------------------
(* Hierarchy                                                               *)

HierProtocol ==
    [ok |-> TRUE, name |-> nA, inst |-> <<>>, cls |-> <<>>,
     optInst |-> <<>>, optCls |-> <<>>, props |-> <<>>]

HierClasses(isMeta) ==
    [ok: BOOLEAN, name: {nA}, meta: {isMeta}, super: MCClassAddr \cup {NULL},
     methods: {<<TRUE>>, <<FALSE, TRUE>>}, protos: {<<>>},
     ivars: {<<>>}, props: {<<>>}]

\* The superclass relation between distinct classes.
SuperOf(cl) == [x, y \in MCClassAddr |-> x # y /\ cl[x].super = y]

\* No chain of two or more classes leads back to where it started.
NoSuperCycle(cl) ==
    LET tc == R!TransitiveClosure(SuperOf(cl), MCClassAddr)
    IN  \A x \in MCClassAddr : ~tc[x, x]

HierarchyAllImages ==
    {[protolist |-> <<>>, classlist |-> <<c1, c2, c3>>,
      proto |-> [a \in MCProtoAddr |-> HierProtocol],
      class |-> c1 :> x1 @@ c2 :> x2 @@ c3 :> x3] :
        x1 \in HierClasses(FALSE), x2 \in HierClasses(TRUE),
        x3 \in HierClasses(FALSE)}

\* The images a compiler emits: superclass chains end.
HierarchyImages == {im \in HierarchyAllImages : NoSuperCycle(im.class)}

-----------------------------------------------------------------------------

MCImages == RegistryImages \cup HierarchyAllImages

=============================================================================
