------------------------------- MODULE TypeTraits -------------------------------
(* VisitTypeTraitExpr: the types whose definitions the value of a type     *)
(* trait depends on.  For most binary traits a forward declaration is      *)
(* enough for the compiler, and the value is then quietly another one.     *)
EXTENDS Types

(* What ReportTypeUse is called with: what is removed before the class.    *)
Need(t, deref) == [type |-> t, deref |-> deref]

(* A union has no bases: what is behind a pointer to one does not matter.  *)
NeedOfArgument(t) ==
  Need(t, IF IsUnion(RemovePointersAndReferences(t)) THEN "refs" ELSE "refs_and_pointer")

(* An array of unknown bound is recognized as written only.                *)
IsIncompleteArrayAsWritten(t) == Kind(t) = "array" /\ TypeInfo[t].size = 0
RequireCompleteArgTypes(args) ==
  {Need(a, "none") : a \in {a \in Range(args) : ~IsIncompleteArrayAsWritten(a)}}

-----------------------------------------------------------------------------
(* Unary traits: all that need the type itself do so unless ...            *)
NeverNeeding ==
  {"is_complete_type", "is_class", "is_same", "is_deducible", "is_scalarized_layout_compatible"}

UnaryNeeds(trait, t) ==
  LET itself == {Need(t, "none")}
  IN  CASE trait = "structured_binding_size" -> IF IsArray(t) THEN {} ELSE itself
        [] trait = "is_empty" -> IF IsStructureOrClass(t) THEN itself ELSE {}
        [] trait = "is_final" -> IF IsRecord(t) THEN itself ELSE {}
        [] trait = "is_trivial" -> itself
        [] trait = "has_trivial_assign" ->
             IF ~IsAnyReference(t) THEN itself
             ELSE IF IsIncompleteArray(Pointee(t)) THEN {} ELSE {Need(t, "refs")}
        [] trait = "is_destructible" -> IF IsIncompleteArray(t) THEN {} ELSE itself

-----------------------------------------------------------------------------
(* A pointer to a derived class, or a pointer to a member of a base: the   *)
(* derived class tells whether it converts.                                *)
PtrConversionNeeds(from, to) ==
  CASE IsDerivedToBasePtrConvertible(RemoveReference(from), RemoveReference(to)) ->
         {Need(from, "refs_and_pointer")}
    [] IsBaseToDerivedMemPtrConvertible(RemoveReference(from), RemoveReference(to)) ->
         {Need(Qualifier(RemoveReference(to)), "none")}
    [] OTHER -> {}

AssignableNeeds(lhs, rhs) ==
  LET ptr == PtrConversionNeeds(rhs, lhs)
  IN  CASE IsRecord(RemoveReference(lhs)) ->
             IF IsVoid(rhs) THEN {} ELSE {Need(lhs, "refs"), NeedOfArgument(rhs)}
        [] ~IsRecord(RemoveReference(lhs)) /\ IsReferenceToModifiableLValue(lhs) ->
             IF ptr = {} /\ IsRecord(RemoveReference(rhs)) THEN {Need(rhs, "refs")} ELSE ptr
        [] OTHER -> {}

TriviallyAssignableNeeds(lhs, rhs) ==
  LET to == RemoveReference(lhs)
      from == RemoveReference(rhs)
      referred == {Need(rhs, "refs")}
  IN  CASE IsStructureOrClass(to) -> IF IsStructureOrClass(from) THEN referred ELSE {}
        [] IsUnion(to) -> IF IsSame(from, to) THEN referred ELSE {}
        [] ~IsRecord(to) /\ IsReferenceToModifiableLValue(lhs) -> PtrConversionNeeds(rhs, lhs)
        [] OTHER -> {}

ConvertibleNeedsAsWritten(from, to) ==   \* a faulty variant
  IF IsRecord(to) THEN {NeedOfArgument(from)}
  ELSE IF IsRecord(RemoveReferenceAsWritten(from)) THEN {Need(from, "refs")}
  ELSE PtrConversionNeeds(from, to)

ConvertibleNeeds(from, to) ==
  LET binds == RefCanBindToTemp(to)
      ptr == IF ~IsAnyReference(to) \/ binds THEN PtrConversionNeeds(from, to) ELSE {}
      to_class == IsRecord(to) \/ (binds /\ IsRecord(Pointee(to)))
      class == IF to_class /\ ~IsUnion(RemovePointersAndReferences(from))
               THEN {Need(from, "refs_and_pointer")}
               ELSE IF IsRecord(RemoveReference(from)) THEN {Need(from, "refs")} ELSE {}
  IN  IF \/ IsVoid(from) \/ IsVoid(to) \/ IsFunction(to)
         \/ IsSame(RemoveReference(from), RemoveReference(to))
      THEN {}
      ELSE (IF binds THEN {Need(to, "refs")} ELSE {}) \cup (IF ptr # {} THEN ptr ELSE class)

-----------------------------------------------------------------------------
(* Construction from any number of arguments; that of an array may be      *)
(* aggregate initialization, from no more arguments than it has elements.  *)
TooMany(array, inits) ==
  ~IsIncompleteArray(array) /\ TypeInfo[Canonical[array]].size < Len(inits)

SamePointee(t, u) == IsPointer(u) /\ IsSame(Of(Canonical[t]), Pointee(u))

InitOfElementNeeds(elem, init) ==
  LET d == RemoveReference(init)
  IN  CASE IsPointer(d) \/ IsArray(d) ->
             IF IsVoidPointer(elem) \/ SamePointee(d, elem) THEN {} ELSE {NeedOfArgument(init)}
        [] ~(IsPointer(d) \/ IsArray(d)) /\ IsMemberPointer(elem) ->
             IF IsMemberPointer(d) /\ IsSame(Qualifier(d), Qualifier(elem)) THEN {}
             ELSE {Need(Qualifier(elem), "none"), NeedOfArgument(init)}
        [] OTHER -> {NeedOfArgument(init)}

ArrayConstructibleNeeds(array, inits) ==
  LET elem == Element(array)
      IsAcceptable(i) == /\ ~IsVoid(i)
                         /\ \/ IsRecord(elem) \/ IsRecord(RemoveReference(i))
                            \/ IsConvertible(i, elem)
  IN  IF \/ TooMany(array, inits) \/ IsArray(elem)
         \/ \E i \in Range(inits) : ~IsAcceptable(i)
      THEN {}
      ELSE {Need(elem, "none")} \cup UNION {InitOfElementNeeds(elem, i) : i \in Range(inits)}

ConstructibleNeeds(t, inits) ==
  CASE IsArray(t) -> ArrayConstructibleNeeds(t, inits)
    [] ~IsArray(t) /\ Len(inits) > 1 ->
         IF IsRecord(t) /\ \A i \in Range(inits) : ~IsVoid(i)
         THEN {NeedOfArgument(a) : a \in {t} \cup Range(inits)} ELSE {}
    [] ~IsArray(t) /\ Len(inits) = 1 ->
         ConvertibleNeeds(inits[1], t)
    [] OTHER -> {}

TriviallyConstructibleArrayNeeds(array, inits) ==
  LET elem == Element(array)
      from == Range(inits)
      MemPtrNeeds == IF /\ IsMemberPointer(elem)
                        /\ \E i \in from : LET d == RemoveReference(i) IN
                              IsMemberPointer(d) /\ ~IsSame(Qualifier(d), Qualifier(elem))
                     THEN {Need(Qualifier(elem), "none")} ELSE {}
      PtrNeeds == {Need(i, "refs_and_pointer") : i \in
                     {j \in from : IsPointer(elem) /\ ~SamePointee(RemoveReference(j), elem)}}
  IN  CASE TooMany(array, inits) -> {}
        [] ~TooMany(array, inits) /\ IsStructureOrClass(elem) ->
             IF \A i \in from : IsStructureOrClass(RemoveReference(i))
             THEN {Need(i, "refs") : i \in from} ELSE {}
        [] ~TooMany(array, inits) /\ IsUnion(elem) ->
             IF \A i \in from : IsSame(RemoveReference(i), elem)
             THEN {Need(elem, "none")} ELSE {}
        [] OTHER ->
             IF \/ IsVoidPointer(elem)
                \/ \E i \in from : IsRecord(RemoveReference(i)) \/ ~IsConvertible(i, elem)
             THEN {} ELSE PtrNeeds \cup MemPtrNeeds

ReferenceBindsDirectly(lhs, rhs) ==
  /\ \/ IsLValueReference(lhs) /\ IsLValueReference(rhs)
     \/ RefCanBindToTemp(lhs) /\ IsRValueReference(rhs)
  /\ IsOfKind(rhs, {"const_reference"}) => IsOfKind(lhs, {"const_reference"})

TriviallyConstructibleNeeds(t, inits) ==
  LET args == {t} \cup Range(inits)
      both_classes == /\ IsStructureOrClass(RemoveReference(t))
                      /\ IsStructureOrClass(RemoveReference(inits[1]))
  IN  CASE IsRecord(t) ->
             IF (Len(inits) > 1 /\ IsUnion(t)) \/ (\E a \in args : IsVoid(a)) THEN {}
             ELSE {Need(a, "refs_and_pointer") : a \in
                     {b \in args : IsStructureOrClass(RemovePointersAndReferences(b))}}
        [] IsArray(t) -> TriviallyConstructibleArrayNeeds(t, inits)
        [] ~IsRecord(t) /\ ~IsArray(t) /\ Len(inits) = 1 ->
             IF both_classes
             THEN IF /\ ~IsSame(RemoveReference(t), RemoveReference(inits[1]))
                     /\ ReferenceBindsDirectly(t, inits[1])
                  THEN {Need(inits[1], "refs")} ELSE {}
             ELSE IF ~IsAnyReference(t) \/ RefCanBindToTemp(t)
             THEN PtrConversionNeeds(inits[1], t) ELSE {}
        [] OTHER -> {}

(* A temporary may be constructed for a reference to bind to.              *)
ReferenceBindsNeeds(t, inits) ==
  IF RefCanBindToTemp(t) /\ ~IsFunction(RemoveReference(t)) THEN ConstructibleNeeds(t, inits) ELSE {}

-----------------------------------------------------------------------------
(* Relations.                                                              *)
BaseOfNeeds(base, derived) ==
  IF IsStructureOrClass(base) /\ IsStructureOrClass(derived) /\ ~IsSame(base, derived)
  THEN {Need(derived, "none")} ELSE {}

VirtualBaseOfNeeds(base, derived) ==
  IF IsStructureOrClass(base) /\ IsStructureOrClass(derived) THEN {Need(derived, "none")} ELSE {}

(* Whether an operand is of a class is asked of the type as written.       *)
SpaceshipNeeds(lhs, rhs) ==
  LET IsTag(t) == Kind(RemoveReference(t)) = "record"
      Both(tag, second) == {Need(tag, "refs"), NeedOfArgument(second)}
  IN  IF IsVoid(lhs) \/ IsVoid(rhs) THEN {}
      ELSE IF IsTag(rhs) THEN Both(rhs, lhs)
      ELSE IF IsTag(lhs) THEN Both(lhs, rhs) ELSE {}

-----------------------------------------------------------------------------
TraitNeeds(trait, args) ==
  LET complete == RequireCompleteArgTypes(args)
  IN  CASE trait \in NeverNeeding -> {}
        [] trait = "is_assignable" -> complete \cup AssignableNeeds(args[1], args[2])
        [] trait = "is_trivially_assignable" ->
             complete \cup TriviallyAssignableNeeds(args[1], args[2])
        [] trait = "reference_binds_to_temporary" -> complete \cup ReferenceBindsNeeds(args[1], Tail(args))
        [] trait = "is_constructible" -> complete \cup ConstructibleNeeds(args[1], Tail(args))
        [] trait = "is_convertible" -> complete \cup ConvertibleNeeds(args[1], args[2])
        [] trait = "is_trivially_constructible" ->
             complete \cup TriviallyConstructibleNeeds(args[1], Tail(args))
        [] trait = "is_layout_compatible" -> complete
        [] trait = "is_base_of" -> BaseOfNeeds(args[1], args[2])
        [] trait = "is_virtual_base_of" -> VirtualBaseOfNeeds(args[1], args[2])
        [] trait = "lt_synthesizes_from_spaceship" -> SpaceshipNeeds(args[1], args[2])
        [] OTHER -> UnaryNeeds(trait, args[1])

-----------------------------------------------------------------------------
(* What the language says of the traits that relate two types, for a       *)
(* compiler that sees the definitions of the classes in seen, and of the   *)
(* classes these derive from.                                              *)
WithBases(seen) == seen \cup UNION {Ancestors[c] : c \in seen}

Derives(c, b, seen) == c \in seen /\ b \in Ancestors[c]
ClassDerives(t, u, seen) ==
  IsRecord(t) /\ IsRecord(u) /\ Derives(ClassOf(Canonical[t]), ClassOf(Canonical[u]), seen)
SameOrDerived(t, u, seen) == IsSame(t, u) \/ ClassDerives(t, u, seen)

PointerConverts(from, to, seen) ==
  \/ /\ IsPointer(to) /\ (IsPointer(from) \/ IsArray(from))
     /\ IsVoid(Pointee(to)) \/ SameOrDerived(Of(Canonical[from]), Pointee(to), seen)
  \/ /\ IsMemberPointer(from) /\ IsMemberPointer(to)
     /\ IsSame(Of(Canonical[from]), Of(Canonical[to]))
     /\ SameOrDerived(Qualifier(to), Qualifier(from), seen)

StandardConverts(from, to, seen) ==
  \/ IsSame(from, to) /\ ~IsArray(to) /\ ~IsVoid(to)
  \/ IsOfKind(from, {"builtin"}) /\ IsOfKind(to, {"builtin"})
  \/ PointerConverts(from, to, seen)
  \/ ClassDerives(from, to, seen)

BindsDirectly(from, to, seen) ==
  /\ IsAnyReference(to) /\ SameOrDerived(RemoveReference(from), Pointee(to), seen)
  /\ IF IsOfKind(from, {"reference"}) THEN IsLValueReference(to)
     ELSE IF IsOfKind(from, {"const_reference"}) THEN IsOfKind(to, {"const_reference"})
     ELSE RefCanBindToTemp(to)

(* A reference to a temporary may be bound where a value may be passed.     *)
Accepts(to, from, seen) ==
  IF IsAnyReference(to)
  THEN \/ BindsDirectly(from, to, seen)
       \/ /\ RefCanBindToTemp(to) /\ ~IsSame(RemoveReference(from), Pointee(to))
          /\ StandardConverts(RemoveReference(from), Pointee(to), seen)
  ELSE StandardConverts(RemoveReference(from), to, seen)

ByConstructor(from, to, seen) ==
  LET target == IF RefCanBindToTemp(to) THEN Pointee(to) ELSE to
  IN  /\ IsRecord(target) /\ ClassOf(Canonical[target]) \in seen
      /\ ~IsSame(RemoveReference(from), target)
      /\ \E p \in ClassInfo[ClassOf(Canonical[target])].from : Accepts(p, from, seen)

ByConversionOperator(from, to, seen) ==
  LET source == RemoveReference(from)
  IN  /\ IsRecord(source) /\ ClassOf(Canonical[source]) \in seen
      /\ ~IsSame(source, RemoveReference(to))
      /\ \E c \in {ClassOf(Canonical[source])} \cup Ancestors[ClassOf(Canonical[source])] :
           \E t \in ClassInfo[c].to : Accepts(to, t, seen)

Converts(from, to, seen) ==
  Accepts(to, from, seen) \/ ByConstructor(from, to, seen) \/ ByConversionOperator(from, to, seen)

Initializes(Conv(_, _, _), t, init, seen) ==
  IF IsArray(t) THEN (TypeInfo[Canonical[t]].size > 0 \/ IsIncompleteArray(t))
                     /\ ~IsArray(Element(t)) /\ Conv(init, Element(t), seen)
  ELSE Conv(init, t, seen)
Trivially(from, to, seen) == Accepts(to, from, seen)

TraitHolds(trait, t, u, seen) ==
  CASE trait = "is_convertible" -> Converts(t, u, seen)
    [] trait = "is_constructible" -> Initializes(Converts, t, u, seen)
    [] trait = "is_trivially_constructible" -> Initializes(Trivially, t, u, seen)
    [] trait = "is_assignable" ->
         IF IsRecord(RemoveReference(t)) THEN Converts(u, RemoveReference(t), seen)
         ELSE IsReferenceToModifiableLValue(t) /\ Converts(u, Pointee(t), seen)
    [] trait = "is_trivially_assignable" ->
         IF IsRecord(RemoveReference(t)) THEN Accepts(RemoveReference(t), u, seen)
         ELSE IsReferenceToModifiableLValue(t) /\ Accepts(Pointee(t), u, seen)
    [] trait = "reference_binds_to_temporary" ->
         /\ RefCanBindToTemp(t) /\ ~BindsDirectly(u, t, seen)
         /\ Converts(u, t, seen)
    [] trait \in {"is_base_of", "is_virtual_base_of"} ->
         IsStructureOrClass(t) /\ IsStructureOrClass(u) /\ SameOrDerived(u, t, seen)

(* The classes that are reported for the arguments, or their typedefs.      *)
ClassesNeeded(trait, args) ==
  UNION {{ClassOf(c) : c \in NeededTypes(Walk[n.type, n.deref].type)} : n \in TraitNeeds(trait, args)}

RelationTraits ==
  {"is_convertible", "is_constructible", "is_trivially_constructible", "is_assignable",
   "is_trivially_assignable", "reference_binds_to_temporary", "is_base_of", "is_virtual_base_of"}

IsDetermined(trait, t, u) ==
  TraitHolds(trait, t, u, WithBases(ClassesNeeded(trait, <<t, u>>))) <=> TraitHolds(trait, t, u, Classes)
=============================================================================
