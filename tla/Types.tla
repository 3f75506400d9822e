--------------------------------- MODULE Types ---------------------------------
(* The types of a program as they are written: iwyu_ast_util.cc looks at a *)
(* type either as written, with its typedefs, or through them.             *)
EXTENDS Naturals, Sequences, FiniteSets, SequencesExt, FiniteSetsExt
CONSTANTS
  NoClass, NoType,
  ClassInfo,    \* class -> [tag, file, line, bases, from, to]: its constructors take
                \*   the types in from, its conversion operators yield those in to
  TypeInfo      \* type as written -> [kind, of, class, args, needs, size, qualifier,
                \*   file, line, std]

Classes == DOMAIN ClassInfo
Types == DOMAIN TypeInfo

-----------------------------------------------------------------------------
(* As written.                                                             *)
Kind(t) == IF t = NoType THEN "none" ELSE TypeInfo[t].kind
Of(t) == TypeInfo[t].of
ClassOf(t) == IF Kind(t) \in {"record", "specialization"} THEN TypeInfo[t].class ELSE NoClass

IsReference(t) == Kind(t) \in {"reference", "const_reference", "rvalue_reference"}
IsPointerOrReferenceAsWritten(t) == Kind(t) = "pointer" \/ IsReference(t)
IsAlias(t) == Kind(t) \in {"typedef", "alias_template"}

(* Of references, only those to lvalues are removed.                       *)
Stripped[t \in Types] ==
  IF Kind(t) \in {"pointer", "reference", "const_reference"} THEN Stripped[Of(t)] ELSE t
RemovePointersAndReferencesAsWritten(t) == Stripped[t]

Components[t \in Types] ==
  {t} \cup (IF IsPointerOrReferenceAsWritten(t) \/ Kind(t) \in {"array", "function"}
                  \/ Kind(t) = "member_pointer"
            THEN Components[Of(t)] ELSE {})
      \cup (IF Kind(t) = "member_pointer" THEN Components[TypeInfo[t].qualifier] ELSE {})
      \cup UNION {Components[a] : a \in TypeInfo[t].args}

-----------------------------------------------------------------------------
(* Through typedefs.                                                       *)
Canonical[t \in Types] == IF IsAlias(t) THEN Canonical[Of(t)] ELSE t
GetCanonicalType(t) == Canonical[t]

IsOfKind(t, kinds) == Kind(Canonical[t]) \in kinds
IsVoid(t) == IsOfKind(t, {"void"})
IsRecord(t) == IsOfKind(t, {"record", "specialization"})
IsUnion(t) == IsRecord(t) /\ ClassInfo[ClassOf(Canonical[t])].tag = "union"
IsStructureOrClass(t) == IsRecord(t) /\ ~IsUnion(t)
IsArray(t) == IsOfKind(t, {"array"})
IsIncompleteArray(t) == IsArray(t) /\ TypeInfo[Canonical[t]].size = 0
IsFunction(t) == IsOfKind(t, {"function"})
IsPointer(t) == IsOfKind(t, {"pointer"})
IsMemberPointer(t) == IsOfKind(t, {"member_pointer"})
IsLValueReference(t) == IsOfKind(t, {"reference", "const_reference"})
IsRValueReference(t) == IsOfKind(t, {"rvalue_reference"})
IsAnyReference(t) == IsLValueReference(t) \/ IsRValueReference(t)

Pointee(t) == Of(Canonical[t])
Element(t) == Of(Canonical[t])
Qualifier(t) == TypeInfo[Canonical[t]].qualifier

RemoveReferenceAsWritten(t) == IF Kind(t) \in {"reference", "const_reference"} THEN Of(t) ELSE t
RemoveReference(t) == IF IsAnyReference(t) THEN Pointee(t) ELSE t

Bare[t \in Types] == IF IsPointer(t) \/ IsAnyReference(t) THEN Bare[Pointee(t)] ELSE t
RemovePointersAndReferences(t) == Bare[t]

Same[t \in Types, u \in Types] ==
  LET c == Canonical[t]
      d == Canonical[u]
  IN  \/ c = d
      \/ /\ Kind(c) = Kind(d) /\ Kind(c) \in {"pointer", "array"} /\ TypeInfo[c].size = TypeInfo[d].size
         /\ Same[Of(c), Of(d)]
IsSame(t, u) == Same[t, u]
IsVoidPointer(t) == IsPointer(t) /\ IsVoid(Pointee(t))

(* ReportTypeUse looks for a class: behind typedefs and arrays, and behind  *)
(* references and one pointer if it is told to remove them.                *)
Walk[t \in Types, deref \in {"none", "refs", "refs_and_pointer"}] ==
  CASE IsReference(t) /\ deref # "none" -> Walk[Of(t), deref]
    [] Kind(t) = "pointer" /\ deref = "refs_and_pointer" -> Walk[Of(t), "none"]
    [] Kind(t) = "array" -> Walk[Of(t), deref]
    [] IsAlias(t) -> LET w == Walk[Of(t), deref] IN [w EXCEPT !.aliases = @ \cup {t}]
    [] ClassOf(t) # NoClass -> [type |-> t, aliases |-> {}]
    [] OTHER -> [type |-> NoType, aliases |-> {}]

(* A specialization needs its template, and the arguments that the template *)
(* uses.                                                                   *)
NeededTypes(t) == IF t = NoType THEN {} ELSE {t} \cup TypeInfo[t].needs

-----------------------------------------------------------------------------
(* Conversions.                                                            *)
Ancestors[c \in Classes] == ClassInfo[c].bases \cup UNION {Ancestors[b] : b \in ClassInfo[c].bases}

IsDerivedFrom(t, u) ==
  IsRecord(t) /\ IsRecord(u) /\ ClassOf(Canonical[u]) \in Ancestors[ClassOf(Canonical[t])]

IsReferenceToModifiableLValue(t) == IsOfKind(t, {"reference"})
RefCanBindToTemp(t) == IsOfKind(t, {"const_reference", "rvalue_reference"})

(* An array decays to a pointer to its elements.                           *)
IsDerivedToBasePtrConvertible(derived, base) ==
  /\ IsPointer(base)
  /\ IsPointer(derived) \/ IsArray(derived)
  /\ IsDerivedFrom(Of(Canonical[derived]), Pointee(base))

IsBaseToDerivedMemPtrConvertible(base, derived) ==
  /\ IsMemberPointer(base) /\ IsMemberPointer(derived)
  /\ IsDerivedFrom(Qualifier(derived), Qualifier(base))
  /\ IsSame(Of(Canonical[base]), Of(Canonical[derived]))

(* Clang's opinion, on types that are not classes.                         *)
IsConvertible(from, to) ==
  LET d == RemoveReference(from)
  IN  \/ IsSame(d, to)
      \/ IsOfKind(d, {"builtin"}) /\ IsOfKind(to, {"builtin"})
      \/ IsVoidPointer(to) /\ (IsPointer(d) \/ IsArray(d))
      \/ IsPointer(to) /\ IsArray(d) /\ IsSame(Element(d), Pointee(to))
      \/ IsDerivedToBasePtrConvertible(d, to)
      \/ IsBaseToDerivedMemPtrConvertible(d, to)
=============================================================================
