--------------------------- MODULE Responsibility ---------------------------
(* Who must include the definition of a class: the file that uses it, or   *)
(* the author of the typedef or function through which it is used. The two *)
(* sides are decided by different code of iwyu.cc, at different nodes and, *)
(* since a header is reported on with its own source only, in different    *)
(* translation units.                                                      *)
EXTENDS TypeTraits
CONSTANTS
  NoFile, NoFunction,
  HeaderFiles,
  Mains,        \* the main files, in the order of their runs
  Units,        \* main file -> the files that are reported on with it
  FnInfo,       \* function -> [return, params, redecls, overrides, method, template,
                \*   operator, variadic]; a variable is a function without parameters
  Nodes,        \* what is visited, in the order of the text
  Texts         \* the programs: [includes, forwards]

VARIABLES
  text,         \* the program: its #includes and its forward declarations
  left,         \* main files whose translation units are not analyzed yet
  unit,         \* the main file of the one being analyzed, or NoFile
  todo,         \* positions of the nodes to visit
  uses,         \* what the file infos were told, in all units
  dropped,      \* ghost: full uses that were blocked, and by what
  asked         \* ghost: full uses that were not, and what could have blocked them

vars == <<text, left, unit, todo, uses, dropped, asked>>

Location(file, line) == [file |-> file, line |-> line]
Node == Nodes[todo[1]]

-----------------------------------------------------------------------------
(* Files. Everyone includes itself.                                        *)
TransitiveIncludes(file) ==
  LET Step(fs) == fs \cup {e[2] : e \in {e \in text.includes : e[1] \in fs}}
      Closure[n \in 0..Cardinality(text.includes)] ==
        IF n = 0 THEN {file} ELSE Step(Closure[n - 1])
  IN  Closure[Cardinality(text.includes)]

FileTransitivelyIncludes(f, g) == g \in TransitiveIncludes(f)

UnitFiles(main) == TransitiveIncludes(main)
DefinitionSeen(c) == ClassInfo[c].file \in UnitFiles(unit)
IsDirectlyIncludedInMain(header, file) == <<unit, header>> \in text.includes   \* a faulty variant
IsDirectlyIncluded(header, file) == <<file, header>> \in text.includes

(* A class that is not defined in the unit has no constructors to find.    *)
HasImplicitConversionConstructor(t) ==
  LET c == ClassOf(GetCanonicalType(RemoveReferenceAsWritten(t)))
  IN  /\ Kind(t) \notin {"pointer", "reference"}
      /\ c # NoClass /\ DefinitionSeen(c) /\ ClassInfo[c].from # {}

-----------------------------------------------------------------------------
(* The author's intent.                                                    *)
CodeAuthorWantsJustAForwardDeclare(t, loc) ==
  LET c == ClassOf(t)
      dfn == ClassInfo[c]
  IN  /\ c # NoClass
      /\ \/ \E d \in text.forwards : d.class = c /\ d.file = loc.file /\ d.line <= loc.line
         \/ DefinitionSeen(c) /\ dfn.file = loc.file /\ dfn.line <= loc.line
      /\ DefinitionSeen(c) => /\ ~(dfn.file = loc.file /\ dfn.line < loc.line)
                              /\ ~IsDirectlyIncluded(dfn.file, loc.file)

(* The types that the author at loc provides with type t, and where.       *)
ProvidedByComponent(c, loc) ==
  IF CodeAuthorWantsJustAForwardDeclare(GetCanonicalType(c), loc) THEN {}
  ELSE {[type |-> GetCanonicalType(c), by |-> loc]}

(* The uses of a typedef's own typedefs are their authors' affair.         *)
AliasLocation(t) == Location(TypeInfo[t].file, TypeInfo[t].line)

AliasProvides[a \in {t \in Types : IsAlias(t)}] ==
  LET provided == UNION {IF IsAlias(c) THEN AliasProvides[c]
                         ELSE ProvidedByComponent(c, AliasLocation(a)) : c \in Components[Of(a)]}
      args == {GetCanonicalType(c) : c \in UNION {Components[g] : g \in TypeInfo[a].args}}
  IN  {p \in provided : p.type \notin args}

GetProvidedTypes(t, loc) ==
  UNION {IF IsAlias(c) THEN AliasProvides[c]
         ELSE ProvidedByComponent(c, loc) : c \in Components[t]}

GetProvidedTypeComponents(t) ==
  IF IsAlias(t) THEN AliasProvides[t] ELSE {}

LeastDerived[f \in DOMAIN FnInfo] ==
  IF FnInfo[f].overrides = NoFunction THEN f ELSE LeastDerived[FnInfo[f].overrides]
GetFromLeastDerivedOrAsCalled(f) == f   \* a faulty variant
GetFromLeastDerived(f) == LeastDerived[f]

ProvidingDecl(f, redecl) ==
  LET provider == GetFromLeastDerived(f)
      r == IF provider = f THEN redecl ELSE FnInfo[provider].redecls[1]
  IN  Location(r.file, r.line)

GetProvidedTypesForFnReturn(f, redecl) ==
  GetProvidedTypes(FnInfo[GetFromLeastDerived(f)].return, ProvidingDecl(f, redecl))

DeclsInSight(f, call_file) ==
  {r \in Range(FnInfo[GetFromLeastDerived(f)].redecls) :
     /\ FileTransitivelyIncludes(call_file, r.file)
     /\ r.definition => r.file \in HeaderFiles}

GetProvidedTypesForAutocast(f, call_file) ==
  LET params == Range(FnInfo[GetFromLeastDerived(f)].params)
      types == {RemovePointersAndReferencesAsWritten(p) :
                  p \in {q \in params : HasImplicitConversionConstructor(q)}}
  IN  UNION {GetProvidedTypes(t, Location(r.file, r.line)) :
               t \in types, r \in DeclsInSight(f, call_file)}

-----------------------------------------------------------------------------
(* Reports. In the body of a macro a use is charged to the macro's file,   *)
(* unless that file declares the class itself: a hint that whoever expands *)
(* the macro is responsible. The hint is then a use of the declaration.    *)
HintsFor(d, macro) ==
  \/ \E fwd \in text.forwards : fwd.class = d /\ fwd.file = macro
  \/ d \in DOMAIN FnInfo /\ FnInfo[d].template
     /\ \E r \in Range(FnInfo[d].redecls) : r.file = macro

GetCanonicalUseFile(node, d) ==
  IF node.macro = NoFile \/ node.scratch \/ HintsFor(d, node.macro) THEN node.file ELSE node.macro

Use(kind, file, d, node) ==
  [unit |-> unit, kind |-> kind, file |-> file, decl |-> d, at |-> Location(node.file, node.line)]

KeptHints(node, d) ==
  IF node.macro # NoFile /\ HintsFor(d, node.macro) THEN {Use("forward", node.macro, d, node)} ELSE {}

ReportUse(kind, node, d) == {Use(kind, GetCanonicalUseFile(node, d), d, node)} \cup KeptHints(node, d)
ReportDeclUse(node, d) == ReportUse("full", node, d)
ReportDeclForwardDeclareUse(node, d) == ReportUse("forward", node, d)

(* ReportTypeUseInternal down to the type whose definition is needed, with *)
(* what is provided on the way, and by which authors it might have been.   *)
(* For a typedef of a typedef nothing is needed.                           *)
Scope(blocked, authors) == [type |-> NoType, blocked |-> blocked, authors |-> authors]
NoScope == Scope({}, {})

ThroughAliases(scope, aliases) ==
  LET providing == {a \in aliases : ~TypeInfo[a].std}
  IN  Scope(scope.blocked \cup UNION {AliasProvides[a] : a \in providing},
            scope.authors \cup {AliasLocation(a) : a \in providing})

Needed(node, t, scope, deref) ==
  LET found == Walk[t, deref]
  IN  IF found.type = NoType \/ (node.kind = "typedef" /\ found.aliases # {}) THEN NoScope
      ELSE [ThroughAliases(scope, found.aliases) EXCEPT !.type = found.type]

(* A template and its arguments may be provided without each other.         *)
Blockers(found, t) == {b.by : b \in {p \in found.blocked : p.type = GetCanonicalType(t)}}
Blocked(found) == {t \in NeededTypes(found.type) : Blockers(found, t) # {}}

ReportTypeUse(node, found) ==
  UNION {ReportDeclUse(node, ClassOf(t)) : t \in NeededTypes(found.type) \ Blocked(found)}

Dropped(t, by) == [class |-> ClassOf(GetCanonicalType(t)), through |-> Node.kind, by |-> by]
NoteDecisions(founds) ==
  /\ dropped' = dropped \cup UNION {{Dropped(t, Blockers(f, t)) : t \in Blocked(f)} : f \in founds}
  /\ asked' = asked \cup UNION {{[class |-> ClassOf(t), authors |-> f.authors] :
                                   t \in NeededTypes(f.type) \ Blocked(f)} : f \in founds}
NoteDecision(found) == NoteDecisions({found})

-----------------------------------------------------------------------------
(* The author's side: types as written in a declaration.                   *)
IsFriend(r) == r.friend

CanBeProvidedTypeComponent(node, part) ==
  \/ part = "underlying"
  \/ /\ node.kind = "function"
     /\ node.file \in HeaderFiles /\ ~IsFriend(node)
     /\ FnInfo[node.fn].overrides = NoFunction
     /\ \/ part \in Range(FnInfo[node.fn].params) /\ HasImplicitConversionConstructor(part)
        \/ /\ part = "return" /\ ~node.definition
           /\ ~IsPointerOrReferenceAsWritten(FnInfo[node.fn].return)

(* The types visited below a written one, and whether each of them can be  *)
(* forward-declared where it stands.                                       *)
Visited[t \in Types, forward \in BOOLEAN] ==
  IF IsPointerOrReferenceAsWritten(t) THEN Visited[Of(t), TRUE]
  ELSE IF Kind(t) = "member_pointer" THEN Visited[Of(t), TRUE] \cup Visited[TypeInfo[t].qualifier, TRUE]
  ELSE IF Kind(t) = "array" THEN Visited[Of(t), forward]
  ELSE {[type |-> t, forward |-> forward]} \cup UNION {Visited[a, TRUE] : a \in TypeInfo[t].args}

IsProvidedTypeComponentUnasked(node, part, v) ==   \* a faulty variant
  v.forward /\ CanBeProvidedTypeComponent(node, part)

IsProvidedTypeComponent(node, part, v) ==
  /\ v.forward
  /\ CanBeProvidedTypeComponent(node, part)
  /\ ~CodeAuthorWantsJustAForwardDeclare(v.type, Location(node.file, node.line))

VisitTagType(node, part, v) ==
  IF v.forward /\ ~IsProvidedTypeComponent(node, part, v)
  THEN ReportDeclForwardDeclareUse(node, ClassOf(v.type))
  ELSE ReportDeclUse(node, ClassOf(v.type))

VisitTemplateSpecializationType(node, part, v) ==
  (IF v.forward THEN ReportDeclForwardDeclareUse(node, ClassOf(v.type))
   ELSE ReportTypeUse(node, [NoScope EXCEPT !.type = v.type]))
  \cup (IF IsProvidedTypeComponent(node, part, v) THEN ReportDeclUse(node, ClassOf(v.type)) ELSE {})

(* The typedefs among them whose types are needed, each with its scope.     *)
WrittenAliases(node, t, forward) ==
  {Needed(node, v.type, NoScope, "none") : v \in {v \in Visited[t, forward] : IsAlias(v.type) /\ ~v.forward}}

VisitTypedefType(node, v) ==
  ReportDeclUse(node, v.type)
  \cup (IF v.forward THEN {} ELSE ReportTypeUse(node, Needed(node, v.type, NoScope, "none")))

VisitWrittenTypes(node, part, t, forward) ==
  UNION {CASE Kind(v.type) = "record" -> VisitTagType(node, part, v)
           [] Kind(v.type) = "specialization" -> VisitTemplateSpecializationType(node, part, v)
           [] IsAlias(v.type) -> VisitTypedefType(node, v)
           [] OTHER -> {} : v \in Visited[t, forward]}

-----------------------------------------------------------------------------
(* Analysis of the translation units, each by a run of its own.            *)
Init ==
  /\ text \in Texts
  /\ left = Mains
  /\ unit = NoFile /\ todo = <<>>
  /\ uses = {} /\ dropped = {} /\ asked = {}

StartUnit ==
  /\ unit = NoFile /\ left # <<>>
  /\ left' = Tail(left)
  /\ unit' = left[1]
  /\ todo' = LET files == UnitFiles(left[1])
                 InUnit(i) == Nodes[i].file \in files
             IN  SelectSeq([i \in DOMAIN Nodes |-> i], InUnit)
  /\ UNCHANGED <<text, uses, dropped, asked>>

Visit(kind) ==
  /\ todo # <<>> /\ Node.kind = kind
  /\ todo' = Tail(todo)
  /\ UNCHANGED <<text, left, unit>>

VisitTypedefNameDecl ==
  /\ Visit("typedef")
  /\ uses' = uses \cup VisitWrittenTypes(Node, "underlying", Of(Node.type), TRUE)
  /\ UNCHANGED <<dropped, asked>>

(* A definition anchors the declarations before it.                        *)
PreviousDecls(node) ==
  IF node.fn = NoFunction THEN {} ELSE
  {r \in Range(FnInfo[node.fn].redecls) :
     r.file \in UnitFiles(unit) /\ <<r.file, r.line>> # <<node.file, node.line>>}

HasCovariantReturnType(f) ==
  LET overridden == FnInfo[f].overrides
  IN  overridden # NoFunction /\ ~IsSame(FnInfo[f].return, FnInfo[overridden].return)

CovariantReturn(node) ==
  IF HasCovariantReturnType(node.fn)
  THEN {Needed(node, FnInfo[node.fn].return, NoScope, "refs_and_pointer")} ELSE {}

VisitFunctionDecl ==
  LET node == Node
      fn == FnInfo[node.fn]
      Written(op(_, _)) == {op("return", fn.return)} \cup {op(p, p) : p \in Range(fn.params)}
      Visits(part, t) == VisitWrittenTypes(node, part, t, ~node.definition)
      Aliases(part, t) == WrittenAliases(node, t, ~node.definition)
      covariant == CovariantReturn(node)
  IN  /\ Visit("function")
      /\ uses' = uses \cup UNION Written(Visits)
                     \cup UNION {ReportTypeUse(node, f) : f \in covariant}
                     \cup (IF node.definition /\ ~fn.method /\ PreviousDecls(node) # {}
                          THEN ReportDeclUse(node, node.fn) ELSE {})
      /\ NoteDecisions(UNION Written(Aliases) \cup covariant)

(* An extern declaration can do with a forward declaration of its type.    *)
VisitVarDecl ==
  LET node == Node
  IN  /\ Visit("variable")
      /\ uses' = uses \cup VisitWrittenTypes(node, "type", node.type, ~node.definition)
                     \cup (IF node.definition /\ PreviousDecls(node) # {}
                          THEN ReportDeclUse(node, node.fn) ELSE {})
      /\ NoteDecisions(WrittenAliases(node, node.type, ~node.definition))

(* Expressions that need the types of their operands, as far as they are    *)
(* told to remove references and a pointer.                                *)
RequireBesides(founds, others) ==
  /\ uses' = uses \cup others \cup UNION {ReportTypeUse(Node, f) : f \in founds}
  /\ NoteDecisions(founds)
Founds(needs) == {Needed(Node, n.type, NoScope, n.deref) : n \in needs}
Require(t, deref) == RequireBesides(Founds({Need(t, deref)}), {})

VisitMemberExpr == Visit("member") /\ Require(Node.type, "refs_and_pointer")
VisitArraySubscriptExpr == Visit("subscript") /\ Require(Node.type, "refs_and_pointer")
VisitCXXDeleteExpr == Visit("delete") /\ Require(Node.type, "refs_and_pointer")
VisitCXXCatchStmt == Visit("catch") /\ Require(Node.type, "refs_and_pointer")
VisitCXXForRangeStmt == Visit("for_range") /\ Require(Node.type, "refs")
VisitCXXTypeidExpr == Visit("typeid") /\ Require(Node.type, "refs")
VisitInitListExpr == Visit("init_list") /\ Require(Node.type, "none")   \* explicit, and not a reference

VisitBinaryOperator ==   \* + and -
  /\ Visit("arithmetic")
  /\ RequireBesides(Founds({Need(t, "refs_and_pointer") : t \in {a \in Range(Node.args) : IsPointer(a)}}), {})

(* x << 4 needs the class of x, as x.operator<<(4) would.                   *)
GetFirstClassArgument(node) ==
  LET fn == FnInfo[node.fn]
      OfClass == {i \in DOMAIN fn.params : IsRecord(RemovePointersAndReferencesAsWritten(fn.params[i]))}
  IN  IF fn.method THEN {node.args[1]}
      ELSE IF OfClass = {} THEN {} ELSE {node.args[Min(OfClass)]}

VisitCXXOperatorCallExpr ==
  /\ Visit("operator")
  /\ RequireBesides(Founds({Need(t, "refs") : t \in GetFirstClassArgument(Node)}), {})

(* What is passed for the dots is copied, even if it is a reference.        *)
ReferenceVarargs(node) ==
  IF ~FnInfo[node.fn].variadic THEN {}
  ELSE {node.args[i] : i \in {j \in node.lvalues : j > Len(FnInfo[node.fn].params)}}

VisitCallExpr ==
  /\ Visit("arguments")
  /\ RequireBesides(Founds({Need(t, "refs") : t \in ReferenceVarargs(Node)}), {})

(* args: the type cast from, that cast to, and, if it was a conversion      *)
(* operator that yielded the value, what this one returns.                 *)
RequiredFullTypes(node) ==
  LET from == node.args[1]
      to == node.args[2]
  IN  CASE node.op = "constructor_conversion" -> IF node.in_call THEN {} ELSE {to}
        [] node.op = "user_defined_conversion" -> {from}
        [] node.op = "base_to_derived" -> {to}
        [] node.op = "derived_to_base" -> {from} \cup Range(SubSeq(node.args, 3, Len(node.args)))
        [] node.op = "dynamic" -> {from, to}
        [] OTHER -> {}

VisitCastExpr ==
  /\ Visit("cast")
  /\ RequireBesides(Founds({Need(t, "refs_and_pointer") : t \in RequiredFullTypes(Node)}), {})

(* What a trait needs does not depend on the text of the headers.           *)
Traits == {i \in DOMAIN Nodes : Nodes[i].kind = "trait"}
NeedsOfTrait == [i \in Traits |-> TraitNeeds(Nodes[i].op, Nodes[i].args)]

(* fn: the operator that was found for the comparison, if there is one.     *)
VisitTypeTraitExpr ==
  LET node == Node
      written == UNION {VisitWrittenTypes(node, "argument", a, TRUE) : a \in Range(node.args)}
      needs == NeedsOfTrait[todo[1]]
  IN  /\ Visit("trait")
      /\ RequireBesides(Founds(needs), written \cup
           (IF node.fn # NoFunction /\ needs # {} THEN ReportDeclUse(node, node.fn) ELSE {}))

(* sizeof: a type written there is visited, but not through a reference.    *)
VisitUnaryExprOrTypeTraitExpr ==
  LET node == Node
      written == node.op = "type"
      needs == IF written /\ ~IsAnyReference(node.type) THEN {} ELSE {Need(node.type, "refs")}
  IN  /\ Visit("sizeof")
      /\ RequireBesides(Founds(needs) \cup (IF written THEN WrittenAliases(node, node.type, FALSE) ELSE {}),
           IF written THEN VisitWrittenTypes(node, "operand", node.type, FALSE) ELSE {})

(* A name in a template that is not resolved before it is instantiated.     *)
DeclsToReport(node) ==
  LET All == Range(node.overloads)
      DirectlyIncluded == {o \in All : IsDirectlyIncluded(o.file, node.file)}
      same_file == \A o, p \in All : o.file = p.file
      Arbitrary == {o \in {node.overloads[1]} : ~FnInfo[o.fn].operator}
  IN  IF All = {} THEN {}
      ELSE IF same_file THEN Arbitrary
      ELSE IF DirectlyIncluded # {} THEN DirectlyIncluded
      ELSE IF node.adl THEN {} ELSE Arbitrary

VisitUnresolvedLookupExpr ==
  /\ Visit("lookup")
  /\ RequireBesides({}, UNION {ReportDeclUse(Node, o.fn) : o \in DeclsToReport(Node)})

(* Clang's overload resolution ends in one of the declarations in sight.   *)
Callees(node) ==
  {r \in Range(FnInfo[node.fn].redecls) :
     IF r.file = node.file THEN r.line < node.line ELSE r.file \in TransitiveIncludes(node.file)}

HandleFnReturnOnCallSite(node, redecl) ==
  LET return == FnInfo[node.fn].return
      loc == ProvidingDecl(node.fn, redecl)
      scope == Scope(GetProvidedTypesForFnReturn(node.fn, redecl), {loc})
  IN  IF IsPointerOrReferenceAsWritten(return) THEN NoScope
      ELSE Needed(node, return, scope, "none")

HandleFunctionCall ==
  LET node == Node
  IN  /\ Visit("call")
      /\ \E redecl \in Callees(node) :
           LET found == HandleFnReturnOnCallSite(node, redecl)
           IN  /\ uses' = uses \cup ReportTypeUse(node, found) \cup ReportDeclUse(node, node.fn)
               /\ NoteDecision(found)

HandleAutocastOnCallSite ==
  LET node == Node
      scope == Scope(GetProvidedTypesForAutocast(node.fn, node.file),
                     {Location(r.file, r.line) : r \in DeclsInSight(node.fn, node.file)})
      found == Needed(node, node.type, scope, "none")
  IN  /\ Visit("autocast")
      /\ uses' = uses \cup ReportTypeUse(node, found)
      /\ NoteDecision(found)

(* A copy of something that came through a typedef is provided with it.    *)
(* No function here is a template, so none provides what it is called with. *)
SourceTypeIsProvided(node) ==
  \E p \in GetProvidedTypeComponents(node.source) : p.type = GetCanonicalType(node.type)

HandleNonAutocastConstruction ==
  LET node == Node
      found == Needed(node, node.type, NoScope, "none")
  IN  /\ Visit("construct")
      /\ IF SourceTypeIsProvided(node)
         THEN /\ dropped' = dropped \cup
                   {Dropped(node.type, {p.by : p \in GetProvidedTypeComponents(node.source)})}
              /\ UNCHANGED <<uses, asked>>
         ELSE /\ uses' = uses \cup ReportTypeUse(node, found)
              /\ NoteDecision(found)

EndUnit ==
  /\ unit # NoFile /\ todo = <<>>
  /\ unit' = NoFile
  /\ UNCHANGED <<text, left, todo, uses, dropped, asked>>

Next ==
  \/ StartUnit
  \/ VisitTypedefNameDecl \/ VisitFunctionDecl \/ VisitVarDecl
  \/ VisitMemberExpr \/ VisitArraySubscriptExpr \/ VisitCXXDeleteExpr \/ VisitCXXCatchStmt
  \/ VisitCXXForRangeStmt \/ VisitCXXTypeidExpr \/ VisitInitListExpr \/ VisitBinaryOperator
  \/ VisitCXXOperatorCallExpr \/ VisitCallExpr \/ VisitCastExpr \/ VisitTypeTraitExpr
  \/ VisitUnaryExprOrTypeTraitExpr \/ VisitUnresolvedLookupExpr
  \/ HandleFunctionCall \/ HandleAutocastOnCallSite \/ HandleNonAutocastConstruction
  \/ EndUnit

Spec == Init /\ [][Next]_vars

-----------------------------------------------------------------------------
Done == left = <<>> /\ unit = NoFile

(* The author at a location was told to include the definition, in a unit  *)
(* that reports on the author's file.                                      *)
AuthorIsAsked(by, class) ==
  \E u \in uses : /\ u.kind = "full" /\ u.decl = class /\ u.at = by
                  /\ u.file = by.file /\ u.file \in Units[u.unit]

FunctionNodesAt(by) ==
  {n \in Range(Nodes) : n.kind = "function" /\ Location(n.file, n.line) = by}

(* Declarations whose authors iwyu does not analyze: friends, and those of *)
(* a source file; and an author who does not see that there is an autocast.*)
AuthorIsAnalyzed(by, class) ==
  \A n \in FunctionNodesAt(by) :
     /\ n.file \in HeaderFiles /\ ~n.friend
     /\ \E main \in DOMAIN Units : n.file \in Units[main] /\ ClassInfo[class].file \in UnitFiles(main)

(* A full use that is dropped because the author provides the class is    *)
(* reported for the author: iwyu.cc never relieves the user without        *)
(* charging the author, though it decides the two at different nodes, by   *)
(* different code and in different translation units.                      *)
DroppedUsesAreProvided ==
  Done => \A d \in dropped :
            (\E by \in d.by : AuthorIsAnalyzed(by, d.class))
              => \E by \in d.by : AuthorIsAsked(by, d.class)

(* docs/WhatIsAUse.md:235, of a call that converts an argument: "Either    *)
(* `baz.cc` or `bar.h` needs to `#include "foo.h"`".                       *)
EitherUserOrAuthor ==
  Done => \A d \in dropped :
            d.through = "autocast" => \E by \in d.by : AuthorIsAsked(by, d.class)

(* A user is asked for a class that comes through a typedef or a declared  *)
(* function only if its author is not asked for it there: the two sides    *)
(* agree that the author declined.                                         *)
NotAskedTwice ==
  \A a \in asked : \A by \in a.authors :
     ~\E u \in uses : /\ u.kind = "full" /\ u.decl = a.class /\ u.at = by
                      /\ \A n \in FunctionNodesAt(by) : ~n.definition

(* What a header is asked for does not depend on the unit that reads it,  *)
(* if the units agree on whether the class is defined: the author's answer *)
(* is found in the text of the header itself.                              *)
UnitsAgree ==
  Done => \A u \in uses : \A main \in DOMAIN Units :
            /\ u.decl \in Classes /\ u.at.file \in UnitFiles(main)
            /\ ClassInfo[u.decl].file \in UnitFiles(u.unit) <=> ClassInfo[u.decl].file \in UnitFiles(main)
            => [u EXCEPT !.unit = main] \in uses

Relations == {i \in Traits : Nodes[i].op \in RelationTraits /\ Len(Nodes[i].args) = 2}
IsDeterminedAt ==
  [i \in Relations |-> IsDetermined(Nodes[i].op, Nodes[i].args[1], Nodes[i].args[2])]

(* A type trait compiles with less than its value depends on: "in certain  *)
(* cases it may cause a UB" (iwyu.cc:2107). The classes that are reported  *)
(* for its arguments, or that their typedefs provide, determine the value: *)
(* no other definition could change it.                                    *)
TraitsAreDetermined ==
  todo # <<>> /\ todo[1] \in Relations => IsDeterminedAt[todo[1]]
=============================================================================
