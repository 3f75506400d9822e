--------------------------- MODULE IwyuOutputData ---------------------------
(* What iwyu_output.cc decides about one use: whether it can be the reason *)
(* of an #include or of a forward declaration (steps A and B), and whether *)
(* it is satisfied once the desired includes are known (steps D and E).    *)
(* Clang's AST is given: entities, and the declarations that each of them  *)
(* has in some files.                                                      *)
EXTENDS Naturals, Sequences, FiniteSets, SequencesExt, FiniteSetsExt
CONSTANTS
  Files, NoFile,    \* FileEntryRef, null
  Headers, NoHeader,  \* quoted includes, ""
  Decls, NoDecl,    \* NamedDecl*, nullptr
  NoEntity,
  DeclInfo,         \* Decls -> [entity, file, line, definition, default_arg, traits]
  EntityInfo,       \* entity -> [kind, of, context, traits]
  QuotedInclude,    \* ConvertToQuotedInclude of a file's path
  FileOrder,        \* files in the order in which their text is parsed
  HeaderFilenames,  \* the quoted includes that are not of a .cc file
  SymbolHeaders,    \* what the picker answers once it is final, for the
  FwdHeaders,       \*   symbols that have a mapping,
  FileHeaders,      \*   for every file,
  HeaderHeaders     \*   and for the headers that have one

VARIABLES
  tu,               \* the translation unit
  flags             \* the command line

constants == <<tu, flags>>

Lookup(map, key) == IF key \in DOMAIN map THEN map[key] ELSE <<>>

-----------------------------------------------------------------------------
(* iwyu_ast_util.cc                                                        *)
Kind(d) == EntityInfo[DeclInfo[d].entity].kind

Symbol(d) == IF Kind(d) = "specialization"
             THEN EntityInfo[DeclInfo[d].entity].of
             ELSE DeclInfo[d].entity

Redecls(e) == {d \in Range(tu.decls) : DeclInfo[d].entity = e}

(* The tag_decl of ProcessForwardDeclare: a template, or a specialization  *)
(* of it, stands for its templated class.                                  *)
TagKinds == {"tag", "template", "specialization"}
IsTemplate(d) == Kind(d) \in {"template", "specialization"}

NotFriend(ds, d) == {r \in ds : "friend" \in DeclInfo[r].traits => r = d}

GetTagRedecls(d) ==
  IF Kind(d) \in TagKinds THEN NotFriend(Redecls(Symbol(d)), d) ELSE {}

GetNonTagRedecls(d) ==
  IF Kind(d) \in {"typedef", "function", "var"}
  THEN Redecls(DeclInfo[d].entity) ELSE {d}

Definition(e) ==
  LET dfns == {d \in Redecls(e) : DeclInfo[d].definition}
  IN  IF dfns = {} THEN NoDecl ELSE CHOOSE d \in dfns : TRUE

GetTagDefinition(d) ==
  IF Kind(d) \notin TagKinds THEN NoDecl
  ELSE IF Definition(DeclInfo[d].entity) # NoDecl
       THEN Definition(DeclInfo[d].entity)
       ELSE Definition(Symbol(d))

GetDefinitionAsWritten(d) ==
  LET dfn == IF Kind(d) = "function" THEN Definition(DeclInfo[d].entity)
             ELSE GetTagDefinition(d)
  IN  IF dfn = NoDecl THEN d ELSE dfn

Context(d) == EntityInfo[DeclInfo[d].entity].context
ContextKind(d) == IF Context(d) = NoEntity THEN "translation_unit"
                  ELSE EntityInfo[Context(d)].kind

IsRecord(kind) == kind \in TagKinds

Contexts[e \in DOMAIN EntityInfo] ==
  LET context == EntityInfo[e].context
  IN  IF context = NoEntity THEN {} ELSE {context} \cup Contexts[context]

IsInInlineNamespace(d) ==
  \E e \in Contexts[DeclInfo[d].entity] : "inline" \in EntityInfo[e].traits
IsInNamespace(d, namespace) == DeclInfo[namespace].entity \in Contexts[DeclInfo[d].entity]
IsNestedClass(d) == IsRecord(ContextKind(d))
IsDeclaredInsideFunction(d) == ContextKind(d) = "function"
IsDeclaredInsideMacro(d) == "in_macro" \in DeclInfo[d].traits

HasTrait(d, trait) == trait \in EntityInfo[DeclInfo[d].entity].traits
IsInStd(d) == HasTrait(d, "std")
IsBuiltinFunction(d) == HasTrait(d, "builtin")

(* Arguments of a template's parameters, or of a function's. *)
HasDefaultTemplateParameters(d) ==
  \E r \in IF Kind(d) = "specialization" THEN Redecls(Symbol(d)) ELSE {d} :
    IsTemplate(d) /\ DeclInfo[r].default_arg
FnDeclHasDefArg(d) == Kind(d) = "function" /\ DeclInfo[d].default_arg

DeclsAreInSameClass(d, e) == Context(d) = Context(e) /\ IsRecord(ContextKind(d))

IsForwardDecl(d) ==
  /\ Kind(d) \in {"tag", "template"}
  /\ ~HasTrait(d, "unnamed")
  /\ ~DeclInfo[d].definition
  /\ DeclInfo[d].traits \cap {"friend", "embedded", "explicit_instantiation"} = {}

(* "This check is so we return the input decl whenever possible." *)
GetNonfriendClassRedecls(d) ==
  IF Kind(d) \in TagKinds /\ "friend" \in DeclInfo[d].traits
  THEN GetTagRedecls(d) ELSE {d}

Position(d) == <<FileOrder[DeclInfo[d].file], DeclInfo[d].line>>

IsBefore(p, q) == p[1] < q[1] \/ (p[1] = q[1] /\ p[2] < q[2])

(* The first one of a class: GetFirstRedecl. *)
IsFirstRedecl(d) == \A r \in GetTagRedecls(d) : ~IsBefore(Position(r), Position(d))

-----------------------------------------------------------------------------
(* iwyu_preprocessor.cc: everyone includes itself. *)
Includees(f) ==
  {tu.includes[i].includee : i \in {j \in DOMAIN tu.includes : tu.includes[j].includer = f}}

IncludedWithin[f \in Files, n \in Nat] ==
  IF n = 0 THEN {f}
  ELSE {f} \cup UNION {IncludedWithin[g, n - 1] : g \in Includees(f)}

FileTransitivelyIncludes(f, g) == g \in IncludedWithin[f, Cardinality(Files)]

ForwardDeclareIsInhibited(f, symbol) == <<f, symbol>> \in tu.no_forward_declares
ForwardDeclareIsExported(d) == "exported" \in DeclInfo[d].traits
ForwardDeclareIsMarkedKeep(d) == "keep" \in DeclInfo[d].traits
IncludeIsInhibited(f, header) == <<f, header>> \in tu.no_includes

-----------------------------------------------------------------------------
(* A use.  decl_file is the quoted form of decl_filepath.                  *)
AUse(f, line) ==
  [use_file |-> f, use_line |-> line, decl |-> NoDecl, symbol |-> NoEntity,
   decl_filepath |-> NoFile, decl_file |-> NoHeader, decl_loc |-> NoFile,
   full |-> TRUE, flags |-> {}, public_headers |-> <<>>, canonical_headers |-> <<>>,
   suggested_header |-> NoHeader, ignore_use |-> FALSE, is_iwyu_violation |-> FALSE]

reset_decl(use, d) ==
  [use EXCEPT !.decl = d, !.symbol = Symbol(d),
              !.decl_filepath = DeclInfo[d].file,
              !.decl_file = QuotedInclude[DeclInfo[d].file]]

DeclUse(f, line, d, full, use_flags) ==
  [reset_decl(AUse(f, line), d) EXCEPT !.decl_loc = DeclInfo[d].file,
                                       !.full = full, !.flags = use_flags]

SymbolUse(f, line, symbol, dfn_file) ==
  [AUse(f, line) EXCEPT !.symbol = symbol, !.decl_filepath = dfn_file,
                        !.decl_file = QuotedInclude[dfn_file]]

IncludeFileUse(f, included_file, quoted_include) ==
  [SymbolUse(f, 0, NoEntity, included_file) EXCEPT !.suggested_header = quoted_include]

FullUse(use) == [use EXCEPT !.full = TRUE]
ForwardDeclareUse(use) == [use EXCEPT !.full = FALSE]
IgnoredUse(use) == [use EXCEPT !.ignore_use = TRUE]
Violation(use) == [use EXCEPT !.is_iwyu_violation = TRUE]
HasSuggestedHeader(use) == use.suggested_header # NoHeader

GetMappedPublicHeaders(symbol, f) ==
  IF symbol \in DOMAIN SymbolHeaders THEN SymbolHeaders[symbol] ELSE FileHeaders[f]

(* The headers are asked for when they are first needed, and kept. *)
SetPublicHeaders(use) ==
  IF use.public_headers # <<>> THEN use
  ELSE LET public == IF use.full
                     THEN GetMappedPublicHeaders(use.symbol, use.decl_filepath)
                     ELSE Lookup(FwdHeaders, use.symbol)
       IN  IF public = <<>> THEN use
           ELSE [use EXCEPT !.public_headers = public,
                            !.canonical_headers = <<public[1]>>
                                                  \o Lookup(HeaderHeaders, public[1])]

(* What CalculateMinimalIncludes asks of each use first. *)
WithHeaders(use) ==
  IF use.ignore_use \/ HasSuggestedHeader(use) THEN use ELSE SetPublicHeaders(use)

SameClassDeclUsedInMethod(d, use) ==
  /\ use.decl # NoDecl /\ DeclsAreInSameClass(d, use.decl)
  /\ "out_of_line" \notin DeclInfo[d].traits
  /\ "in_method" \in use.flags

IsBeforeInSameFile(d, use) ==
  DeclInfo[d].file = use.use_file /\ DeclInfo[d].line < use.use_line

DeclIsVisibleAnywhereInFile(d, use) == DeclInfo[d].file = use.use_file

DeclIsVisibleToUseInSameFile(d, use) ==
  /\ DeclInfo[d].file = use.use_file
  /\ \/ DeclInfo[d].line <= use.use_line
     \/ SameClassDeclUsedInMethod(d, use)

DeclCanBeForwardDeclared(d) ==
  /\ ~IsInInlineNamespace(d)
  /\ Kind(d) \in TagKinds
  /\ ~HasTrait(d, "unnamed")

-----------------------------------------------------------------------------
(* ProcessForwardDeclare. *)
HasNoDeclaration(use) ==  \* (A1)
  ~DeclCanBeForwardDeclared(use.decl) /\ Lookup(FwdHeaders, use.symbol) = <<>>

NeedsMoreThanDeclaration(use) ==
  \/ IF IsInStd(use.decl)
     THEN Lookup(FwdHeaders, use.symbol) = <<>>   \* (A2)
     ELSE /\ HasDefaultTemplateParameters(use.decl)   \* (A3)
          /\ use.use_file # use.decl_filepath
  \/ ForwardDeclareIsInhibited(use.use_file, use.symbol)   \* (A4)

ComesWithItsContext(use) ==  \* (A5)
  IF IsNestedClass(use.decl) THEN use.use_file # use.decl_filepath
  ELSE IsDeclaredInsideFunction(use.decl)

DefinitionIsPresent(use) ==  \* (A6)
  /\ "redecl" \notin use.flags
  /\ \E d \in GetTagRedecls(use.decl) :
        DeclInfo[d].definition /\ DeclIsVisibleToUseInSameFile(d, use)

ExportedRedecls(use) ==
  {d \in Redecls(DeclInfo[use.decl].entity) : ForwardDeclareIsExported(d)}

UseExportedDecl(use) ==  \* (A7)
  IF use.full \/ ExportedRedecls(use) = {} THEN use
  ELSE LET d == CHOOSE e \in ExportedRedecls(use) : TRUE
       IN  [reset_decl(use, d) EXCEPT !.suggested_header = QuotedInclude[DeclInfo[d].file]]

PromoteToFullUse(use) ==  \* (A8)
  LET previous == {d \in Redecls(DeclInfo[use.decl].entity) :
                     ~IsBefore(Position(use.decl), Position(d))}
      elsewhere == {d \in previous :
                      /\ DeclInfo[d].file # use.use_file
                      /\ FileOrder[DeclInfo[d].file] < FileOrder[use.use_file]}
      last == CHOOSE d \in elsewhere : \A e \in elsewhere : ~IsBefore(Position(d), Position(e))
  IN  IF ~flags.no_fwd_decls THEN use
      ELSE IF elsewhere # {} THEN FullUse(reset_decl(use, last))
      ELSE IF \E d \in previous : IsBeforeInSameFile(d, use) THEN use
      ELSE FullUse(use)

ProcessForwardDeclare(use) ==
  IF use.ignore_use THEN use
  ELSE IF HasNoDeclaration(use) THEN FullUse(use)
  ELSE LET asked == IF IsInStd(use.decl) \/ ~DeclCanBeForwardDeclared(use.decl)
                    THEN SetPublicHeaders(use) ELSE use
           sorted == IF NeedsMoreThanDeclaration(use) THEN FullUse(asked) ELSE asked
       IN  IF ComesWithItsContext(use) \/ DefinitionIsPresent(use)
           THEN IgnoredUse(sorted)
           ELSE PromoteToFullUse(UseExportedDecl(sorted))

-----------------------------------------------------------------------------
(* ProcessFullUse. *)
HasMapping(d) == Symbol(d) \in DOMAIN SymbolHeaders
IsBuiltinFunctionWithMappings(d) == IsBuiltinFunction(d) /\ HasMapping(d)

DefinitionIsLater(use) ==  \* (B2)
  /\ use.use_file = use.decl_filepath
  /\ ~DeclIsVisibleToUseInSameFile(use.decl, use)
  /\ DeclCanBeForwardDeclared(use.decl)

SameFileDecls(use) ==
  IF IsBuiltinFunctionWithMappings(use.decl)
     \/ use.flags \cap {"redecl", "instantiation_pattern"} # {}
  THEN {}
  ELSE {d \in IF Kind(use.decl) \in TagKinds THEN {use.decl} ELSE GetNonTagRedecls(use.decl) :
          /\ FnDeclHasDefArg(use.decl) => FnDeclHasDefArg(d)
          /\ DeclIsVisibleToUseInSameFile(d, use)}

DefinedInSameFile(use) == SameFileDecls(use) # {}  \* (B3)

IsBuiltIn(use) ==  \* (B4)
  \/ Kind(use.decl) = "builtin_template"
  \/ IsBuiltinFunction(use.decl) /\ ~HasMapping(use.decl)
  \/ HasTrait(use.decl, "replaceable_allocation")

(* decl_loc is where the use was first said to be declared. *)
IsMemberInFileOfParent(use) ==  \* (B5)
  /\ IsRecord(ContextKind(use.decl))
  /\ LET parent == Definition(Context(use.decl))
         member_files == FileHeaders[use.decl_loc]
         parent_files == FileHeaders[DeclInfo[parent].file]
     IN  IF Len(member_files) = 1 /\ Len(parent_files) = 1
         THEN member_files = parent_files
         ELSE use.decl_loc = DeclInfo[parent].file

IsIncludedAlready(use) ==
  FileTransitivelyIncludes(use.use_file, use.decl_filepath)

IsBackwards(use) ==  \* (B6)
  /\ ~IsBuiltinFunctionWithMappings(use.decl)
  /\ FileTransitivelyIncludes(use.decl_filepath, use.use_file)

IsNew(use) ==  \* (B7)
  flags.transitive_includes_only /\ ~FileTransitivelyIncludes(use.use_file, use.decl_filepath)

NamespaceIsUsed(use, all_uses) ==  \* (B8)
  /\ Kind(use.decl) = "namespace"
  /\ \E i \in DOMAIN all_uses :
        /\ all_uses[i].decl \notin {NoDecl, use.decl}
        /\ IsInNamespace(all_uses[i].decl, use.decl)

ProcessFullUse(use, all_uses) ==
  IF use.ignore_use THEN use
  ELSE IF IsDeclaredInsideFunction(use.decl) THEN IgnoredUse(use)  \* (B1)
  ELSE IF DefinitionIsLater(use)
       THEN IF ForwardDeclareIsInhibited(use.use_file, use.symbol)
            THEN IgnoredUse(use) ELSE ForwardDeclareUse(use)
  ELSE IF \/ DefinedInSameFile(use) \/ IsBuiltIn(use) \/ IsMemberInFileOfParent(use)
          \/ IsBackwards(use) \/ IsNew(use) \/ NamespaceIsUsed(use, all_uses)
       THEN IgnoredUse(use) ELSE use

(* ProcessSymbolUse: uses of macros, and hard-coded ones. *)
ProcessSymbolUse(use) ==
  IF \/ use.use_file = use.decl_filepath
     \/ /\ ~HasSuggestedHeader(use)
        /\ \/ FileTransitivelyIncludes(use.decl_filepath, use.use_file)
           \/ IsNew(use)
  THEN IgnoredUse(use) ELSE use

-----------------------------------------------------------------------------
(* CalculateIwyuForForwardDeclareUse: the results it may have.  Sets are   *)
(* ordered by address, so where one of several will do it is any of them.  *)
Definitions(use) ==
  IF HasDefaultTemplateParameters(use.decl) /\ ~IsInStd(use.decl) THEN {}
  ELSE ({GetTagDefinition(use.decl)}
        \cup (IF IsTemplate(use.decl)
              THEN {Definition(e) : e \in {x \in DOMAIN EntityInfo :
                                             EntityInfo[x].kind = "specialization" /\ EntityInfo[x].of = Symbol(use.decl)}}
              ELSE {}))
       \ {NoDecl}

DefinitionHeaders(d) == GetMappedPublicHeaders(Symbol(d), DeclInfo[d].file)

IsDefinedIn(d, headers) == Range(DefinitionHeaders(d)) \cap headers # {}

(* The last one that is desired: the loop goes through all. *)
DesiredHeader(d, desired) ==
  LET hits == {i \in DOMAIN DefinitionHeaders(d) : DefinitionHeaders(d)[i] \in desired}
  IN  DefinitionHeaders(d)[CHOOSE i \in hits : \A j \in hits : j <= i]

SameFileRedecls(use) ==
  {d \in GetTagRedecls(use.decl) :
     IsBeforeInSameFile(d, use) \/ SameClassDeclUsedInMethod(d, use)}

(* A specialization is stored as its template. *)
AsTemplate(use) ==
  IF Kind(use.decl) = "specialization"
  THEN reset_decl(use, CHOOSE d \in Redecls(Symbol(use.decl)) : IsFirstRedecl(d))
  ELSE use

CalculateIwyuForForwardDeclareUse(use, actual, desired, associated_files) ==
  LET defined == {d \in Definitions(use) : IsDefinedIn(d, desired)}
      specialized == defined \ {GetTagDefinition(use.decl)}
      redecls == SameFileRedecls(use)
      satisfied ==  \* (D1)
        IF defined # {}
        THEN {[reset_decl(use, d) EXCEPT
                 !.suggested_header = DesiredHeader(d, desired)] :
              d \in IF specialized = {} THEN defined ELSE specialized}
        ELSE IF redecls # {} THEN {reset_decl(use, d) : d \in redecls}
        ELSE {use}
      is_violation ==  \* (D2)
        redecls = {} /\ \A d \in Definitions(use) : ~IsDefinedIn(d, actual)
  IN  IF \/ \E d \in Definitions(use) : IsBeforeInSameFile(d, use)
         \/ redecls = {} /\ \E d \in GetTagRedecls(use.decl) : DeclInfo[d].file \in associated_files
      THEN {IgnoredUse(use)}
      ELSE {IF is_violation THEN Violation(AsTemplate(u)) ELSE AsTemplate(u) : u \in satisfied}

(* Whether the suggested header is a .cc file that is not included yet (E1), *)
(* or the file itself (E2).                                                  *)
CalculateIwyuForFullUse(use, actual, use_quoted_include) ==
  IF \/ use.suggested_header \notin HeaderFilenames \cup actual
     \/ use.suggested_header = use_quoted_include
  THEN IgnoredUse(use)
  ELSE IF use.suggested_header \in actual THEN use
  ELSE Violation(use)  \* (E3)
=============================================================================
