----------------------------- MODULE IwyuOutput -----------------------------
(* IwyuFileInfo: what is recorded about the files of a translation unit    *)
(* while it is preprocessed and traversed, and what each file is told to   *)
(* add and remove in the end.  HandleTranslationUnit drives it: the other  *)
(* files first, the main file last.                                        *)
EXTENDS IwyuOutputData, TLC
CONSTANTS
  Programs,   \* translation units: what they include, declare and use
  FlagSets,   \* command lines
  MaxReports  \* how many of a program's uses are reported

ASSUME FilesAssumption ==
  /\ IsFiniteSet(Files)
  /\ FileOrder \in [Files -> Nat]
  /\ QuotedInclude \in [Files -> Headers] /\ NoHeader \notin Headers

ASSUME AnswersAssumption ==
  /\ FileHeaders \in [Files -> Seq(Headers)]
  /\ \A answers \in {SymbolHeaders, FwdHeaders, HeaderHeaders} :
        \A x \in DOMAIN answers : answers[x] \in Seq(Headers)

(* What is specialized is not itself a specialization. *)
ASSUME DeclsAssumption ==
  /\ NoDecl \notin Decls
  /\ \A d \in Decls :
       /\ DeclInfo[d].file \in Files /\ DeclInfo[d].line \in Nat
       /\ EntityInfo[Symbol(d)].kind # "specialization"

(* As in C++: a template is declared before it is specialized, a member or *)
(* a class before its name is qualified, and what a using-declaration is    *)
(* of, so that it can be.                                                   *)
DeclaredAsNeeded(p, d) ==
  LET Declared(e) == {x \in Range(p.decls) : DeclInfo[x].entity = e}
  IN  /\ Kind(d) = "specialization" =>
            \E t \in Declared(Symbol(d)) : "friend" \notin DeclInfo[t].traits
      /\ "qualified" \in DeclInfo[d].traits =>
            \E e \in Declared(DeclInfo[d].entity) : IsBefore(Position(e), Position(d))
      /\ Kind(d) = "using" /\ EntityInfo[DeclInfo[d].entity].of # NoEntity =>
            Declared(EntityInfo[DeclInfo[d].entity].of) # {}

ASSUME ReportsAssumption == MaxReports \in Nat

(* The main file is analyzed, and so are the associated headers of a file  *)
(* (the preprocessor's AssociatedHeadersAnalyzed).                         *)
ASSUME ProgramsAssumption ==
  \A p \in Programs :
     /\ p.files_to_report \subseteq Files /\ p.main \in p.files_to_report
     /\ \A f \in p.files_to_report : p.associated[f] \subseteq p.files_to_report
     /\ p.decls \in Seq(Decls)
     /\ \A d \in Range(p.decls) : DeclaredAsNeeded(p, d)
     /\ \A u \in p.uses : IF u.kind \in {"full", "using", "forward"}
                           THEN u.decl \in Range(p.decls)
                           ELSE u.decl = NoDecl /\ u.dfn_file \in Files

VARIABLES
  file_infos,       \* per file: [lines, symbol_uses, using_decl_referenced,
                    \*            desired_includes, calculated]
  reports,          \* the uses that the traversal will come across
  phase,            \* "preprocess", "traverse", "report", "choose", "cover",
                    \* "judge", "exit", "aborted"
  next,             \* the line, declaration or report that is next
  waiting,          \* files whose violations are still to be calculated
  current,          \* the one they are calculated for
  uses,             \* its symbol_uses_, while CalculateIwyuViolations works on them
  desired_headers, pass, next_use,  \* of CalculateMinimalIncludes
  num_edits,
  exit_code

cover_vars == <<uses, desired_headers, pass, next_use>>
vars == <<constants, file_infos, reports, phase, next, waiting, current,
          cover_vars, num_edits, exit_code>>

IsIncludeLine(line) == line.header # NoHeader

AnIncludeLine(includee, quoted_include, linenum) ==
  [header |-> quoted_include, included_file |-> includee, decl |-> NoDecl,
   line |-> linenum, present |-> FALSE, desired |-> FALSE, elaborated |-> FALSE]

AForwardDeclareLine(d) ==
  [header |-> NoHeader, included_file |-> NoFile, decl |-> d,
   line |-> DeclInfo[d].line, present |-> FALSE, desired |-> FALSE, elaborated |-> FALSE]

Lines(f) == Range(file_infos[f].lines)

DirectIncludes(f) == {l.header : l \in {k \in Lines(f) : k.present /\ IsIncludeLine(k)}}

AssociatedDesiredIncludes(f) ==
  UNION {file_infos[g].desired_includes : g \in tu.associated[f]}

EffectiveDirectIncludes(f) ==
  UNION {DirectIncludes(g) : g \in {f} \cup tu.associated[f]}

-----------------------------------------------------------------------------
(* While preprocessing.  "It's possible for the same #include to be seen   *)
(* multiple times": it is recognized by its line.                          *)
AddInclude(info, include) ==
  IF \E i \in DOMAIN info.lines : info.lines[i].line = include.line
  THEN info
  ELSE [info EXCEPT !.lines = Append(@,
          [AnIncludeLine(include.includee, include.quoted, include.line)
             EXCEPT !.present = TRUE])]

SeeInclude ==
  /\ phase = "preprocess" /\ next <= Len(tu.includes)
  /\ LET include == tu.includes[next]
     IN  file_infos' = [file_infos EXCEPT ![include.includer] = AddInclude(@, include)]
  /\ next' = next + 1
  /\ UNCHANGED <<constants, reports, phase, waiting, current, cover_vars, num_edits, exit_code>>

StartTraversal ==
  /\ phase = "preprocess" /\ next > Len(tu.includes)
  /\ phase' = "traverse" /\ next' = 1
  /\ UNCHANGED <<constants, file_infos, reports, waiting, current, cover_vars,
                 num_edits, exit_code>>

-----------------------------------------------------------------------------
(* Declarations. *)
AddForwardDeclare(info, d, definitely_keep) ==
  [info EXCEPT !.lines = Append(@, [AForwardDeclareLine(d) EXCEPT
                                      !.present = TRUE, !.desired = definitely_keep])]

AddOwningTagType(info, d) ==
  [info EXCEPT !.lines = Append(@, [AForwardDeclareLine(d) EXCEPT
                                      !.present = TRUE, !.desired = TRUE, !.elaborated = TRUE])]

DefinitelyKeep(d) ==
  \/ DeclInfo[d].traits \cap {"linkage_spec", "attribute"} # {}
  \/ IF IsNestedClass(d)
     THEN /\ IsFirstRedecl(d)
          /\ LET dfn == Definition(DeclInfo[d].entity)
             IN  dfn = NoDecl \/ "out_of_line" \in DeclInfo[dfn].traits
     ELSE ForwardDeclareIsMarkedKeep(d) \/ ForwardDeclareIsExported(d)

ReportForwardDeclareUse(info, f, line, d, use_flags) ==
  [info EXCEPT !.symbol_uses = Append(@, DeclUse(f, line, d, FALSE, use_flags))]

Previous(d) ==
  CHOOSE p \in Redecls(DeclInfo[d].entity) :
    /\ IsBefore(Position(p), Position(d))
    /\ \A q \in Redecls(DeclInfo[d].entity) :
          IsBefore(Position(q), Position(d)) => ~IsBefore(Position(p), Position(q))

(* A definition that is written with a qualifier uses a declaration. *)
VisitTagDecl(info, d) ==
  LET declared == IF IsForwardDecl(d) THEN AddForwardDeclare(info, d, DefinitelyKeep(d))
                  ELSE info
  IN  IF "qualified" \notin DeclInfo[d].traits THEN declared
      ELSE LET used == CHOOSE r \in GetNonfriendClassRedecls(Previous(d)) : TRUE
           IN  ReportForwardDeclareUse(declared, DeclInfo[d].file, DeclInfo[d].line,
                                       used, {"redecl"})

AddUsingDecl(info, d) ==
  [info EXCEPT !.using_decl_referenced =
     [u \in DOMAIN @ \cup {d} |-> IF u \in DOMAIN @ THEN @[u] ELSE FALSE]]

VisitDecl ==
  /\ phase = "traverse" /\ next <= Len(tu.decls)
  /\ LET d == tu.decls[next]
         f == DeclInfo[d].file
     IN  file_infos' = [file_infos EXCEPT ![f] =
           IF Kind(d) = "using" THEN AddUsingDecl(@, d)
           ELSE IF f \notin tu.files_to_report \/ Kind(d) \notin TagKinds THEN @
           ELSE IF "owned_tag" \in DeclInfo[d].traits THEN AddOwningTagType(@, d)
           ELSE VisitTagDecl(@, d)]
  /\ next' = next + 1
  /\ UNCHANGED <<constants, reports, phase, waiting, current, cover_vars, num_edits, exit_code>>

StartReports ==
  /\ phase = "traverse" /\ next > Len(tu.decls)
  /\ phase' = "report" /\ next' = 1
  /\ UNCHANGED <<constants, file_infos, reports, waiting, current, cover_vars,
                 num_edits, exit_code>>

-----------------------------------------------------------------------------
(* Uses. *)
AsWrittenFlags == {"redecl", "explicit_instantiation", "default_argument"}

ReportFullSymbolUse(info, f, line, d, use_flags) ==
  LET report_decl == IF use_flags \cap AsWrittenFlags = {}
                     THEN GetDefinitionAsWritten(d) ELSE d
  IN  [info EXCEPT !.symbol_uses = Append(@, DeclUse(f, line, report_decl, TRUE, use_flags))]

ReportUsingDeclUse(info, f, line, d, use_flags) ==
  ReportFullSymbolUse(
    [info EXCEPT !.using_decl_referenced = [u \in DOMAIN @ |-> @[u] \/ u = d]],
    f, line, d, use_flags)

ReportedUses(info, r) ==
  CASE r.kind = "full" -> {ReportFullSymbolUse(info, r.file, r.line, r.decl, r.flags)}
    [] r.kind = "using" -> {ReportUsingDeclUse(info, r.file, r.line, r.decl, r.flags)}
    [] r.kind = "forward" ->
         {ReportForwardDeclareUse(info, r.file, r.line, d, r.flags) :
            d \in GetNonfriendClassRedecls(r.decl)}
    [] r.kind = "symbol" ->
         {[info EXCEPT !.symbol_uses = Append(@, SymbolUse(r.file, r.line, r.symbol, r.dfn_file))]}
    [] OTHER ->  \* "include"
         {[info EXCEPT !.symbol_uses =
             Append(@, IncludeFileUse(r.file, r.dfn_file, QuotedInclude[r.dfn_file]))]}

ReportUse ==
  /\ phase = "report" /\ next <= Len(reports)
  /\ LET r == reports[next]
     IN  \E info \in ReportedUses(file_infos[r.file], r) :
            file_infos' = [file_infos EXCEPT ![r.file] = info]
  /\ next' = next + 1
  /\ UNCHANGED <<constants, reports, phase, waiting, current, cover_vars, num_edits, exit_code>>

(* A using-declaration that nothing refers to keeps its first target. *)
UnreferencedUsings(info) ==
  {d \in DOMAIN info.using_decl_referenced :
     ~info.using_decl_referenced[d] /\ EntityInfo[DeclInfo[d].entity].of # NoEntity}

FirstTarget(d) == CHOOSE t \in Redecls(EntityInfo[DeclInfo[d].entity].of) : TRUE

PendingUses(f) ==
  LET pending == SetToSeq(UnreferencedUsings(file_infos[f]))
  IN  [i \in DOMAIN pending |->
         DeclUse(f, DeclInfo[pending[i]].line, FirstTarget(pending[i]), FALSE, {})]

ResolvePendingAnalysis ==
  /\ phase = "report" /\ next > Len(reports)
  /\ file_infos' = [f \in Files |->
       IF f \notin tu.files_to_report THEN file_infos[f]
       ELSE [file_infos[f] EXCEPT !.symbol_uses = @ \o PendingUses(f)]]
  /\ phase' = "choose"
  /\ UNCHANGED <<constants, reports, next, waiting, current, cover_vars, num_edits, exit_code>>

-----------------------------------------------------------------------------
(* CalculateIwyuViolations. *)
ProcessForwardDeclares(us) ==
  [i \in DOMAIN us |-> IF us[i].full \/ us[i].decl = NoDecl THEN us[i]
                       ELSE ProcessForwardDeclare(us[i])]
ProcessFullUses(us) ==
  [i \in DOMAIN us |-> IF us[i].full /\ us[i].decl # NoDecl
                       THEN ProcessFullUse(us[i], us) ELSE us[i]]
ProcessSymbolUses(us) ==
  [i \in DOMAIN us |-> IF us[i].full /\ us[i].decl = NoDecl
                       THEN ProcessSymbolUse(us[i]) ELSE us[i]]

AssociatedIncludeUses(f) ==  \* (C1)
  LET gs == SetToSeq(tu.associated[f])
  IN  [i \in DOMAIN gs |-> IncludeFileUse(f, gs[i], QuotedInclude[gs[i]])]

(* The main file is last: its associated headers must be known. *)
InAnyOrder(f) == TRUE

InOrder(f) == f = tu.main => waiting = {tu.main}

(* What desired_includes() checks before anything else is done for a file. *)
AssociatedCalculated(f) == \A g \in tu.associated[f] : file_infos[g].calculated

FailCheck(f) ==
  /\ phase = "choose" /\ f \in waiting /\ InOrder(f)
  /\ ~AssociatedCalculated(f)
  /\ phase' = "aborted"
  /\ UNCHANGED <<constants, file_infos, reports, next, waiting, current, cover_vars,
                 num_edits, exit_code>>

StartFile(f) ==
  /\ phase = "choose" /\ f \in waiting /\ InOrder(f)
  /\ AssociatedCalculated(f)
  /\ LET processed == ProcessSymbolUses(ProcessFullUses(ProcessForwardDeclares(
                        file_infos[f].symbol_uses)))
         all == processed \o AssociatedIncludeUses(f)
     IN  uses' = [i \in DOMAIN all |-> WithHeaders(all[i])]
  /\ desired_headers' = {} /\ pass' = "easy" /\ next_use' = 1
  /\ current' = f /\ waiting' = waiting \ {f} /\ phase' = "cover"
  /\ UNCHANGED <<constants, file_infos, reports, next, num_edits, exit_code>>

(* (C2), (C3) *)
MinimalIncludes == INSTANCE MinimalIncludes WITH
  Uses <- {}, MaxUses <- 0, Situations <- {},
  use_quoted_include <- QuotedInclude[current],
  direct_includes <- DirectIncludes(current),
  associated_desired_includes <- AssociatedDesiredIncludes(current)

CalculateMinimalIncludes ==
  /\ phase = "cover"
  /\ UNCHANGED <<constants, file_infos, reports, phase, next, waiting, current,
                 num_edits, exit_code>>
  /\ MinimalIncludes!Next

DesiredIncludes ==  \* (C4)
  {h \in desired_headers : h \in HeaderFilenames \cup DirectIncludes(current)}

SetDesiredIncludes ==
  /\ phase = "cover" /\ pass = "done"
  /\ file_infos' = [file_infos EXCEPT ![current].desired_includes = DesiredIncludes,
                                      ![current].calculated = TRUE]
  /\ phase' = "judge" /\ next_use' = 1
  /\ UNCHANGED <<constants, reports, next, waiting, current, uses, desired_headers, pass,
                 num_edits, exit_code>>

EffectiveDesiredIncludes(f) ==
  file_infos[f].desired_includes \cup AssociatedDesiredIncludes(f)

JudgedUses(use) ==
  IF use.ignore_use THEN {use}
  ELSE IF use.full
  THEN {CalculateIwyuForFullUse(use, EffectiveDirectIncludes(current), QuotedInclude[current])}
  ELSE CalculateIwyuForForwardDeclareUse(use, EffectiveDirectIncludes(current),
         EffectiveDesiredIncludes(current), tu.associated[current])

JudgeUse ==
  /\ phase = "judge" /\ next_use <= Len(uses)
  /\ \E use \in JudgedUses(uses[next_use]) : uses' = [uses EXCEPT ![next_use] = use]
  /\ next_use' = next_use + 1
  /\ UNCHANGED <<constants, file_infos, reports, phase, next, waiting, current,
                 desired_headers, pass, num_edits, exit_code>>

-----------------------------------------------------------------------------
(* CalculateDesiredIncludesAndForwardDeclares. *)
Matches(line, use) ==
  IF HasSuggestedHeader(use)
  THEN IsIncludeLine(line) /\ line.header = use.suggested_header
  ELSE ~IsIncludeLine(line) /\ DeclInfo[line.decl].entity = DeclInfo[use.decl].entity

AddLine(lines, use) ==
  IF use.ignore_use \/ \E i \in DOMAIN lines : Matches(lines[i], use) THEN lines
  ELSE Append(lines,
         IF HasSuggestedHeader(use)
         THEN AnIncludeLine(use.decl_filepath, use.suggested_header, 0)
         ELSE [AForwardDeclareLine(use.decl) EXCEPT !.line = 0])

(* "First make sure all uses' includes and fwd decls are reflected in lines." *)
WithUsesReflected(lines) ==
  LET reflected[n \in Nat] ==
        IF n = 0 THEN lines ELSE AddLine(reflected[n - 1], uses[n])
  IN  reflected[Len(uses)]

(* The second time, forward declarations are told apart. *)
IsReasonForEvenIgnored(use, line) ==
  IF HasSuggestedHeader(use) THEN line.header = use.suggested_header
  ELSE line.decl = use.decl

IsReasonFor(use, line) ==
  /\ ~use.ignore_use
  /\ IF HasSuggestedHeader(use) THEN line.header = use.suggested_header
     ELSE line.decl = use.decl

IsSurplus(lines, i) ==
  /\ ~lines[i].elaborated
  /\ \E j \in 1..i - 1 :
        lines[j].header = lines[i].header /\ lines[j].decl = lines[i].decl

NeverComesThroughAssociated(line) == FALSE

ComesThroughAssociated(line) ==
  /\ IsIncludeLine(line) /\ ~line.present
  /\ line.header \in AssociatedDesiredIncludes(current)

IsKept(line) ==
  IF IsIncludeLine(line) THEN <<current, line.included_file>> \in tu.kept_includes
  ELSE IsDeclaredInsideMacro(line.decl)

CalculateDesiredIncludesAndForwardDeclares(lines) ==
  LET all == WithUsesReflected(lines)
      wanted(i) == /\ all[i].desired \/ \E j \in DOMAIN uses : IsReasonFor(uses[j], all[i])
                   /\ ~ComesThroughAssociated(all[i])
                   /\ ~IsSurplus(all, i)
  IN  [i \in DOMAIN all |-> [all[i] EXCEPT !.desired = wanted(i) \/ IsKept(all[i])]]

(* "no_include" *)
ClearInhibited(lines) ==
  [i \in DOMAIN lines |->
     [lines[i] EXCEPT !.desired = @ /\ ~IncludeIsInhibited(current, lines[i].header)]]

IsRemovablePrefixHeader(f) == f \in tu.prefix_headers /\ f \notin tu.pch_in_code

(* The first that this name was seen to stand for. *)
IncludeToFileEntry(header) ==
  LET seen == {i \in DOMAIN tu.includes : tu.includes[i].quoted = header}
  IN  IF seen = {} THEN NoFile ELSE tu.includes[Min(seen)].includee

(* The file that the line is for, as far as it is known. *)
LineFile(line) ==
  IF IsIncludeLine(line)
  THEN IF line.included_file # NoFile THEN line.included_file
       ELSE IncludeToFileEntry(line.header)
  ELSE LET dfn == GetTagDefinition(line.decl)
       IN  IF dfn = NoDecl THEN NoFile ELSE DeclInfo[dfn].file

CleanupPrefixHeaderIncludes(lines) ==
  [i \in DOMAIN lines |->
     [lines[i] EXCEPT !.desired =
        /\ @
        /\ \/ flags.prefix_header_includes = "add"
           \/ flags.prefix_header_includes = "keep" /\ lines[i].present
           \/ ~IsRemovablePrefixHeader(LineFile(lines[i]))]]

Edits(lines) == {i \in DOMAIN lines : lines[i].desired # lines[i].present}

(* PrintableDiffs counts what it prints. *)
PrintedEdits(lines) == IF flags.verbose >= 1 THEN Cardinality(Edits(lines)) ELSE 0

CalculateAndReportIwyuViolations ==
  /\ phase = "judge" /\ next_use > Len(uses)
  /\ LET lines == CleanupPrefixHeaderIncludes(ClearInhibited(
                    CalculateDesiredIncludesAndForwardDeclares(file_infos[current].lines)))
     IN  /\ file_infos' = [file_infos EXCEPT ![current].lines = lines,
                                             ![current].symbol_uses = uses]
         /\ num_edits' = num_edits + PrintedEdits(lines)
  /\ phase' = "choose" /\ current' = NoFile /\ uses' = <<>> /\ desired_headers' = {}
  /\ UNCHANGED <<constants, reports, next, waiting, pass, next_use, exit_code>>

Exit ==
  /\ phase = "choose" /\ waiting = {}
  /\ exit_code' = IF flags.exit_code_always # 0 THEN flags.exit_code_always
                  ELSE IF num_edits > 0 THEN flags.exit_code_error
                  ELSE 0
  /\ phase' = "exit"
  /\ UNCHANGED <<constants, file_infos, reports, next, waiting, current, cover_vars, num_edits>>

-----------------------------------------------------------------------------
(* The traversal reports what a member is a member of along with it, and   *)
(* goes through the text in its order.                                     *)
ComesWithContext(r, rs) ==
  r.decl # NoDecl /\ ContextKind(r.decl) \in TagKinds \cup {"function"} =>
    \E s \in rs : /\ s.kind = "full" /\ s.decl # NoDecl /\ s.file = r.file
                  /\ DeclInfo[s.decl].entity = Context(r.decl)

Precedes(r, s) ==
  IsBefore(<<FileOrder[r.file], r.line>>, <<FileOrder[s.file], s.line>>)

Init ==
  /\ tu \in Programs /\ flags \in FlagSets
  /\ \E n \in 0..MaxReports : \E rs \in kSubset(n, tu.uses) :
        /\ \A r \in rs : ComesWithContext(r, rs)
        /\ \E s \in [1..n -> rs] :
              /\ IsInjective(s)
              /\ \A i, j \in 1..n : i < j => ~Precedes(s[j], s[i])
              /\ reports = s
  /\ file_infos = [f \in Files |->
       [lines |-> <<>>, symbol_uses |-> <<>>, using_decl_referenced |-> [d \in {} |-> FALSE],
        desired_includes |-> {}, calculated |-> FALSE]]
  /\ phase = "preprocess" /\ next = 1
  /\ waiting = tu.files_to_report /\ current = NoFile
  /\ uses = <<>> /\ desired_headers = {} /\ pass = "easy" /\ next_use = 1
  /\ num_edits = 0 /\ exit_code = 0

Next ==
  \/ SeeInclude
  \/ StartTraversal
  \/ VisitDecl
  \/ StartReports
  \/ ReportUse
  \/ ResolvePendingAnalysis
  \/ \E f \in Files : FailCheck(f)
  \/ \E f \in Files : StartFile(f)
  \/ CalculateMinimalIncludes
  \/ SetDesiredIncludes
  \/ JudgeUse
  \/ CalculateAndReportIwyuViolations
  \/ Exit

Spec == Init /\ [][Next]_vars

-----------------------------------------------------------------------------
(* What the files look like after the edits. *)
FilesOf(header) == {f \in Files : QuotedInclude[f] = header}

DesiredHeaders(f) == {l.header : l \in {k \in Lines(f) : k.desired /\ IsIncludeLine(k)}}

IncludeesAfter(f) ==
  IF f \in tu.files_to_report THEN UNION {FilesOf(h) : h \in DesiredHeaders(f)}
  ELSE Includees(f)

IncludedAfter(f) ==
  LET within[n \in Nat] ==
        IF n = 0 THEN {f} \cup tu.prefix_headers
        ELSE within[n - 1] \cup UNION {IncludeesAfter(g) : g \in within[n - 1]}
  IN  within[Cardinality(Files)]

(* Declarations that will do for a full use of this one. *)
Sufficient(d) ==
  IF Kind(d) \in TagKinds THEN {d}
  ELSE {r \in GetNonTagRedecls(d) : FnDeclHasDefArg(d) => FnDeclHasDefArg(r)}

(* One of these, or a header that the mappings say provides it. *)
IsSeenAfter(d, f) ==
  IsBuiltinFunction(d) \/ \E g \in IncludedAfter(f) :
     \/ \E r \in Sufficient(d) : g = DeclInfo[r].file
     \/ QuotedInclude[g] \in Range(GetMappedPublicHeaders(Symbol(d), DeclInfo[d].file))

(* What a file uses in full (or names in a using-declaration) it can still  *)
(* see once all files have been edited as they are told to: the definition, *)
(* or a header that the mappings say provides it, is among the files that   *)
(* it then includes, whatever else the edits of the headers took away.      *)
UsesStillSeen ==
  phase = "exit" =>
    \A i \in DOMAIN reports :
      reports[i].kind \in {"full", "using"} /\ reports[i].file \in tu.files_to_report
      => IsSeenAfter(GetDefinitionAsWritten(reports[i].decl), reports[i].file)

(* A declaration stays if it is no line that a file is told to remove. *)
IsDeclaredAfter(d) ==
  LET f == DeclInfo[d].file
  IN  f \in tu.files_to_report /\ IsForwardDecl(d)
      => \E l \in Lines(f) : l.decl = d /\ l.desired

AddsForwardDeclare(f, d) ==
  \E l \in Lines(f) : /\ ~IsIncludeLine(l) /\ l.desired /\ ~l.present
                      /\ DeclInfo[l.decl].entity = Symbol(d)

Usable(use_file, line, d) ==
  DeclInfo[d].file = use_file => DeclInfo[d].line <= line

(* A declaration that the compiler has seen when it comes to this line. *)
IsDeclaredBeforeUse(r) ==
  LET d == r.decl
  IN  \/ AddsForwardDeclare(r.file, d)
      \/ \E e \in Redecls(Symbol(d)) :
            /\ DeclInfo[e].file \in IncludedAfter(r.file)
            /\ IsDeclaredAfter(e) /\ Usable(r.file, r.line, e)
      \/ \E g \in IncludedAfter(r.file) :
            QuotedInclude[g] \in Range(GetMappedPublicHeaders(Symbol(d), DeclInfo[d].file))
                                 \cup Range(Lookup(FwdHeaders, Symbol(d)))

ForwardUses ==
  {reports[i] : i \in {j \in DOMAIN reports :
     reports[j].kind = "forward" /\ reports[j].file \in tu.files_to_report}}

(* A declaration that a file uses is still there, before the use, in the   *)
(* file or in one that it includes, or it is added. The exception is a     *)
(* declaration in an associated header that is told to remove it: the code *)
(* relies on that header without looking (iwyu_output.cc:1697).            *)
ForwardUsesDeclaredElsewhere ==
  phase = "exit" =>
    \A r \in ForwardUses :
      \/ IsDeclaredBeforeUse(r)
      \/ \E g \in tu.associated[r.file] : \E l \in Lines(g) :
            /\ l.present /\ ~l.desired /\ ~IsIncludeLine(l)
            /\ DeclInfo[l.decl].entity = Symbol(r.decl)

(* The symbols that a file uses: those reported, those that it names in a  *)
(* using-declaration and does not refer to by it, and those that it        *)
(* defines by a qualified name.                                            *)
ReportedSymbols(f) ==
  {Symbol(reports[i].decl) :
     i \in {j \in DOMAIN reports : reports[j].file = f /\ reports[j].decl # NoDecl}}
  \cup {Symbol(d) : d \in {x \in Range(tu.decls) :
                             DeclInfo[x].file = f /\ "qualified" \in DeclInfo[x].traits}}

UsingSymbols(f) == {Symbol(FirstTarget(d)) : d \in UnreferencedUsings(file_infos[f])}

(* Headers as the picker lists them, and what the first stands for. *)
WithCanonical(headers) ==
  Range(headers)
  \cup (IF headers = <<>> THEN {} ELSE Range(Lookup(HeaderHeaders, headers[1])))

HeadersOf(symbol) ==
  UNION {{QuotedInclude[DeclInfo[d].file]}
         \cup WithCanonical(GetMappedPublicHeaders(symbol, DeclInfo[d].file))
         \cup WithCanonical(Lookup(FwdHeaders, symbol)) :
           d \in {x \in Range(tu.decls) : Symbol(x) = symbol}}

HeadersWithout(f) ==  \* reports of macros and of files
  UNION {{QuotedInclude[reports[i].dfn_file]}
         \cup WithCanonical(GetMappedPublicHeaders(reports[i].symbol, reports[i].dfn_file)) :
           i \in {j \in DOMAIN reports : reports[j].file = f /\ reports[j].decl = NoDecl}}

Reasons(f, symbols) ==
  HeadersWithout(f) \cup {QuotedInclude[g] : g \in tu.associated[f]}
  \cup UNION {HeadersOf(x) : x \in symbols}

(* No file is told to have an #include that none of its uses calls for: the *)
(* others are kept because a pragma says so, or are of its associated       *)
(* headers.                                                                 *)
NoIncludeWithoutReason ==
  \A f \in tu.files_to_report : file_infos[f].calculated /\ current # f =>
    \A l \in Lines(f) : l.desired /\ IsIncludeLine(l) =>
      \/ <<f, l.included_file>> \in tu.kept_includes
      \/ l.header \in Reasons(f, ReportedSymbols(f) \cup UsingSymbols(f))

(* What a file and its associated headers are told to add is added once.   *)
(* Exempted is what comes through an associated header for the sake of a   *)
(* declaration in a file that is kept: the line is kept with it            *)
(* (iwyu_output.cc:2080).                                                  *)
NothingAddedTwice ==
  \A f \in tu.files_to_report : file_infos[f].calculated =>
    LET added == {i \in DOMAIN file_infos[f].lines :
                    file_infos[f].lines[i].desired /\ ~file_infos[f].lines[i].present}
        line(i) == file_infos[f].lines[i]
    IN  \A i \in added :
          /\ \A j \in DOMAIN file_infos[f].lines :
                j # i /\ line(j).desired =>
                  IF IsIncludeLine(line(i)) THEN line(j).header # line(i).header
                  ELSE IsIncludeLine(line(j))
                       \/ DeclInfo[line(j).decl].entity # DeclInfo[line(i).decl].entity
          /\ \A g \in tu.associated[f] :
                IsIncludeLine(line(i)) /\ line(i).header \in file_infos[g].desired_includes
                => <<f, line(i).included_file>> \in tu.kept_includes

(* The CHECK_ in desired_includes() fails for nothing but an `associated`   *)
(* pragma: what is associated with the main file by its name has been      *)
(* calculated when the main file comes, in whatever order the others do. A *)
(* pragma can give associates to a header too, or the main file itself to  *)
(* the main file, and nothing puts those in order (iwyu_output.h:359).     *)
FailsOnlyForPragmas ==
  phase = "aborted" =>
    \/ tu.main \in tu.associated[tu.main]
    \/ \E f \in tu.files_to_report \ {tu.main} : tu.associated[f] # {}
=============================================================================
