----------------------------- MODULE Preprocessor -----------------------------
(***************************************************************************)
(* The preprocessing of one translation unit: Clang's callbacks, in the    *)
(* order in which files are entered, skipped and left, pragma comments and *)
(* macro uses between them, and the steps at the end of the source, with   *)
(* the finalization of the global include picker among them.               *)
(*                                                                         *)
(* What the files contain is not fixed: a file that is being read may      *)
(* have any of the given lines next, as conditional compilation allows.    *)
(***************************************************************************)
EXTENDS PreprocessorData

CONSTANTS
  MainFile,
  Lines,            \* #include lines: [includer, includee, as_written, pragma]
  Comments,         \* other pragma comments: [file, pragma]
  MacroUses,        \* [file, defined_in]
  Guard,            \* path -> "once" (#pragma once), "ifndef" or "none"
  MaxDepth,         \* bound on the include stack
  MaxLines,         \* bound on the lines and comments read
  InternalMappings, \* what the picker is built with
  Keys              \* every include and pattern that these may lead to

VARIABLES
  include_stack,    \* Clang's: the files being read, the innermost last
  pp,               \* IwyuPreprocessorInfo
  exported,         \* ghost: the lines written within begin_exports
  phase, picker, num_calls, to_expand, seen_nodes, loops, declared,
  cycle_found       \* of the global include picker

pp_vars == <<include_stack, pp, exported>>
closing_vars == <<to_expand, seen_nodes, loops, cycle_found>>
vars == <<pp_vars, phase, picker, num_calls, declared, closing_vars>>

Files == Range(FileOrder)

(* The buffer of predefined macros has no comments. *)
ASSUME FilesAssumption ==
  /\ FileOrder \in Seq(Files)
  /\ MainFile \in Files
  /\ SpecialFilename \notin Files
  /\ \A l \in Lines : l.includee \in Files
  /\ \A c \in Comments : c.file \in Files
  /\ \A l \in Lines : IsSpecialFilename(l.includer) => l.pragma = NoEffect

(* Every name that a file has or is given, and that a pattern is replaced  *)
(* by for it, is a key.                                                    *)
ASSUME KeysAssumption ==
  /\ IsFiniteSet(Keys)
  /\ Picker!NotWritten \in Keys
  /\ InternalMappings \in Seq(Range(InternalMappings))
  /\ \A m \in Range(InternalMappings) : m.from \in Keys /\ m.to \in Keys
  /\ \A l \in Lines : l.as_written \in Keys
  /\ \A f \in DOMAIN Headernames : Headernames[f] \in Seq(Keys)
  /\ \A c \in Comments : c.pragma.kind = "private_include" => c.pragma.arg \in Keys
  /\ \A l \in Lines : l.pragma.kind = "private_include" => l.pragma.arg \in Keys
  /\ \A f \in Files \cup {SpecialFilename} :
        LET name == ConvertToQuotedInclude(f, <<>>)
        IN  /\ name \in Keys
            /\ Picker!IsAsmHeader(name) => Picker!AsmName(name) \in Keys
            /\ \A pattern \in {k \in Keys : Picker!IsPattern(k)}, target \in Keys :
                  Picker!RegexMatch(name, pattern) =>
                     Picker!RegexReplace(name, pattern, target) \in Keys

GlobalIncludePicker == INSTANCE IncludePicker WITH
  CHeaders <- {}, IncludeMappings <- {}, SymbolMappings <- {},
  DirectIncludes <- {}, PrivateIncludes <- {}, PrivatePaths <- {},
  Friends <- {}, MaxCalls <- MaxLines

-----------------------------------------------------------------------------
Init ==
  /\ include_stack = <<>>
  /\ \E pch_in_code \in BOOLEAN : pp = EmptyInfo(pch_in_code)
  /\ exported = {}
  /\ phase = "preprocessing"
  /\ picker = FoldLeft(Picker!AddIncludeMapping, Picker!EmptyPicker,
                       InternalMappings)
  /\ num_calls = 0
  /\ declared = picker.filepath_include_map
  /\ to_expand = {} /\ seen_nodes = <<>> /\ loops = <<>> /\ cycle_found = FALSE

Now == [pp |-> pp, picker |-> picker]

(* The next line that is read makes the state s. *)
Read(s) ==
  /\ pp' = s.pp
  /\ GlobalIncludePicker!Call("preprocessing", s.picker)

Top == Last(include_stack)

Open(file) == \E i \in DOMAIN include_stack : include_stack[i].file = file

(* The scope of the innermost file that a comment opens or closes. *)
Scoped(pragma) ==
  [include_stack EXCEPT ![Len(include_stack)].exports =
     IF pragma.kind = "begin_exports" THEN ~HasOpenBeginKeep(pp, Top.file)
     ELSE @ /\ pragma.kind # "end_exports"]

(* A file whose #ifndef guard is taken is read again as long as Clang has  *)
(* not seen its end, but nothing in it is live.                            *)
Push(stack, file) ==
  Append(stack,
         [file |-> file, exports |-> FALSE, live |-> ~(Guard[file] = "ifndef" /\ Open(file))])

Reading == include_stack # <<>> /\ Top.live

(* Clang enters the main file, and in it the buffer of predefined macros   *)
(* with the command line's -include.                                       *)
EnterMain ==
  /\ include_stack = <<>>
  /\ IsSpecialFilename(pp.main_file)
  /\ Read(FileChanged_EnterFile(Now,
       [includer |-> SpecialFilename, includee |-> MainFile,
        as_written |-> Picker!NotWritten, pragma |-> NoEffect]))
  /\ include_stack' =
       << [file |-> MainFile, exports |-> FALSE, live |-> TRUE],
          [file |-> SpecialFilename, exports |-> FALSE, live |-> TRUE] >>
  /\ UNCHANGED exported

MustSkip(file) ==
  /\ file \in DOMAIN pp.iwyu_file_info_map
  /\ Guard[file] = "once" \/ (Guard[file] = "ifndef" /\ ~Open(file))

(* The comment on the line is handled before the file is entered. *)
Commented(line) == HandlePragmaComment(Now, line.includer, line.pragma)

(* A line of this pragma scope, with nothing to keep it that goes first.   *)
NoteExported(line) ==
  exported' = IF /\ Last(Scoped(line.pragma)).exports
                 /\ line.pragma.kind # "keep" /\ line.includee \notin KeepGlobs
              THEN exported \cup {<<line.includer, line.includee>>} ELSE exported

EnterFile(line) ==
  /\ Reading
  /\ line.includer = Top.file
  /\ ~MustSkip(line.includee)
  /\ Len(include_stack) < MaxDepth
  /\ Read(FileChanged_EnterFile(Commented(line), line))
  /\ include_stack' = Push(Scoped(line.pragma), line.includee)
  /\ NoteExported(line)

SkipFile(line) ==
  /\ Reading
  /\ line.includer = Top.file
  /\ MustSkip(line.includee)
  /\ Read(FileSkipped(Commented(line), line))
  /\ include_stack' = Scoped(line.pragma)
  /\ NoteExported(line)

HandleComment(c) ==
  /\ Reading
  /\ c.file = Top.file
  /\ Read(HandlePragmaComment(Now, c.file, c.pragma))
  /\ include_stack' = Scoped(c.pragma)
  /\ UNCHANGED exported

(* MacroExpands, Ifdef, Ifndef and Defined; and MacroDefined, for the      *)
(* macros in the body, in files that are reported on.                      *)
UseMacro(u) ==
  /\ Reading
  /\ u.file = Top.file
  /\ u.defined_in \in DOMAIN pp.iwyu_file_info_map
  /\ pp' = ReportMacroUse(pp, u.file, u.defined_in)
  /\ UNCHANGED <<include_stack, exported, phase, picker, num_calls, declared,
                 closing_vars>>

(* A faulty variant of the definition that follows; there are more below. *)
ExitFileLeaking ==
  /\ Len(include_stack) > 1
  /\ UNCHANGED pp
  /\ include_stack' = Front(include_stack)
  /\ UNCHANGED <<exported, phase, picker, num_calls, declared, closing_vars>>

ExitFile ==
  /\ Len(include_stack) > 1
  /\ pp' = FileChanged_ExitToFile(pp, Top.file)
  /\ include_stack' = [i \in 1 .. Len(include_stack) - 1 |->
                         [include_stack[i] EXCEPT
                            !.exports = @ /\ include_stack[i].file # Top.file]]
  /\ UNCHANGED <<exported, phase, picker, num_calls, declared, closing_vars>>

(* The end of the main file, up to the finalization of the picker, ... *)
EndMain ==
  /\ Len(include_stack) = 1
  /\ LET s == HandlePreprocessingDone(Now)
     IN  /\ pp' = s.pp
         /\ picker' = s.picker
         /\ declared' = s.picker.filepath_include_map
  /\ include_stack' = <<>>
  /\ UNCHANGED <<exported, phase, num_calls, closing_vars>>

Done == pp.transitive_include_map # <<>>

FinalizeAddedIncludes ==
  /\ include_stack = <<>>
  /\ ~IsSpecialFilename(pp.main_file)
  /\ GlobalIncludePicker!FinalizeAddedIncludes
  /\ UNCHANGED pp_vars

(* ... and from there to the end of HandlePreprocessingDone. *)
PopulateMaps ==
  /\ phase = "final"
  /\ ~Done
  /\ pp' = PopulateIntendsToProvideMap(
             PopulateTransitiveIncludeMap(FinalizeProtectedIncludes(pp, picker)),
             picker)
  /\ UNCHANGED <<include_stack, exported, phase, picker, num_calls,
                 declared, closing_vars>>

Next ==
  \/ EnterMain
  \/ \E line \in Lines : EnterFile(line) \/ SkipFile(line)
  \/ \E c \in Comments : HandleComment(c)
  \/ \E u \in MacroUses : UseMacro(u)
  \/ ExitFile
  \/ EndMain
  \/ FinalizeAddedIncludes
  \/ PopulateMaps

Spec == Init /\ [][Next]_vars
-----------------------------------------------------------------------------
Info(file) == pp.iwyu_file_info_map[file]

(* begin_exports exports each #include up to its end_exports: "the same as  *)
(* decorating every line with `IWYU pragma: export`" (docs/IWYUPragmas.md),  *)
(* whatever files with scopes of their own are read in between. Exempted is *)
(* the rest of the scope once the file has been entered again within it,    *)
(* because the end of that reading closes the scope of the first one; and a *)
(* program that a failed CHECK_ has ended in the middle of a line.          *)
ScopedIncludesExported ==
  ~picker.aborted => \A e \in exported : Picker!HasMapping(picker, e[2], e[1])

(* "There should be at most one item in this stack per file in the current *)
(* inclusion chain" (iwyu_preprocessor.h), and none of another file; the   *)
(* two kinds of scopes are never both open in one file.                    *)
OneScopePerFile ==
  LET exports == pp.begin_exports_location_stack
      keeps == pp.begin_keep_location_stack
  IN  /\ IsInjective(exports) /\ IsInjective(keeps)
      /\ Range(exports) \cap Range(keeps) = {}
      /\ \A f \in Range(exports) \cup Range(keeps) : Open(f)

(* A header that is offered in place of one of its includes keeps this     *)
(* include, through however many mappings it is offered: otherwise         *)
(* following iwyu's advice everywhere would lose the include.              *)
ReexportersKeepIncludes ==
  Done => \A f \in DOMAIN pp.iwyu_file_info_map :
    \A i \in Info(f).direct_includes :
      LET key == ConvertToQuotedInclude(i, <<>>)
      IN  /\ GlobalIncludePicker!AwayFromCycles(key)
          /\ ConvertToQuotedInclude(f, <<>>) \in GlobalIncludePicker!LeadsTo(key)
          => i \in Info(f).include_uses

(* "All associated headers need to be included in IWYU analysis"           *)
(* (AddDirectInclude), also when a header was first read in another place, *)
(* or its association comes from a pragma.                                 *)
AssociatedHeadersAnalyzed ==
  \A f \in DOMAIN pp.iwyu_file_info_map :
     Info(f).associated_headers \subseteq pp.files_to_report_iwyu_violations_for

(* "Every private header file intends to provide exactly what its public   *)
(* header files do" (PopulateIntendsToProvideMap): at least that.          *)
PrivateProvidesWhatPublicDoes ==
  Done => \A public \in DOMAIN pp.intends_to_provide_map :
    \A private \in PrivateHeadersBehind(pp, picker)[public] :
      pp.intends_to_provide_map[public]
        \subseteq FindInMap(pp.intends_to_provide_map, private, {})

(* "File included from another prefix header file is prefix header too"    *)
(* (FileChanged_EnterFile).                                                *)
PrefixHeadersClosed ==
  \A f \in DOMAIN pp.iwyu_file_info_map :
     Info(f).is_prefix_header =>
        \A i \in Info(f).direct_includes : Info(i).is_prefix_header

=============================================================================
