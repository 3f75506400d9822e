--------------------------- MODULE PreprocessorData ---------------------------
(***************************************************************************)
(* What IwyuPreprocessorInfo keeps about a translation unit, and its       *)
(* methods, as functions (iwyu_preprocessor.{h,cc}).  Most methods change  *)
(* two things, the information pp of this class and the global include     *)
(* picker: they take and return the record s with both.                    *)
(*                                                                         *)
(* A FileEntryRef is the file's path, and a null one is SpecialFilename,   *)
(* which is also what GetFilePath makes of it.  A SourceLocation is the    *)
(* file it lies in.                                                        *)
(***************************************************************************)
EXTENDS PathUtil, FiniteSets, FiniteSetsExt, Functions, TLC

CONSTANTS
  AsmDirs,        \* of IncludePickerData
  Stem,           \* file names without extensions and suffixes like _test
  SourceNames,    \* the names that end in .c, .cc, .cpp, ...
  SystemHeaders,  \* the files found on a system search path
  KeepGlobs,      \* the files that --keep matches
  CheckAlso,      \* the files that --check_also matches
  Headernames,    \* path -> the names in the file's @headername directive
  FileOrder       \* all files, in the order of their FileEntryRefs

Picker == INSTANCE IncludePickerData

NoFile == <<>>      \* an invalid location

NoEffect == [kind |-> "none", arg |-> "none"]   \* no pragma on a line

FindInMap(m, key, default) == IF key \in DOMAIN m THEN m[key] ELSE default

(* std::map: insert() leaves an entry that is there, m[key] = value does   *)
(* not.                                                                    *)
Insert(m, key, value) ==
  [k \in DOMAIN m \cup {key} |-> IF k \in DOMAIN m THEN m[k] ELSE value]

Assign(m, key, value) ==
  [k \in DOMAIN m \cup {key} |-> IF k = key THEN value ELSE m[k]]

NewFileInfo(quoted_include_name) ==
  [quoted_file        |-> quoted_include_name,
   direct_includes    |-> {},
   associated_headers |-> {},
   kept_includes      |-> {},   \* ReportKnownDesiredFile
   include_uses       |-> {},   \* ReportIncludeFileUse
   macro_uses         |-> {},   \* the files whose macros it uses
   macro_users        |-> {},   \* the files that use its macros
   is_prefix_header   |-> FALSE,
   is_pch_in_code     |-> FALSE]

(* The flags are kept here too: --check_also grows with the associated     *)
(* headers.                                                                *)
EmptyInfo(pch_in_code) ==
  [pch_in_code          |-> pch_in_code,
   check_also           |-> CheckAlso,
   main_file            |-> SpecialFilename,
   iwyu_file_info_map   |-> <<>>,  \* path -> file info
   include_to_fileentry_map |-> <<>>,  \* include as written -> path
   num_includes_seen    |-> <<>>,
   begin_exports_location_stack |-> <<>>,
   begin_keep_location_stack    |-> <<>>,
   associated_pragma_location   |-> NoFile,
   always_keep_files    |-> {},
   no_include_map       |-> {},    \* pairs of a file and an include
   no_forward_declare_map |-> {},  \* pairs of a file and a symbol
   files_to_report_iwyu_violations_for |-> {},
   transitive_include_map |-> <<>>,
   intends_to_provide_map |-> <<>>]

-----------------------------------------------------------------------------
(* Files. *)

ReplaceFirst(path, dir, replacement) ==
  LET at == {i \in 1..(Len(path) - 1) : path[i] = dir}
  IN  IF at = {} THEN path ELSE [path EXCEPT ![Min(at)] = replacement]

(* Extension and test suffixes do not count, and headers in public/ or     *)
(* src/ belong to sources in internal/ or include/.                        *)
GetCanonicalName(path) ==
  IF IsSpecialFilename(path) THEN path
  ELSE ReplaceFirst(
         ReplaceFirst(Append(Front(path), Stem[Last(path)]), "internal", "public"),
         "include", "src")

BaseName(path) == <<Last(path)>>

IsHeaderFile(path) == ~IsSpecialFilename(path) /\ Last(path) \notin SourceNames

ShouldReportIWYUViolationsFor(pp, file) == file \in pp.check_also

(* Of the same component as the main file: by its name, or because it is   *)
(* the first include of the main file and has the same base name.          *)
BelongsToMainCompilationUnit(pp, includer, includee) ==
  LET first_include_index == IF pp.pch_in_code THEN 2 ELSE 1
  IN  /\ ~IsSpecialFilename(includee)
      /\ includee \notin SystemHeaders
      /\ \/ GetCanonicalName(includee) = GetCanonicalName(pp.main_file)
         \/ /\ includer = pp.main_file
            /\ FindInMap(pp.num_includes_seen, includer, 0) = first_include_index
            /\ GetCanonicalName(BaseName(includee))
                 = GetCanonicalName(BaseName(pp.main_file))

InsertIntoFileInfoMap(pp, file, quoted_include_name) ==
  [pp EXCEPT !.iwyu_file_info_map = Insert(@, file, NewFileInfo(quoted_include_name))]

GetFromFileInfoMap(pp, file) ==
  InsertIntoFileInfoMap(pp, file, ConvertToQuotedInclude(file, <<>>))

(* One of the sets in a file's info gets one more element. *)
Report(pp, file, set, element) ==
  [pp EXCEPT !.iwyu_file_info_map[file][set] = @ \cup {element}]

-----------------------------------------------------------------------------
(* Comments. *)

HasOpenBeginExports(pp, file) ==
  LET open == pp.begin_exports_location_stack
  IN  open # <<>> /\ Last(open) = file

HasOpenBeginKeep(pp, file) ==
  LET open == pp.begin_keep_location_stack
  IN  open # <<>> /\ Last(open) = file

(* A pragma outside of begin_exports and begin_keep.  "keep" and "export"  *)
(* have their effect in MaybeProtectInclude.                               *)
HandleOpenPragma(s, file, pragma) ==
  CASE pragma.kind = "begin_exports" ->
         [s EXCEPT !.pp.begin_exports_location_stack = Append(@, file)]
    [] pragma.kind = "begin_keep" ->
         [s EXCEPT !.pp.begin_keep_location_stack = Append(@, file)]
    [] pragma.kind = "private_include" ->
         [s EXCEPT !.picker = Picker!PrivateInclude(@, file, pragma.arg)]
    [] pragma.kind = "private" ->
         [s EXCEPT !.picker = Picker!MarkPathAsPrivate(@, file)]
    [] pragma.kind = "no_include" ->
         [s EXCEPT !.pp.no_include_map = @ \cup {<<file, pragma.arg>>}]
    [] pragma.kind = "no_forward_declare" ->
         [s EXCEPT !.pp.no_forward_declare_map = @ \cup {<<file, pragma.arg>>}]
    [] pragma.kind = "friend" ->
         [s EXCEPT !.picker = Picker!AddFriendRegex(@, file, pragma.arg)]
    [] pragma.kind = "associated" ->
         [s EXCEPT !.pp.associated_pragma_location = IF @ = NoFile THEN file ELSE @]
    [] pragma.kind = "always_keep" ->
         [s EXCEPT !.pp.always_keep_files = @ \cup {file}]
    [] OTHER -> s

(* Within begin_exports and begin_keep only their own end is accepted. *)
HandlePragmaComment(s, file, pragma) ==
  IF HasOpenBeginExports(s.pp, file)
  THEN IF pragma.kind # "end_exports" THEN s
       ELSE [s EXCEPT !.pp.begin_exports_location_stack = Front(@)]
  ELSE IF HasOpenBeginKeep(s.pp, file)
  THEN IF pragma.kind # "end_keep" THEN s
       ELSE [s EXCEPT !.pp.begin_keep_location_stack = Front(@)]
  ELSE HandleOpenPragma(s, file, pragma)

(* @headername: the file is private to the public names given in it. *)
ProcessHeadernameDirectivesInFile(s, file, quoted_private_include) ==
  IF quoted_private_include = Picker!NotWritten \/ file \notin DOMAIN Headernames
  THEN s
  ELSE LET Map(picker, public) ==
             Picker!MarkIncludeAsPrivate(
               Picker!AddMapping(picker, quoted_private_include,
                                 Picker!MappedInclude(public, Picker!NoPath)),
               quoted_private_include)
       IN  [s EXCEPT !.picker = FoldLeft(Map, @, Headernames[file])]

-----------------------------------------------------------------------------
(* #include lines: [includer, includee, as_written, pragma].               *)

Protect(s, line) ==
  [s EXCEPT !.pp = Report(@, line.includer, "include_uses", line.includee)]

Keep(s, line) ==
  [s EXCEPT !.pp = Report(@, line.includer, "kept_includes", line.includee)]

MaybeProtectInclude(s, line) ==
  IF IsSpecialFilename(line.includer) THEN s
  ELSE IF
     \/ line.pragma.kind = "keep"
     \/ HasOpenBeginKeep(s.pp, line.includer)
     \/ line.includee \in KeepGlobs
  THEN Protect(Keep(s, line), line)
  ELSE IF line.pragma.kind = "export" \/ HasOpenBeginExports(s.pp, line.includer)
  THEN Protect([s EXCEPT !.picker = Picker!ExportInclude(@, line.includer,
                                      line.includee, line.as_written)], line)
  ELSE IF \/ ~IsHeaderFile(line.includee)
          \/ s.pp.iwyu_file_info_map[line.includee].is_pch_in_code
  THEN Protect(s, line)
  ELSE s

AddAssociatedHeader(pp, includer, includee) ==
  [Report(pp, includer, "associated_headers", includee)
     EXCEPT !.check_also = @ \cup {includee}]

(* The first include of the main file may be a precompiled header. *)
MarkPchInCode(pp, includer, includee) ==
  IF /\ ~IsSpecialFilename(pp.main_file) /\ includer = pp.main_file
     /\ pp.num_includes_seen[includer] = 1
     /\ pp.pch_in_code
  THEN [pp EXCEPT !.iwyu_file_info_map[includee].is_pch_in_code = TRUE,
                  !.iwyu_file_info_map[includee].is_prefix_header = TRUE]
  ELSE pp

MarkAssociated(pp, includer, includee) ==
  LET by_name == IF /\ includer = pp.main_file /\ includee # includer
                    /\ BelongsToMainCompilationUnit(pp, includer, includee)
                 THEN AddAssociatedHeader(pp, includer, includee) ELSE pp
  IN  IF pp.associated_pragma_location = includer
      THEN [AddAssociatedHeader(by_name, includer, includee)
              EXCEPT !.associated_pragma_location = NoFile]
      ELSE by_name

AddDirectInclude(s, line) ==
  LET includer == line.includer
      includee == line.includee
      counted == [s.pp EXCEPT !.num_includes_seen =
                     Assign(@, includer, FindInMap(@, includer, 0) + 1)]
      added == InsertIntoFileInfoMap(
                 Report(GetFromFileInfoMap(counted, includer),
                        includer, "direct_includes", includee),
                 includee, line.as_written)
      marked == MarkAssociated(MarkPchInCode(added, includer, includee),
                               includer, includee)
      named == IF line.as_written = Picker!NotWritten THEN marked
               ELSE [marked EXCEPT !.include_to_fileentry_map =
                        Insert(@, line.as_written, includee)]
      told == Picker!AddDirectInclude(s.picker, includer, includee, line.as_written)
  IN  MaybeProtectInclude([pp |-> named, picker |-> told], line)

(* The file is entered or skipped: it may be one to report on. *)
NoteReported(pp, file) ==
  IF ShouldReportIWYUViolationsFor(pp, file)
  THEN [pp EXCEPT !.files_to_report_iwyu_violations_for = @ \cup {file}]
  ELSE pp

(* A faulty variant of the definition that follows; there are more below. *)
FileSkippedUnnoted(s, line) == AddDirectInclude(s, line)

FileSkipped(s, line) ==
  LET added == AddDirectInclude(s, line)
  IN  [added EXCEPT !.pp = NoteReported(@, line.includee)]

FileChanged_EnterFileNotInherited(s, line) ==
  LET file == line.includee
      named == ProcessHeadernameDirectivesInFile(AddDirectInclude(s, line), file,
                                                 line.as_written)
      with_main == [named.pp EXCEPT !.main_file =
                       IF IsSpecialFilename(@) THEN file ELSE @]
      belonging == IF BelongsToMainCompilationUnit(with_main, line.includer, file)
                   THEN [with_main EXCEPT !.check_also = @ \cup {file}]
                   ELSE with_main
      is_prefix_header ==
        IsSpecialFilename(line.includer) /\ file # belonging.main_file
  IN  [pp |-> [NoteReported(belonging, file) EXCEPT
                 !.iwyu_file_info_map[file].is_prefix_header =
                    @ \/ is_prefix_header],
       picker |-> named.picker]

FileChanged_EnterFile(s, line) ==
  LET file == line.includee
      named == ProcessHeadernameDirectivesInFile(AddDirectInclude(s, line), file,
                                                 line.as_written)
      with_main == [named.pp EXCEPT !.main_file =
                       IF IsSpecialFilename(@) THEN file ELSE @]
      belonging == IF BelongsToMainCompilationUnit(with_main, line.includer, file)
                   THEN [with_main EXCEPT !.check_also = @ \cup {file}]
                   ELSE with_main
      is_prefix_header ==
        IF IsSpecialFilename(line.includer) THEN file # belonging.main_file
        ELSE belonging.iwyu_file_info_map[line.includer].is_prefix_header
  IN  [pp |-> [NoteReported(belonging, file) EXCEPT
                 !.iwyu_file_info_map[file].is_prefix_header =
                    @ \/ is_prefix_header],
       picker |-> named.picker]

FileChanged_ExitToFileOfAny(pp, exiting_from) ==
  [pp EXCEPT
     !.begin_exports_location_stack = IF @ = <<>> THEN @ ELSE Front(@),
     !.begin_keep_location_stack = IF @ = <<>> THEN @ ELSE Front(@)]

(* A scope that the file has left open ends with the file. *)
FileChanged_ExitToFile(pp, exiting_from) ==
  [pp EXCEPT
     !.begin_exports_location_stack =
        IF HasOpenBeginExports(pp, exiting_from) THEN Front(@) ELSE @,
     !.begin_keep_location_stack =
        IF HasOpenBeginKeep(pp, exiting_from) THEN Front(@) ELSE @]

ReportMacroUse(pp, used_in, defined_in) ==
  LET reported == IF ShouldReportIWYUViolationsFor(pp, used_in)
                  THEN Report(GetFromFileInfoMap(pp, used_in),
                              used_in, "macro_uses", defined_in)
                  ELSE pp
  IN  Report(GetFromFileInfoMap(reported, defined_in),
             defined_in, "macro_users", used_in)

-----------------------------------------------------------------------------
(* When all source is read. *)

(* A header that uses a macro of its includer, as X-macro files do, is     *)
(* kept by an includer that is analyzed, and private to any other.         *)
UsersOfOwnMacros(pp, file) ==
  LET info == pp.iwyu_file_info_map[file]
  IN  IF info.is_prefix_header THEN {} ELSE info.direct_includes \cap info.macro_users

KeepMacroUsers(pp) ==
  LET KeepUsers(file, info) ==
        IF ShouldReportIWYUViolationsFor(pp, file)
        THEN [info EXCEPT !.kept_includes = @ \cup UsersOfOwnMacros(pp, file)]
        ELSE info
  IN  [pp EXCEPT !.iwyu_file_info_map = [f \in DOMAIN @ |-> KeepUsers(f, @[f])]]

MarkMacroUser(pp, picker, file, includee) ==
  LET private_include == ConvertToQuotedInclude(includee, <<>>)
      quoted_file == pp.iwyu_file_info_map[file].quoted_file
  IN  IF Picker!IsPublic(picker, includee) \/ file = includee THEN picker
      ELSE Picker!MarkIncludeAsPrivate(
             Picker!AddMapping(picker, private_include,
                               Picker!MappedInclude(quoted_file, file)),
             private_include)

InOrder(files) ==
  FlattenSeq([i \in DOMAIN FileOrder |->
                IF FileOrder[i] \in files THEN <<FileOrder[i]>> ELSE <<>>])

HandlePreprocessingDone(s) ==
  LET left == FileChanged_ExitToFile(s.pp, s.pp.main_file)
      unreported == {f \in DOMAIN left.iwyu_file_info_map :
                       ~ShouldReportIWYUViolationsFor(left, f)}
      Finish(picker, file) ==
        LET Mark(p, includee) == MarkMacroUser(left, p, file, includee)
        IN  FoldLeft(Mark, picker, InOrder(UsersOfOwnMacros(left, file)))
  IN  [pp |-> KeepMacroUsers(left),
       picker |-> FoldLeft(Finish, s.picker, InOrder(unreported))]

(* The includes that only the finalized picker can tell to be protected. *)
FinalizeProtectedIncludesExclusive(pp, picker) ==
  LET Finalize(file, info) ==
        IF info.direct_includes \cap pp.always_keep_files # {}
        THEN [info EXCEPT !.include_uses =
                 @ \cup (info.direct_includes \cap pp.always_keep_files)]
        ELSE [info EXCEPT !.include_uses = @ \cup
                 {i \in info.direct_includes : Picker!HasMapping(picker, i, file)}]
  IN  [pp EXCEPT !.iwyu_file_info_map = [f \in DOMAIN @ |-> Finalize(f, @[f])]]

FinalizeProtectedIncludes(pp, picker) ==
  LET Reexported(file, includee) == Picker!HasMapping(picker, includee, file)
      Finalize(file, info) ==
        LET always == {i \in info.direct_includes \cap pp.always_keep_files :
                          ~Reexported(file, i)}
            reexported == {i \in info.direct_includes : Reexported(file, i)}
        IN  [info EXCEPT !.include_uses = @ \cup reexported \cup always,
                         !.kept_includes = @ \cup always]
  IN  [pp EXCEPT !.iwyu_file_info_map = [f \in DOMAIN @ |-> Finalize(f, @[f])]]

(* The search goes on from every file that it adds, but not from those     *)
(* that retval has already.                                                *)
AddAllIncludesAsFileEntries(pp, includer, retval) ==
  LET DirectIncludes(file) ==
        IF file \in DOMAIN pp.iwyu_file_info_map
        THEN pp.iwyu_file_info_map[file].direct_includes ELSE {}
      found[n \in Nat] ==
        IF n = 0 THEN DirectIncludes(includer)
        ELSE LET nearer == found[n - 1]
             IN  nearer \cup UNION {DirectIncludes(f) : f \in nearer \ retval}
  IN  retval \cup found[Cardinality(DOMAIN pp.iwyu_file_info_map)]

PopulateTransitiveIncludeMap(pp) ==
  [pp EXCEPT !.transitive_include_map =
     [f \in DOMAIN pp.iwyu_file_info_map |->
        AddAllIncludesAsFileEntries(pp, f, {f})]]

(* Each public header, and the headers that may be replaced by it. *)
PrivateHeadersBehind(pp, picker) ==
  LET PublicFiles(header) ==
        LET names == {c.quoted_include : c \in
              Range(Picker!GetCandidateHeadersForFilepath(picker, header, NoFile))}
        IN  {pp.include_to_fileentry_map[name] :
               name \in names \cap DOMAIN pp.include_to_fileentry_map}
      headers == DOMAIN pp.iwyu_file_info_map
  IN  [public \in headers |->
         {h \in headers : public # h /\ public \in PublicFiles(h)}]

(* What a file provides by its own includes, and as the include of a       *)
(* public header.                                                          *)
ProvidedByIncludes(pp, picker, file) ==
  LET direct == pp.iwyu_file_info_map[file].direct_includes
      files == DOMAIN pp.iwyu_file_info_map \ {SpecialFilename}
      public == {f \in files : Picker!IsPublic(picker, f)}
      Provide(provided, inc) ==
        IF Picker!IsPublic(picker, inc)
        THEN AddAllIncludesAsFileEntries(pp, inc, provided \cup {inc})
        ELSE provided \cup {inc}
      by_itself == IF file \in public THEN {file}
                   ELSE FoldLeft(Provide, {file}, InOrder(direct))
      by_public == IF \E p \in public : file \in pp.transitive_include_map[p]
                   THEN pp.transitive_include_map[file] ELSE {}
  IN  by_itself \cup by_public

(* Of two files with one name, by #include_next, each provides what both   *)
(* do.                                                                     *)
MergeSameName(pp, file, provide) ==
  LET other == FindInMap(pp.include_to_fileentry_map,
                         ConvertToQuotedInclude(file, <<>>), file)
      both == FindInMap(provide, file, {}) \cup FindInMap(provide, other, {})
  IN  IF other = file THEN provide
      ELSE (file :> both) @@ (other :> both) @@ provide

PopulateIntendsToProvideMapSharedBack(pp, picker) ==
  LET files == DOMAIN pp.iwyu_file_info_map
      private_headers_behind == PrivateHeadersBehind(pp, picker)
      provided == [f \in files \ {SpecialFilename} |->
                     ProvidedByIncludes(pp, picker, f)]
      Merge(provide, file) == MergeSameName(pp, file, provide)
      merged == FoldLeft(Merge, provided, InOrder(files))
      Share(provide, public) ==
        [f \in DOMAIN provide |->
           IF f # public THEN provide[f]
           ELSE provide[f] \cup UNION {FindInMap(provide, private, {}) :
                              private \in private_headers_behind[public]}]
  IN  [pp EXCEPT !.intends_to_provide_map =
                    FoldLeft(Share, merged, InOrder(files))]

PopulateIntendsToProvideMap(pp, picker) ==
  LET files == DOMAIN pp.iwyu_file_info_map
      private_headers_behind == PrivateHeadersBehind(pp, picker)
      provided == [f \in files \ {SpecialFilename} |->
                     ProvidedByIncludes(pp, picker, f)]
      Merge(provide, file) == MergeSameName(pp, file, provide)
      merged == FoldLeft(Merge, provided, InOrder(files))
      Share(provide, public) ==
        [f \in DOMAIN provide |->
           IF f \in private_headers_behind[public]
           THEN provide[f] \cup FindInMap(provide, public, {}) ELSE provide[f]]
  IN  [pp EXCEPT !.intends_to_provide_map =
                    FoldLeft(Share, merged, InOrder(files))]
=============================================================================
