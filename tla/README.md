# A TLA+ model of include-what-you-use

This directory holds TLA+ specifications of include-what-you-use (IWYU), the
TLC configurations that check them on small instances, and TLAPS proofs of the
main results for every instance. Paths like `iwyu_output.cc` are those of the
repository's root (`src/` in `PROJECT.json`).

IWYU is a Clang tool: while Clang preprocesses and parses one translation unit
it records which file includes which and which symbol is used where, then
decides for each analyzed file which `#include` lines and forward declarations
it should have. `iwyu_tool.py` runs it over a compilation database,
`fix_includes.py` applies what it prints. Almost all of the program's own
difficulty is in *order*: what is known about a header depends on which files
were read before, decisions made while reading are used after everything was
read, and a file's answer depends on the answers for its headers.

## 1. Inventory

| Component | State it keeps | Operations | Modelled by |
|---|---|---|---|
| Closure of mappings (`MakeMapTransitive`, `iwyu_include_picker.cc` 1345-1436) | the map being closed in place, `seen_nodes`, the recursion | enter a node, pass a child, expand and leave | `MapClosure` |
| Include picker (`iwyu_include_picker.{h,cc}`) | include and symbol maps, visibilities, friends, includes seen and how they were written | internal tables, mapping directives, `AddDirectInclude`, pragmas, `FinalizeAddedIncludes`, the candidate queries | `IncludePickerData`, `IncludePicker` |
| Mapping files (same source, 2173-2366) | search path, files being parsed | `AddMappingsFromFile` with `ref`, `include`, `symbol` | `LoadMapping` of `IncludePicker` only |
| Path utilities (`iwyu_path_util.cc`) | header search paths | `ConvertToQuotedInclude`, `GetCanonicalName`, classification of names | `PathUtil`, part of `PreprocessorData` |
| Regular expressions (`iwyu_regex.cc`) | - | match, replace in two dialects | by shape, in `IncludePickerData` |
| Preprocessor (`iwyu_preprocessor.{h,cc}`, `IwyuFileInfo::HandlePreprocessingDone`) | file infos, stacks of open pragma scopes, the pending `associated` pragma, always-kept files, `intends_to_provide_map_` and `transitive_include_map_` | Clang's callbacks (files entered, skipped, left; comments; macros), `HandlePreprocessingDone` | `PreprocessorData`, `Preprocessor` |
| AST visitors: responsibility (`iwyu.cc`, `IwyuBaseAstVisitor`, `IwyuAstConsumer`) | what is visited, the uses reported | one visit per kind of node; who includes a type: its user or the author of a typedef or function | `Types`, `TypeTraits`, `Responsibility` |
| AST visitors: templates (`InstantiatedTemplateVisitor`) and use caches (`iwyu_cache.{h,cc}`) | `traversed_decls_`, the resugar map, two `FullUseCache`s, their storers | scan a call or an instantiation, store what is found, replay it | `UseCache` |
| AST utilities (`iwyu_ast_util.cc`) | - | types through typedefs, components, conversions, definitions in sight | `Types`, parts of `TypeTraits`, `Responsibility`, `IwyuOutputData` |
| Output (`iwyu_output.cc`, `HandleTranslationUnit` of `iwyu.cc`) | per file: lines, uses, using-declarations, desired includes | report uses, `CalculateAndReportIwyuViolations` for the headers and then for the main file | `IwyuOutputData`, `IwyuOutput` |
| Choice of headers (`CalculateMinimalIncludes`, `iwyu_output.cc`) | uses without a header, desired headers | four passes, the last one a greedy cover | `HeaderCover`, `MinimalIncludes` |
| Locations, lexing (`iwyu_location_util`, `iwyu_lexer_utils`) | - | wrappers of Clang | not modelled |
| Driver, flags, globals (`iwyu_driver.cc`, `iwyu_globals.cc`, `iwyu_main.cc`) | flags (`--check_also` grows during a run), the global picker | `InitGlobals` | the order of the picker's phases, the flags that others ask for, the exit code |
| `iwyu_tool.py` | the list of invocations, running processes, exit code | `execute` | `IwyuTool` |
| `fix_includes.py` | records per file, lines of a file | parse and merge records, rewrite files | not modelled |
| Mapping generators, test harness | - | - | not modelled |

### How they interact

    Clang --callbacks--> Preprocessor --AddDirectInclude, AddMapping, marks--> IncludePicker
                              |  HandlePreprocessingDone
                              |----- FinalizeAddedIncludes -----------> MapClosure
                              |<---- HasMapping, candidates -----------
    Clang --AST--> visitors (Responsibility, TypeTraits) --uses--> IwyuOutput
                      |---- instantiations ----> UseCache --uses-----^   |
                                      candidates, intends-to-provide ----|
                                      MinimalIncludes <-- one file's uses
    iwyu_tool.py --processes, exit codes--> many of the above --text--> fix_includes.py

The picker is a *global*, built before Clang starts, written by the
preprocessor and mapping files, final only in the middle of
`HandlePreprocessingDone`, and read after that. The file infos are shared by the
preprocessor (which lines there are), the visitors (which uses) and the output,
which changes them while it works on one file and reads them for the next.

### What is hard, and what makes each part correct

* **Closure.** The recursion expands nodes in place while ancestors are looping
  over the same map, and mappings can be cyclic. Correct: it ends, it adds
  nothing that the mappings do not lead to, it is complete where there is no
  cycle, and a shared child is not mistaken for a cycle.
* **Picker.** Phases; keys computed by different calls must agree; the best
  candidate is the *first*; visibility may be told after the mapping. Correct:
  every public replacement is offered and no private one, re-exporting is
  transitive, friends get the header itself, order of preference survives.
* **Preprocessor.** Files nest, are skipped, or are read several times. A scope
  opened in a file must end with it; whether a file is analyzed is found out
  while it is read; what protects an include may only be known at the end.
  Correct: scopes stay with their file and export what they enclose, every
  associated header is analyzed, re-exporters keep what they re-export, prefix
  headers and provided headers are closed as the comments say.
* **Responsibility.** Two sides of a use are decided at two nodes by two pieces
  of code, in two runs of the program that see different files. Correct: a use
  is never left to an author who is not asked, and not asked of both.
* **Type traits.** Most compile whatever is included, and then have a wrong
  value. Correct: what is reported determines the value.
* **Templates and caches.** A search that may meet itself is interrupted by what
  it has passed and by what it has stored before. Correct: it ends, invents
  nothing, and what it stores is complete.
* **Output.** Each use may be satisfied by several headers, by an associated
  header, by a declaration somewhere; each of these may be about to be removed.
  Correct: after all edits, every file still sees what it uses, and has nothing
  without a reason, nothing twice.
* **Parallel tool.** Child processes exit at any moment. Correct: never more
  than `-j` processes, none lost and none reported twice, the exit code is the
  worst whatever the order, progress under any load.

`PROJECT.json` lists the hazards line by line, with the properties that would
catch each one going wrong.

## 2. The modules

| Module | Extends / instantiates | Contents |
|---|---|---|
| `MapClosure` | | depth-first search over an arbitrary relation between keys, with `Reaches` as the reference for what it should compute |
| `MapClosureProofs` | `MapClosure` | proofs |
| `PathUtil` | | quoted names of files |
| `IncludePickerData` | `PathUtil` | the picker's state as a record, one operator per method |
| `IncludePicker` | `IncludePickerData`, `INSTANCE MapClosure` | the picker's life: calls, finalization with vectors and loop positions, refinement of `MapClosure` |
| `IncludePickerProofs` | `IncludePicker`, `RecursionLemmas`, `INSTANCE MapClosureProofs` | proofs |
| `PreprocessorData` | `PathUtil`, `INSTANCE IncludePickerData` | the state of `IwyuPreprocessorInfo`, one operator per method |
| `Preprocessor` | `PreprocessorData`, `INSTANCE IncludePicker` | Clang's callbacks in the order Clang makes them, composed with the picker's finalization |
| `PreprocessorProofs` | `Preprocessor`, `RecursionLemmas`, `INSTANCE IncludePickerProofs` | proofs |
| `HeaderCover` | | abstract: uses without a header are given one that provides their symbol |
| `MinimalIncludes` | `INSTANCE HeaderCover` | the passes of `CalculateMinimalIncludes`; refinement of `HeaderCover` |
| `MinimalIncludesProofs` | `MinimalIncludes` | proofs |
| `IwyuOutputData` | | what is decided about one use: steps A, B, D, E |
| `IwyuOutput` | `IwyuOutputData`, `INSTANCE MinimalIncludes` | the file infos, the reports, the order of files, steps C, the lines, the exit code |
| `IwyuOutputProofs` | `IwyuOutput`, `RecursionLemmas` | proofs |
| `Types` | | types as written and through typedefs |
| `TypeTraits` | `Types` | what a type trait needs, and what it means |
| `Responsibility` | `TypeTraits` | visits that decide between user and author, over several translation units |
| `UseCache` | | scans of instantiated templates, and the caches |
| `UseCacheProofs` | `UseCache`, `RecursionLemmas` | proofs |
| `RecursionLemmas` | | facts about recursive functions on numbers and growing sets, proved from well-founded minima |
| `IwyuTool` | | `execute()` and its child processes |
| `IwyuToolProofs` | `IwyuTool` | proofs |
| `MC...` | the module of that name | small instances |

`PROJECT.json` ("map") gives the lines of each definition. Definitions keep the
names of the code. A definition whose name is that of its neighbour and a few
words more (`LeaveUnexpanded` before `Leave`) is a *faulty variant*: nothing
refers to it, and putting it in the place of its neighbour makes the property
fail that `PROJECT.json` ("mutants") pairs it with. That is how each property is
known to be able to fail.

### MapClosure

`filename_map`, `seen_nodes` and `node_stack` are those of the code, `unvisited`
is what is left of each active loop. Vectors are sets, the order of the search
is open: the results hold for every order, hence for the code's.
`declared` (the map before the search) and `cycle_found` are ghosts. An
action is one step of `MakeNodeTransitive`: a call down to its loop
(`EnterRoot`, `EnterChild`), a call that returns at once (`PassChild`), the end
of the loop (`Leave`).

### IncludePickerData and IncludePicker

A quoted include is a record of its form and its parts; what decides between
`<...>`, `"..."` and an absolute name is the search path, modelled by what
`ConvertToQuotedInclude` does: strip the first longest prefix that is a path of
the list, else the includer's directory, else keep it absolute.
A pattern is one of the shapes that mappings have (a given file, everything
below a directory, with or without a back reference); `RegexMatch` and
`RegexReplace` are defined for those. The maps hold sequences, because order is
preference and duplicates are possible.

`IncludePicker` has one action per call, in the phases of the program
(constructing, loading, preprocessing, expanding, closing, final), `ExpandRegex`
for an iteration of the loops of `ExpandRegexes`, and the search again with
sequences and a loop index. The CHECK_ in `MarkVisibility` stops the program:
`picker.aborted`. `Keys` are the names that the calls may lead to;
`KeysAssumption` says that they are: names given, names of the files, replacements of
patterns.

The refinement mapping forgets order and repetition. Its one difficulty is
`unvisited`: a vector may hold a name twice, the set of `MapClosure` holds it once and
loses it at the first. So `Ahead` is what the loop will come to and has not been past;
passing a repeated child is a stutter.

### PreprocessorData and Preprocessor

A method of `IwyuPreprocessorInfo` takes and returns the record of `pp` (its
members) and `picker`, so the order of its effects is that of the code. A
`FileEntryRef` is the path, a null one is `SpecialFilename`; a location is the
file it lies in. `file_info` records keep what is used later: direct includes,
associated, kept and protected includes, macro uses and users, prefix marks.

The environment is Clang's preprocessor: `include_stack`, and `Guard` that says
how a file is protected. A guarded file is skipped once Clang has seen its end
(`MustSkip`); *before* that, in a circular include, it is entered again and
nothing in it is live (`Push`) - the callbacks for entering and leaving it are
still made. `#pragma once` skips at once. The next line of a live file is any of
the given ones: conditional compilation may hide or repeat lines. The comment on
an `#include` line is handled before the file is entered (`Commented`).
`EndMain`, the picker's own actions and `PopulateMaps` are
`HandlePreprocessingDone`, in this order. `exported` is a ghost: the pairs of
files whose `#include` stood within an open `begin_exports`, in a file that its
first reading has not left, with no `keep` pragma and no `--keep` pattern that
goes first (`MaybeProtectInclude` asks for those before). The scope that counts is
the one after the comment on the line itself (`Scoped`).

`Insert` and `Assign` are `std::map::insert` and `map[key] = value`: the first
leaves an entry that is there, which is why a file that is read twice keeps its
info. The part of `IwyuFileInfo` in `HandlePreprocessingDone` is two definitions,
because its two branches write to different places: `KeepMacroUsers` (files that
are analyzed) and `MarkMacroUser` (others). `FilesAssumption` says what the
constants have to satisfy: the main file is a file, the special file name is
none, lines include files, comments are in files, and the buffer of predefined
macros has no comments. `Keys` are the names that the callbacks and the picker
may lead to, and `KeysAssumption` says that they are, as for the picker alone.

### HeaderCover and MinimalIncludes

`HeaderCover` says what the choice of headers may do, in whatever order: give
a header to uses that have none, one that provides their symbol, and leave it
with them. `MinimalIncludes` is `CalculateMinimalIncludes`: `pass` is one of its
loops - "easy" (uses that came with a header, uses with one candidate, private
headers the file re-exports), "present" (the file itself, what associated headers
will include, what the file includes), "needed" (candidates that became desired
for another use meanwhile), "cover" (a header that most of those left can be given, the one that is first in
most of their lists among equals; where the code then takes the alphabet, any
may win) - and `next_use` is its loop variable; an
action is an iteration. A use is the record of what the loops look at. The
refinement mapping reads `suggested_header_` as the header that was given.

### IwyuOutputData and IwyuOutput

Clang's AST is given: entities (classes, templates and their specializations,
functions, typedefs, using-declarations), and their declarations in files, with
lines. `tu` says what the translation unit includes, declares and uses, and
`flags` are those of the command line; both are chosen in Init. The picker is in
its final state, as the tables of its answers; what it does to reach that state
is the subject of `IncludePicker`.

`IwyuOutputData` has one operator per step of `ProcessForwardDeclare` (A1-A8)
and `ProcessFullUse` (B1-B8) with the names of the helpers they call, and the
judgement of `CalculateIwyuViolations` (D, E): whether a use is satisfied by
what the file has, and whether it is a violation.

`IwyuOutput` is the life of the file infos. Its phases:
"preprocess" adds lines for includes, "traverse" lines for the forward
declarations in the order of the text, "report" records the uses (any few
of the program's, in any order, in the file of the use), "choose" runs A and B
over the uses of the file that is next, "cover" is `MinimalIncludes` with the
same variables and then C, "judge" the loop over the uses, and then the flags of
the lines and the edits, "exit" computes the exit code. `InOrder` is
`HandleTranslationUnit`'s rule that the main file comes last; the others come in any
order. The first thing `CalculateAndReportIwyuViolations` does is to ask for the
desired includes of the associated headers, and the CHECK_ in `desired_includes()`
ends the program ("aborted", `FailCheck`) if one of them is not calculated yet.

The assumptions say what a program is. `FilesAssumption`: there are finitely many
files, each with a quoted name, which is not the empty one. `AnswersAssumption`: the
picker's answers are sequences of headers. `DeclsAssumption`: a declaration is on a line
of a file, and what is specialized is not itself a specialization.
`ProgramsAssumption`: the files to report have the main file and, with a file, its
associated headers (what `AssociatedHeadersAnalyzed` states of the preprocessor);
a use of a declaration is of one that the unit has, and a use without one (of a macro,
of a file) has the file where the macro is defined; and what C++ demands of the
declarations of a unit (`DeclaredAsNeeded`): a template is declared, and not just as a
friend, when it is specialized, an entity is declared before it is defined by a
qualified name, and what a using-declaration names is declared.
`ReportsAssumption`: the bound on reports is a number.

### Types, TypeTraits, Responsibility

A type is as it was written (`TypeInfo`): builtin, class, specialization with
its written arguments and those it needs complete, pointer, references, array,
pointer to member, typedef, alias template. `Types` has the two ways of looking
at it, and `Walk`, what `ReportTypeUse` strips before it comes to a class.

`TypeTraits` has two halves. `TraitNeeds` is `VisitTypeTraitExpr` with the
helpers for convertibility, construction, assignment and reference binding.
`TraitHolds` is an *independent* reference, written from the language's rules
and not from the code: the value of the trait for a compiler that sees the
definitions of a given set of classes. `IsDetermined` compares the value for
the classes that are reported with the value for all.

`Responsibility` runs the visits of three translation units one after another
and keeps what was reported: a header is analyzed only with its own source. A
text chooses which headers include the class's header and which have forward
declarations, and where. Visits decide as the author of a typedef
(`VisitTypedefNameDecl`), as the author of a function (`VisitFunctionDecl`, for
return types and for parameters with implicit conversions), and as users (calls,
conversions of arguments, constructions, variables, member accesses, casts,
operators, traits, `sizeof`, range-for, catch, delete, names not resolved before
instantiation; with uses in macros attributed to the macro's file). `dropped`
and `asked` are ghosts that note why a use was or was not left to an author.

### UseCache

A node is an instantiated function, class or variable; its body is what the
traversal of its AST comes across in order. `frames` is the recursion, each
frame with the storers that are open (`CacheStoringScope`): what is reported is
also noted in all enclosing ones (`NoteReportedType`, `NoteReportedDecl`).
`traversed_decls` grows when a node is entered and lives as long as a scan.
`Below` is the reference: what is used below a node, without any cache, by
following bodies as often as there are items. `affected`, `seen`, `tainted` are ghosts: which frames met a
node that was passed before they began, and the entries they left.

### IwyuTool

`execute()` with `jobs == 1` (serial) and otherwise the loop of poll, report,
schedule and sleep; `jobs` is chosen in Init from the set `Jobs`. Child
processes are an environment action `Exit` that may happen between any two
steps. Load averages are in units of `1/LoadUnit` so that the truncation to an
integer is visible. Two exceptions leave `execute()`: a failing `Popen`
(`RaiseOnStart`), and output that is not UTF-8 or a formatter's error
(`RaiseOnReport`). The latter comes when the process has been taken out of `pending`
and nothing of it has been printed (`iwyu_tool.py:420-421`).

## 3. What is checked

Passing runs (with the number of distinct states):

| Run | Instance | What it shows |
|---|---|---|
| `closure` (455 601) | every relation of up to 5 mappings on 4 keys, every order of the search | `Sound`, `CompleteAwayFromCycles`, `CycleFoundExactly`, `ClosingTerminates` |
| `picker_mappings` (83 203) | a library: private headers in a chain, a pattern, two headers that map to each other, a symbol, up to 5 calls | `BestStaysFirst`, `SymbolMapsClosed`, `PublicReplacementsOffered`, and that the picker implements `MapClosure` |
| `picker_project` (324 574) | a project: `internal/`, `asm-*`, exports, private and friend pragmas, a C header, two headers that re-export each other, up to 5 calls | `HasMappingTransitive`, `FriendOnSearchPathGetsHeader`, `FinalizationEnds` |
| `preprocessor_unit` (274 081) | a source, its header, a prefix header, two headers that include each other, a private library header; up to 7 lines and pragmas, depth 5 | `OneScopePerFile`, `ScopedIncludesExported`, `ReexportersKeepIncludes`, `AssociatedHeadersAnalyzed`, `PrivateProvidesWhatPublicDoes`, `PrefixHeadersClosed` |
| `minimal_includes` (77 897) | every list of up to three out of ten kinds of uses, in five situations of the file | `SuggestedIsDesired`, `DesiredHasUse`, `OnlyUnservedUsesAreCovered`, `NewHeaderIsSomeonesBest`, that it implements `HeaderCover`, `Terminates` |
| `output` (60 816) | six programs of `foo.cc` and `foo.h` with six more files, in one of which the header names another one as associated, any two reports in any order, three sets of flags, the files in any order | `UsesStillSeen`, `ForwardUsesDeclaredElsewhere`, `NoIncludeWithoutReason`, `NothingAddedTwice`, `FailsOnlyForPragmas` |
| `use_cache` (13 055) | eight nodes that call and contain each other, ten sites, up to three scans in any order | `NothingInvented`, `CompleteUnlessAffected`, `NoNodeWithinItself` |
| `responsibility` (45 281) | 258 texts of two headers and two sources around a class and a template, a third source that uses all of it, and every trait on every related pair of types | `DroppedUsesAreProvided`, `NotAskedTwice`, `UnitsAgree`, `TraitsAreDetermined` |
| `tool` (26 752) | 4 invocations, without `-j` and on two jobs, a load limit, loads below, near and above it, exceptions | `JobsBound`, `NothingLost`, `ResultIsWorst`, `NeverIdle`, `Terminates` |

What the properties of the newer modules say, in words:

* **minimal_includes.** A use is given a header that is then in the set
  (`SuggestedIsDesired`), for every header in the set there is a use
  (`DesiredHasUse`), and a header that is neither included nor brought along is
  taken only if it is the best candidate of some use - "IWYU should not suggest
  headers which aren't canonical for at least one symbol". The greedy cover gives
  headers only to uses that no header desired so far would serve
  (`OnlyUnservedUsesAreCovered`): every header of the earlier passes has to have
  been offered to every use by then, also those that became desired last.
* **output.** The properties speak of the files *after* all of them were edited
  as told. `UsesStillSeen` follows the remaining and added includes of all files
  and asks for the definition at the end; that headers lose includes while the
  file relies on them is the case it is for. `ForwardUsesDeclaredElsewhere` is
  the same for declarations that come before the use. `FailsOnlyForPragmas` says when
  the CHECK_ of `desired_includes()` fails: never for the headers that the
  preprocessor associates with the main file by name, in whatever order the
  files come.
* **tool.** `NothingLost`: a process that was started is pending or has been
  printed, never both. An exception loses the output of one process at most, which
  had exited; the others that were found complete with it stay pending.
* **use_cache.** Compared with `Below`, which knows no cache. What is stored is
  complete *unless* the search of the node met one that was passed before it,
  or a blocked type, or the entry of such a node (`CompleteUnlessAffected`).
* **responsibility.** `DroppedUsesAreProvided` compares what a user was relieved
  of in one run of IWYU with what an author was asked for in another.
  `TraitsAreDetermined` compares two formulations of each trait.

**Bounds.** Four keys hold a cycle with a tail into it and a branch out of it,
which is what tells a shared child, an unfinished child and a cycle apart; five
mappings give a cycle of three with two more edges. The picker's runs have one
header for each rule of `AddDirectInclude`, and enough calls for a pattern to
be expanded and re-exported twice; both have a cycle of mappings, in the project two
headers that export each other. The preprocessor's seven lines are what it
takes to read a header in two places (one of them circularly) inside an open
scope, with a macro use or an association after it. Three uses are the fewest
for which the greedy cover takes one header for two of them and a second for
the third, and for which counts and first places disagree. Two reports are the
fewest of which one makes a header desired that the other then uses, across the
two files or in one; the six programs have the declarations (later in the
file, in the source, in a header that loses its include, exported, inline,
`std`) for each step A and B, a header that is kept, and a header with an associated
header of its own, which may come before or after it. Three scans allow an entry to be stored by one,
used by the second while it is itself interrupted, and replayed by the third;
the eight nodes hold a cycle of three functions and a class with a member that
leads back to it. Three translation units are an author's, another author's
that sees the first, and a user's. In the tool four invocations on two jobs
keep work waiting while both jobs are taken, finish in any order, and are
refused by the load. Every action of the next-state relations occurs in some
passing run.

**Fairness.** IWYU is one thread without waiting, so weak fairness of the
search (`MapClosure`, `IncludePicker`) and of the loops of
`CalculateMinimalIncludes` (`FairSpec`) is its being run at all; it is not
assumed of the calls that are made to the picker in `MapClosure`. For
`iwyu_tool.py`: weak fairness of `execute` (the script keeps running; sleeping
is a step) and of each process's exit (every IWYU process ends). Nothing is
assumed of the load.

**Deadlock** is not checked: every one of the systems stops when its work is
done, when a CHECK_ has failed, or at the bounds.

### What comments and documents promise and the code does not keep

Three runs each end with a counterexample.

* `picker_friend` / `FriendRecognized`. The friends of a file are recorded under
  its name without an includer, and looked up under its name relative to
  itself. For a file on no search path these differ.
* `use_cache_replay` / `AnswerAlwaysSame`. `iwyu_cache.h:52` justifies the cache
  by "the answer is always the same for the given Decl (function call or class
  instantiation) with the same template args". Two templates call each other;
  the search that begins at one leaves the first out when it meets it in the
  second, and stores that for the second. A later call of the second replays
  the incomplete entry. The answer therefore depends on the order of the calls
  in the file. `CompleteUnlessAffected` is what holds.
* `responsibility_either` / `EitherUserOrAuthor`. A function takes `const Foo&`,
  its header only declares `Foo`, its own source does not include it either. The
  caller's file sees the definition and its converting constructor, finds that
  the author provides `Foo` and is relieved; in the author's own run there is no
  definition, hence no conversion, and the author is not asked.
  `docs/WhatIsAUse.md:235` says that one of the two must include it.
  `DroppedUsesAreProvided` is what holds: where the author's run does see the
  definition.

### Observations without a run

Met while modelling; the models do what the code does.

*Closure and picker.* With a→b, b→c, b→d, c→a a search that begins at a
leaves c without d, though the comment (`iwyu_include_picker.cc:1388`) promises
the closure of all reachable nodes; `CompleteAwayFromCycles` is what holds. The
branch for friends pairs the includee's quoted name with the *includer's* path
(2114), so the name it is already included by (2025) is not found; and a friend that
includes itself gets, in the place of the header's name, its own as it wrote it there. The mark that
should make `<built-in>` private is stored under `"<built-in>"` with quotes, a
key no lookup computes (1784). Expanding a pattern with a back reference can map
a header to itself, because identities are looked for before the replacement
(1938). The position of `internal/` is compared with 0, but the name begins with a
quote, so a relative `internal/` at its front is not private (1792); and only the first
occurrence of `internal/` is looked at, so that of `myinternal/internal/` is not either
(1790). In C++ mode all C headers are marked private behind `MarkVisibility`'s
back (1740), so a mapping file that maps to `<assert.h>` as public fails its
CHECK_ (1755).

*Preprocessor.* When a guarded header is entered again circularly, the end of
this empty reading closes the `begin_exports` of the first one
(`iwyu_preprocessor.cc:889`); `ScopedIncludesExported` exempts the rest of that
scope, and a program that the CHECK_ of `MarkVisibility` has ended
(`iwyu_include_picker.cc:1755`), maybe in the middle of a line. Macro uses of a header that is found to be associated only later are lost
(922). The set that guards `AddAllIncludesAsFileEntries` against cycles is also
its result and is not empty when it is called, so what a public header brings
only through an include that is already in it is left out (955, 983). An
`associated` pragma with no `#include` after it stays pending and makes later
ones void (341). An `#include` that is both kept and exported is not recorded as
exported (472-483). An export is recorded also under the name as written, which
another file may use for another header (493).

*Output.* A forward declaration that an associated header has is relied on
though that header may be told to remove it (`iwyu_output.cc:1697`);
`ForwardUsesDeclaredElsewhere` exempts it. Lines of forward declarations are
looked up by the exact declaration in one place and by the canonical one in
another (1985). Edits are counted while they are printed, so `--error` with
`--verbose=0` exits with 0 (2290, `iwyu_globals.cc:125`). A header that names
another one as `associated` may be handled before it, which fails the CHECK_ of
`desired_includes()` and ends the program (`iwyu_output.h:359`): the loop over the
files (`iwyu.cc:4935`) puts only the main file last, the others in the order of the set.
One program of the run does this; in one order it ends, in the other the header
inherits the includes. The same happens to a file that a pragma associates with
itself, which the heuristic by name takes care not to do (`iwyu_preprocessor.cc:611`)
and the pragma does not (633-645).
When a use's header comes through an associated header, the line that would add it
is taken back (2061-2071); but if the header that *declares* the symbol is included
with a `keep` pragma, that line becomes desired again (2078-2083), though it is for
another header - the declaring header is private, say, and the line names its public
replacement. The header is then added to both files; `NothingAddedTwice` exempts it.
`public_headers_` of a use is computed once, before its kind may change.

*Templates and traits.* A replay checks for providers with a shorter path than
the search had; blocked types and forward-declare contexts are no part of the
key (TODO, `iwyu_cache.h:72`). Explicit instantiations are reported without being
stored. A class a scan begins with is not marked as traversed. The spaceship
traits ask for a tag type as written, not through typedefs (`iwyu.cc:2735`), and
an array of unknown bound is recognized as written only (2091).

## 4. What is proved

All proofs are for every value of the constants, from the assumptions on the
constants that the module states (`MapClosure` has none, also `Keys` may be
infinite; `IwyuTool` has `ConstantsAssumption`; `MinimalIncludes` has
`HeadersAssumption`, `UsesAssumption` and `SituationsAssumption`: the empty name
is no header, and the uses and files are records of that kind; `UseCache` has
`FinitenessAssumption`, `NodesAssumption`, `TypesAssumption` and
`SitesAssumption`: there are finitely many nodes, types and declarations, what is
below a node consists of items for them, a canonical type is its own canonical
type, and a resugar map spells a type in another way, as the same type;
`Preprocessor` has `FilesAssumption` and `KeysAssumption`; `IwyuOutput` has
`FilesAssumption`, `AnswersAssumption`, `DeclsAssumption`, `ProgramsAssumption` and
`ReportsAssumption`, which section 2 spells out; `IncludePicker` has `KeysAssumption`: there are finitely many
names, and the calls lead to no others, and `FriendsAssumption`: friends are
patterns, since `AddFriendRegex` puts an `@` before what the pragma says).

**MapClosureProofs.** `TypeCorrect`, `SoundAlways`, `CompleteWithoutCycles` and
`CyclesFoundExactly` follow from `InductiveInvariant`. Neither soundness nor
completeness is inductive by itself: that a key is complete when it is left
depends on its children having been complete, which depends on why the loop got
past each of them. The invariant therefore says what is known of each status:

* `StackInv`: exactly the keys being calculated are on the stack, none twice, and
  each leads to all above it;
* `UntouchedInv`: a key that is not done still has what was declared;
* `PassedInv`: a child that a loop is past is done, or leads back to the key (it
  was met on the stack) - the heart of the matter: away from cycles the second
  case is impossible, so all children are done;
* `ClosedInv`: away from cycles the values of a done key are closed under the
  declared mappings, hence all that is reachable;
* `CycleInv`: a reported cycle is one; and while none was reported, done keys
  hold done keys only and not themselves.

Reachability is the least set closed under the mappings (`Reaches`), so
its lemmas (`ReachesChild`, `ReachesTransitive`, `ReachesInside`) need no
induction on paths.

**IncludePickerProofs.** The five invariants of the picker and its refinement of
`MapClosure`, for any tables, directives, includes and pragmas, in any order that the
program's phases allow.

*The invariant.* `IInv` follows the life of the picker. Before "closing" every call
may only add to the maps; for each method there is a lemma that it does so and keeps
the rest (`Grows`, proved from the innermost methods outwards: `MarkVisibilityGrows`,
`AddMappingGrows`, ... `AddDirectIncludeGrows`, `ExpandIncludeRegexGrows`). From
"closing" on, `LoopsOK` says that the calls of `MakeNodeTransitive` under way are for
different keys, which are `kCalculating`, each at an index of its own vector; and
`PassedOK` that a child that a loop is past is done, or was being calculated and a
cycle was noted. `BestOK` is `BestStaysFirst` while the search goes on. It is preserved
because `ExpandOnce` puts each node before its children and keeps the first of each
name (`ExpandOnceAddsChildren`, `FirstOfEachKeepsNames`).

*The refinement.* `Refinement` is `Spec => Closure!Spec`. Before the closing, calls
add mappings or stutter; the steps of the search map to the same steps over sets, which
rests on `PassedOK` (a child that comes up again is passed again, not entered again) and
on `UnvisitedOK`, a consequence of `IInv`. `IncludePickerProofs` instantiates
`MapClosureProofs` under the same mapping, so soundness and completeness of the search
carry over to vectors without another proof (`ClosedCompletely`,
`NothingInventedNorLost`). The properties speak of `LeadsTo`, which follows the
mappings step by step as often as there are keys, and is what TLC can evaluate;
`MapClosure` speaks of the least closed set. `LeadsToReachable` shows that they are the
same, with `GrowthStops` of `RecursionLemmas`. `ClosedInTheEnd` puts it together: the
final map of a key is what the key leads to, if no cycle is on the way.

*What follows.* From that theorem and what is done in the last steps:
`HasMappingComposes`; `SymbolsClosed`, with `SymbolsExpandedAlways`, that a symbol's
headers are some headers and what the closed map has for each; `PublicOffered`, with
the lemma `PublicValuesAre` about the query. `FriendGetsHeader` has nothing to do
with closing. Its invariant `FriendsOK` says that for each include and each friend
pattern it matches, either the pair is still to be expanded or the friends of the
pattern are friends of the include. It is inductive because no include is itself a
pattern (`SeenIsNoPattern`), so expanding a pattern never adds to what another pattern
gives. `IInv`, `UnvisitedOK`, `Closed`, `SymbolsExpanded` and `FriendsOK` were checked
by TLC on both instances of the picker before they were proved.

Two of the properties were too strong as the runs had them, and neither instance showed
it. An earlier `SymbolMapsClosed` asked that whatever is offered for a symbol
is closed under `LeadsTo` if it is itself away from cycles. With a→b, b→a, a→x, x→y and a
symbol mapped to b, the search that begins at a expands b when a is not yet done; b then
has x and not y, and the symbol gets x without y, though x is on no cycle. The property
now also exempts what is offered only for the sake of a header on a cycle.
`FriendOnSearchPathGetsHeader` did not exempt a friend that includes itself (see the
observations on 2114).

**MinimalIncludesProofs.** `CoverInv` is the conjunction of `TypeOK`,
`SuggestedSoFar` and `DesiredHasUse`, and is inductive.
`SuggestedIsDesired` speaks of the time after the first pass, and within that
pass holds only for the uses that the loop is past: `SuggestedSoFar` says so, and
is what the step to the next pass needs. `DesiredHasUse` is preserved because
headers are given only to uses that have none: no pass takes one away again.
From the invariant follow `TypeCorrect`, `SuggestedIsDesiredAlways`,
`DesiredHasUseAlways` and the action property
`NewHeaderIsSomeonesBestAlways`, whose step for the greedy cover is that a header
of `HeaderCounts` comes first for some use.

`OnlyUnservedUsesAreCoveredAlways` has an invariant of its own, `UnservedSoFar`: a
use without a header that the third pass is past, or any such use in the cover, has
no candidate among the desired headers. In the third pass that holds because a use
without a header is given a desired one if there is one (`NeededPickMisses`), and
nothing new becomes desired meanwhile; in the cover because a new header goes at once to
all uses it would serve.

`Refinement` is `Spec => Promise!Spec`: initially no use has been given a header it
does not come with, and each action either gives a header to uses that wait and are
provided by it, or leaves `given` and `provides` alone. That a pick is one of the
candidates (`FirstInChosen`, `PickProvides`) rests on `LeastIndex`, the well-ordering
of the naturals.

**IwyuToolProofs.** `SchedulerInvariant` gives `SchedulerTypeCorrect`,
`AtMostJobs`, `EveryProcessAccountedFor`, `ReturnsWorst` and `WorkWhileLeft`. It
adds to those properties what is known at each place in `execute()`
(`ControlOK`), that exactly the exited processes have a code (`ExitsOK`), and
that `exit_code` is the worst of those reported so far (`WorstSoFar`); the lemma
`WorstOfOneMore` is the fact about `worst_exit_code` that makes the order of
completion irrelevant, `CapacityBounds` and `SlicedBounds` the facts about the
room for new processes. As long as nothing was raised, every process started is pending
or printed (`Accounted`); the exception that is raised while a process is reported then
takes away that one only (`RaiseOnReportKeepsIInv`).

**UseCacheProofs.** The properties compare a search that is cut short - by nodes
passed before, by entries of the cache, by frames left and stored - with `Below`,
which searches everything. Three steps lead there.

*What `Below` is.* `BelowIsLeastClosed`: the set that `After` does not lead out of
and that is within any other such. `Below` is a recursive function on the
naturals, iterated as often as there are items, so this needs that the recursion
has a solution (`Recursion`), that a set which grows within a finite one stops
growing in so many steps (`GrowthStops`), and induction (`Induction`). The
library's theorems for these take operators as parameters, which the provers
cannot instantiate; `RecursionLemmas` states them for sets and functions and
proves them from `WFMin`, the existence of minima. `Uses` is what `Below` amounts
to in the form in which entries are replayed; it is a union over items
(`UsesOfEach`) and `UsesOfItem` unfolds one item - the two facts by which the
search item by item is related to the whole.

*The invariant.* `IInv` has, besides types and the place of the first item,

* `NodesOnce`: frames are of traversed nodes, hence none twice;
* `CacheSound`, `ScanSound`: the uses of an entry are those of its node; whatever
  a frame has stored, and whatever the frames above it have left to search, is
  used by the node the frame is for;
* `CacheComplete`, `ScanComplete`, `ResultsComplete`: for a frame that is not
  affected there is a set `done` of items already searched, such that what comes
  after them is in `done` or is left to search, and what they use directly is
  recorded or used directly by what is left; and every node that was traversed
  since the frame began is in `done`. When nothing is left, `done` is closed, so by
  the first step all of `Below` is in it, and all that is due is recorded.

`done` is not a variable: a node that was passed is the reason why an item could
be dropped, and which items that were depends on the whole history. The invariant
only says that there is such a set, and each action gives the next one. Its last
part, `traversed_decls \ seen[i]` within `done`, is what makes skipping a node
harmless to the frames that began before the node was traversed, and is the very
thing that fails for the others, the *affected*. `IInv` was first checked by TLC on the
instance of `MCUseCache`, with the largest set for `done`.

*The steps.* An action that consumes an item does three things: it replaces the
item by others, tells the storers, and reports (`Handled`, `Handles`).
`HandlingPreserves` shows once that this preserves the invariant if what comes in
and what is told is used by the item (`Justified`) and nothing is missed (`Finds`,
for which `Covers` is a condition that looks at few items). Entering a node
(`BeginningPreserves`), leaving one (`LeavePreserves`), replaying
(`ReplayPreserves`), starting and ending a scan complete the list. Replaying is the
interesting case: an untainted entry stands for all of the items below the node, so
`done` grows by all of them at once.

**PreprocessorProofs.** A callback changes the record of the preprocessor
through a chain of up to a dozen methods, most of which the properties are not
about. So the first half of the module are lemmas about these methods, one each,
that say what they leave alone: `SameInfos` (which files are known, what each
includes, is associated with, and whether it is a prefix header) and
`SameOutside` (all other members but the ones given). They add up to
`LineRead`: what one `#include` line does, whether the file is entered or skipped.

`AssociatedHeadersAnalyzed`, for any files and lines. A file is analyzed from the
moment that a header of that name is noted, and `AddDirectInclude` notes a header
*after* it has associated it; `AssociatedReported`, and that nothing is ever taken
out of the files to report, carries it over all other callbacks. `IInv` adds the
types and `MainFileFirst`: until the main file has been entered nothing is known,
which is what makes the includer of every line a file that has an info.

`OneScopePerFile`, under the hypothesis `IncludesGuarded`: every file that is
included has an `#ifndef` guard or `#pragma once`. The property says only that the
owners of scopes are on the include stack; that is not inductive, since the end
of a file closes the *topmost* scope, if it is the file's. `ScopesInv` says that
scopes are ordered as their files are on the stack (`Nested`), and that a file is
live on it only once (`LiveOnce`): then the scope of a file that ends is the topmost
one, so it is closed and no scope outlives its file. Without the hypothesis the property is false: an unguarded
file that is included again within itself opens a second scope, and the comment at
`iwyu_preprocessor.h` that the property quotes does not hold.

`PrefixHeadersClosed`, under `IncludesGuarded` and `MainNotIncluded`: no file
includes the main file. A file becomes a prefix header when it is entered from a
prefix header or as one of those that the command line names, or as the first
that the main file includes under `--pch_in_code`. A header that is only skipped
becomes none otherwise, so a prefix header that includes a header read before
would break the property. The invariant says why that
cannot happen: prefix headers are read before anything else. While a live frame
of the stack is a prefix header's, or the main file has not yet included anything
(`PrefixFirst`, `PrefixAllTheWay`), all headers known so far are prefix headers
(`AllPrefix`). Both hypotheses are needed: an unguarded prefix header that the
source includes again may by then include, through conditional compilation, headers
that are none, and a prefix header that includes the main file includes a file that
is none. The instance of `MCPreprocessor` satisfies both; `IInv`, `ScopesInv` and
`PrefixInv` were checked by TLC on it before they were proved.

*The preprocessor and the picker together.* The second half of the module is about
what the preprocessor tells the picker. `PickerProofs` is `IncludePickerProofs` for
the picker inside the preprocessor, with the calls that callbacks may make. Its
`PickerInv` is the invariant of the picker and that of the search by which it closes
its mappings (`MapClosureProofs`), which reaches the preprocessor through the
refinement. `CallKeeps` (calls that only add keep `PickerInv`) and `StepKeeps` (a step of
the finalization does) are all that the composition needs of it. One lemma for each
method shows that what it tells the picker only adds (`Extends`): no mapping is taken
back. `StillReading` says that nothing is told any more once the finalization has
begun. From this follow three theorems.

* `GlobalPickerInvariant`, with no hypothesis: in every state `PickerInv` holds of the
  picker that the preprocessor drives, so what is proved of the picker for arbitrary
  calls holds in the program.
* `ReexportersKeepIncludesAlways`, with no hypothesis. The property speaks of all
  that the mappings declared while reading lead to, `FinalizeProtectedIncludes` asks
  the closed map. That it gives the same away from cycles is the completeness of the
  closure (`KeptAndClosed`). The rest is that `PopulateMaps` keeps what was
  protected, and that nothing but `PopulateMaps` ends the preprocessing
  (`NotDoneYet`).
* `ScopedIncludesExportedAlways`, under `IncludesGuarded`. That a line is mapped
  depends on the scope that `HasOpenBeginExports` finds, which is the topmost one
  only. `ExportsOpen` says that a frame whose lines are to be exported is live, and
  that its file has an open scope; with `ScopesInv` that is the topmost one.
  `ExportedGiven` says that the lines written there were declared as mappings while
  files were read. That the expansion and the closing of the maps lose none of them
  is `FinalizationKeeps` and, at each time, `KeptAndClosed`.

The first attempt at the last proof showed three mistakes in the ghost of the model,
none of which the run's programs could reach. A line with `--keep` is not
exported, as one with `keep` is not; a comment `begin_exports` on the line of an
`#include` counts for that line already; and after the CHECK_ of `MarkVisibility` no
mapping is added any more. They are corrected.

**IwyuOutputProofs.** The theorems are about all programs, also those in which
pragmas give associated headers to any file. `OrderOK` says that the main file waits as
long as any other does; that a file that does not wait was calculated or is the current
one in its phase "cover"; that all its associated headers were calculated before it
(`AssociatedCalculated`); and that neither a file that waits nor one in "cover" has been.
`FailsOnlyForPragmasAlways` follows: an associate that is not calculated when the check
is made is one that waits, so when the main file is alone in waiting it can only be the
main file.

`NothingAddedTwice` needs what is known of the lines of a file at three times.
While it waits or is worked on, all its lines are of the text (`Fresh`): nothing is added
before the flags of the lines are decided. Deciding them adds lines for uses, and an added line
differs from each line before it, in header or declared entity (`AddedOnce`, by
`WithUsesReflectedOnce`, an induction over the uses). And of the lines added, none that
is desired has a header that the associated headers are told to have, unless it is kept
(`OnlyIfKept`). That last part speaks of *other* files' desired includes, so it
holds at a later time only because those do not change any more: they were calculated
before (`OrderOK`, for which the CHECK_ is needed), so none of them is the file that is
being worked on (`DoneFilesDoNotInherit`).

An earlier version of the property did not exempt kept lines, and TLC found nothing wrong
with it, since no program of the run had a kept header. The proof got stuck at
`IsKept`, and the program that shows why is now one of the run's (`Kept`).

`NoIncludeWithoutReason` follows an include back from the line that is printed to the use
that calls for it, through every step in between. `Reasons` are the headers
that the symbols of a file can come from: the quoted names of the files with their
declarations, what the picker answers for them, and the names of associated headers.
A use is `Explained` by some declarations and headers if it is of one of those declarations
(or of none) and all the headers in it - public headers, the one suggested - are among
the headers. The invariant, `ReasonsInv`, is `IInv` and three more parts:

* `UsesOK`: the recorded uses of a file that waits are explained by its reasons -
  while uses are reported, by what has been reported so far, and once the analysis has
  begun also by the targets of the using-declarations that nothing refers to, which
  `ResolvePendingAnalysis` then adds;
* `WorkOK`: the same for the uses that are worked on. Steps A to E may replace the
  declaration of a use (by a redeclaration, by its definition, by the template), turn a
  full use into a forward use and back, and suggest headers; there is one lemma
  for each step (`...Explained`), and `StandsFor` says which declarations can replace which.
  Once step C is done, a use that is not ignored has a header or a declaration
  (`Settled`): otherwise the lines would get an include of nothing;
* `DoneOK`: the lines of a calculated file have reasons. They are those of the
  uses, by `SetDesiredIncludesExplained` and `FinishedHaveReasons`, and stay.

That a use can be followed at all rests on `DeclaredAsNeeded`: a redeclaration is
found where one exists. The attempts corrected the property twice, and the model once. The
property left out the canonical header of a public one, the file of a macro that
the picker has no answer for, and uses that come from definitions by a qualified name
(all of them reasons in the code); and it accepted the headers of related entities (every
specialization of a template that is used), where it now accepts those of the symbols
that the file uses. In the model, the header suggested for a
forward use, when several headers with the definition are desired, was any of them; the
code's loop keeps the last (`DesiredHeader`, `iwyu_output.cc:1661-1685`).

TLC also checked `IInv` and `ReasonsInv` on the run's programs.

**Only model-checked.** Termination and progress (liveness is outside of the
prover's reach), so `FinalizationEnds`, `ClosingTerminates` and `Terminates`; of the
preprocessor, `PrivateProvidesWhatPublicDoes` (it speaks of the result of the
searches that build the map of what a file provides, which start from sets that are
not empty); of the output,
`UsesStillSeen` and `ForwardUsesDeclaredElsewhere`, which speak of what all files
together still include when the last one is done, so that each file's result has to be
related to the removals in every other; the four properties of the responsibility for types and
of type traits: they relate the visits of several translation units, over types that
are defined by recursion on what they are made of, and no invariant for them has been
worked out yet.

## 5. What is not modelled, and why

* `fix_includes.py`: a text rewriter. What is hard in it is to recognize lines of
  C++, which a model over abstract lines would assume.
* The reader of mapping files: YAML, `ref`, the search path, errors in the
  middle of a file. The picker begins with any set of directives loaded.
* The traversal of Clang's AST: which nodes there are, their parents, what is
  implicit. A model begins at the `Visit` and `Handle` methods.
* In `Responsibility`: enumerations, uses of members of class templates,
  destructors and constructors of members, using-shadow declarations, elaborated
  specifiers, default template arguments, `decltype`, placement new, variadic
  constructors, the mapping of private declarations to public ones, parameters
  provided by template arguments (so the second half of
  `SourceOrTargetTypeIsProvided`, `iwyu.cc:5858`), headers that `IsDirectlyIncluded` finds
  through a mapping; hints of function templates only in part. The declaration
  a call resolves to is any one in sight.
* In `TypeTraits`: conversions by way of a third type (a TODO of the code,
  `iwyu.cc:2245`), compatibility of C types, class hierarchies that the unit does
  not define. Unary traits that need just their argument are one case.
* In the output: sorting, wording and grouping of lines, comments, barriers.
* The contents of the built-in mapping tables: a constant sequence.
* The spelling of paths (`NormalizeFilePath`), of regular expressions, of
  comments and of printed text: a path is its components, a pattern its shape, a
  pragma its kind and argument.
* In the preprocessor: the source ranges of scopes that forward declarations
  look up, line numbers (an include is a pair of files), macro bodies (a use in a
  body is a use), modules, and files from standard input.
* In `iwyu_tool.py`: reading and slicing the compilation database, formatters.
* Locations and lexing, the generators of mappings, the test harness.

## 6. Plan

Done, in this order: `MapClosure` and its proofs; `IncludePickerData` and
`IncludePicker`; `IwyuTool` and its proofs; `PreprocessorData` and
`Preprocessor`; `HeaderCover`, `MinimalIncludes` and its proofs;
`IwyuOutputData` and `IwyuOutput`; `UseCache`; `Types`, `TypeTraits` and
`Responsibility`; the proofs of `UseCache`, of `Preprocessor`, of
`IwyuOutput` and of `IncludePicker`, with its refinement of `MapClosure`; the proofs
of `Preprocessor` and the picker together.

What would come next:

1. `PrivateProvidesWhatPublicDoes` of the preprocessor, and `UsesStillSeen`
   and `ForwardUsesDeclaredElsewhere` of the output, for all constants.
2. `NotAskedTwice` of the responsibility for types, for all constants.
3. `Preprocessor` and `IwyuOutput` in one specification: today the output's
   programs give the final answers of the picker as tables.
4. `MappingFiles`: `AddMappingsFromFile` with `ref` directives and errors.
5. The visitor's rules for enumerations and for members of class templates.
