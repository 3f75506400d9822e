---------------------------- MODULE IncludePicker ----------------------------
(***************************************************************************)
(* The life of the global IncludePicker: it is built with the internal     *)
(* mappings, given the mapping files, told of #includes and pragmas while  *)
(* the preprocessor runs, and then finalized: patterns are expanded for    *)
(* the includes that were seen, and the include mappings are closed        *)
(* transitively.  Only then is it asked for headers.                       *)
(*                                                                         *)
(* The calls it may get are constants: sets of the records that the        *)
(* methods of IncludePickerData take.                                      *)
(***************************************************************************)
EXTENDS IncludePickerData, Functions

CONSTANTS
  InternalMappings,  \* sequence of include mappings: the built-in tables
  CHeaders,          \* the keys of stdlib_c_include_map, in C++ mode
  IncludeMappings,   \* "include" directives of mapping files
  SymbolMappings,    \* "symbol" directives of mapping files
  DirectIncludes,    \* #includes: [includer, includee, as_written, export]
  PrivateIncludes,   \* "private, include" pragmas: [path, suggested]
  PrivatePaths,      \* files with a "private" pragma
  Friends,           \* "friend" pragmas: [path, pattern]
  MaxCalls,          \* bound: how many of the calls above are made
  Keys               \* every include and pattern that the calls may lead to

NameOf(path) == ConvertToQuotedInclude(path, <<>>)

(* Every name that a call gives, or that a pattern is replaced by, is a    *)
(* key.                                                                    *)
ASSUME KeysAssumption ==
  /\ IsFiniteSet(Keys)
  /\ InternalMappings \in Seq(Range(InternalMappings))
  /\ \A m \in Range(InternalMappings) \cup IncludeMappings :
        m.from \in Keys /\ m.to \in Keys
  /\ \A m \in SymbolMappings : m.to \in Keys
  /\ \A i \in PrivateIncludes : NameOf(i.path) \in Keys /\ i.suggested \in Keys
  /\ \A i \in DirectIncludes :
        /\ NameOf(i.includer) \in Keys /\ NameOf(i.includee) \in Keys
        /\ i.export => i.as_written \in Keys
        /\ IsAsmHeader(NameOf(i.includee)) => AsmName(NameOf(i.includee)) \in Keys
        /\ \A pattern \in {k \in Keys : IsPattern(k)}, target \in Keys :
              RegexMatch(NameOf(i.includee), pattern) =>
                 RegexReplace(NameOf(i.includee), pattern, target) \in Keys

(* AddFriendRegex puts an "@" before what the pragma says. *)
ASSUME FriendsAssumption == \A f \in Friends : IsPattern(f.pattern)

VARIABLES
  phase,         \* which part of the picker's life
  picker,        \* the state of the IncludePicker
  num_calls,     \* bounded by MaxCalls
  to_expand,     \* the iterations of ExpandRegexes still to come
  seen_nodes,    \* TransitiveStatus of the keys met; kUnused if absent
  loops,         \* MakeNodeTransitive's calls under way: [key, next child]
  declared,      \* ghost: filepath_include_map as the closing found it
  cycle_found    \* ghost: a call returned because of kCalculating

vars == <<phase, picker, num_calls, to_expand, seen_nodes, loops, declared,
          cycle_found>>

closing_vars == <<seen_nodes, loops, cycle_found>>

include_map == picker.filepath_include_map

-----------------------------------------------------------------------------
Init ==
  /\ phase = "constructing"
  /\ picker = EmptyPicker
  /\ num_calls = 0
  /\ to_expand = {}
  /\ seen_nodes = <<>>
  /\ loops = <<>>
  /\ declared = <<>>
  /\ cycle_found = FALSE

(* AddInternalMappings adds the entries of its tables one by one. *)
AddInternalMapping ==
  /\ phase = "constructing"
  /\ num_calls < Len(InternalMappings)
  /\ picker' = AddIncludeMapping(picker, InternalMappings[num_calls + 1])
  /\ num_calls' = num_calls + 1
  /\ declared' = picker'.filepath_include_map
  /\ UNCHANGED <<phase, to_expand, closing_vars>>

EndConstructor ==
  /\ phase = "constructing"
  /\ num_calls = Len(InternalMappings)
  /\ picker' = ForcePrivate(picker, CHeaders)
  /\ phase' = "loading"
  /\ num_calls' = 0
  /\ UNCHANGED <<to_expand, closing_vars, declared>>

(* One call of a method that changes the picker. *)
Call(during, changed) ==
  /\ phase = during
  /\ ~picker.aborted
  /\ num_calls < MaxCalls
  /\ num_calls' = num_calls + 1
  /\ picker' = changed
  /\ declared' = picker'.filepath_include_map
  /\ UNCHANGED <<phase, to_expand, closing_vars>>

LoadMapping ==
  \/ \E m \in IncludeMappings : Call("loading", AddIncludeMapping(picker, m))
  \/ \E m \in SymbolMappings : Call("loading", AddSymbolMapping(picker, m))

StartPreprocessing ==
  /\ phase = "loading"
  /\ ~picker.aborted
  /\ phase' = "preprocessing"
  /\ UNCHANGED <<picker, num_calls, to_expand, closing_vars, declared>>

SeeInclude ==
  \E i \in DirectIncludes :
     LET added == AddDirectInclude(picker, i.includer, i.includee, i.as_written)
     IN  Call("preprocessing",
              IF i.export
              THEN ExportInclude(added, i.includer, i.includee, i.as_written)
              ELSE added)

SeePragma ==
  \/ \E i \in PrivateIncludes :
        Call("preprocessing", PrivateInclude(picker, i.path, i.suggested))
  \/ \E path \in PrivatePaths :
        Call("preprocessing", MarkPathAsPrivate(picker, path))
  \/ \E f \in Friends :
        Call("preprocessing", AddFriendRegex(picker, f.path, f.pattern))

(* FinalizeAddedIncludes begins: the patterns are taken from the maps, and *)
(* are to be tried on every include that was seen.                         *)
StartExpanding ==
  /\ phase = "preprocessing"
  /\ ~picker.aborted
  /\ phase' = "expanding"
  /\ to_expand' = picker.quoted_includes \X
        ( {<<"include", k>> : k \in {x \in DOMAIN include_map : IsPattern(x)}}
          \cup {<<"friend", k>> : k \in DOMAIN picker.friend_to_headers_map} )
  /\ UNCHANGED <<picker, num_calls, closing_vars, declared>>

(* One iteration of the loops of ExpandRegexes.  The code goes through the *)
(* includes and the patterns in the order of their spelling.               *)
ExpandRegex(hdr, kind, pattern) ==
  /\ phase = "expanding"
  /\ ~picker.aborted
  /\ <<hdr, <<kind, pattern>>>> \in to_expand
  /\ picker' = IF kind = "include" THEN ExpandIncludeRegex(picker, hdr, pattern)
                                   ELSE ExpandFriendRegex(picker, hdr, pattern)
  /\ to_expand' = to_expand \ {<<hdr, <<kind, pattern>>>>}
  /\ declared' = picker'.filepath_include_map
  /\ UNCHANGED <<phase, num_calls, closing_vars>>

StartClosing ==
  /\ phase = "expanding"
  /\ ~picker.aborted
  /\ to_expand = {}
  /\ phase' = "closing"
  /\ UNCHANGED <<picker, num_calls, to_expand, closing_vars, declared>>

StatusOf(key) == FindInMap(seen_nodes, key, "unused")

(* MakeNodeTransitive(key) for an unused key, up to its loop. *)
Enter(key) ==
  /\ StatusOf(key) = "unused"
  /\ IF key \notin DOMAIN include_map
     THEN /\ seen_nodes' = Assign(seen_nodes, key, "done")
          /\ UNCHANGED loops
     ELSE /\ seen_nodes' = Assign(seen_nodes, key, "calculating")
          /\ loops' = Append(loops, [key |-> key, next |-> 1])
  /\ UNCHANGED <<phase, picker, num_calls, to_expand, declared, cycle_found>>

EnterRoot ==
  /\ phase = "closing"
  /\ loops = <<>>
  /\ \E key \in DOMAIN include_map : Enter(key)

Looping == phase = "closing" /\ loops # <<>>

Active == Last(loops)

ActiveValues == include_map[Active.key]

NextChild == ActiveValues[Active.next].quoted_include

EnterChild ==
  /\ Looping
  /\ Active.next <= Len(ActiveValues)
  /\ Enter(NextChild)

PassDoneChild ==
  /\ Looping
  /\ Active.next <= Len(ActiveValues)
  /\ StatusOf(NextChild) = "done"
  /\ loops' = [loops EXCEPT ![Len(loops)].next = @ + 1]
  /\ UNCHANGED <<phase, picker, num_calls, to_expand, seen_nodes, declared, cycle_found>>

(* The call for the child has returned: at once when the child was done or *)
(* is being calculated, and after its own loop otherwise.                  *)
PassChild ==
  /\ Looping
  /\ Active.next <= Len(ActiveValues)
  /\ StatusOf(NextChild) # "unused"
  /\ cycle_found' = (cycle_found \/ StatusOf(NextChild) = "calculating")
  /\ loops' = [loops EXCEPT ![Len(loops)].next = @ + 1]
  /\ UNCHANGED <<phase, picker, num_calls, to_expand, seen_nodes, declared>>

LeaveUnexpanded ==
  /\ Looping
  /\ Active.next > Len(ActiveValues)
  /\ seen_nodes' = [seen_nodes EXCEPT ![Active.key] = "done"]
  /\ loops' = Front(loops)
  /\ UNCHANGED <<phase, picker, num_calls, to_expand, declared, cycle_found>>

Leave ==
  /\ Looping
  /\ Active.next > Len(ActiveValues)
  /\ seen_nodes' = [seen_nodes EXCEPT ![Active.key] = "done"]
  /\ picker' = [picker EXCEPT !.filepath_include_map[Active.key] =
                   ExpandOnce(include_map, @)]
  /\ loops' = Front(loops)
  /\ UNCHANGED <<phase, num_calls, to_expand, declared, cycle_found>>

FinishWithoutSymbols ==
  /\ phase = "closing"
  /\ loops = <<>>
  /\ \A key \in DOMAIN include_map : StatusOf(key) = "done"
  /\ phase' = "final"
  /\ UNCHANGED <<picker, num_calls, to_expand, closing_vars, declared>>

(* The maps of symbols take on the closed include mappings, and the picker *)
(* is ready for queries.                                                   *)
Finish ==
  /\ phase = "closing"
  /\ loops = <<>>
  /\ \A key \in DOMAIN include_map : StatusOf(key) = "done"
  /\ picker' = [picker EXCEPT !.symbol_maps =
                   [s \in DOMAIN @ |-> ExpandOnce(include_map, @[s])]]
  /\ phase' = "final"
  /\ UNCHANGED <<num_calls, to_expand, closing_vars, declared>>

FinalizeAddedIncludes ==
  \/ StartExpanding
  \/ \E e \in to_expand : ExpandRegex(e[1], e[2][1], e[2][2])
  \/ StartClosing
  \/ EnterRoot
  \/ EnterChild
  \/ PassChild
  \/ Leave
  \/ Finish

Next ==
  \/ AddInternalMapping
  \/ EndConstructor
  \/ LoadMapping
  \/ StartPreprocessing
  \/ SeeInclude
  \/ SeePragma
  \/ FinalizeAddedIncludes

Spec == Init /\ [][Next]_vars

(* One thread runs the whole program. *)
FairSpec == Spec /\ WF_vars(Next)
-----------------------------------------------------------------------------
Sources == {i.includer : i \in DirectIncludes} \ {SpecialFilename}
Headers == {i.includee : i \in DirectIncludes}

Targets(m, key) == {v.quoted_include : v \in Range(ValuesOf(m, key))}

-----------------------------------------------------------------------------
(* The picker's vectors and in-place loops implement the search over sets  *)
(* of MapClosure: duplicate entries, entries for one include with          *)
(* different paths, and the loop positions are what it abstracts from.     *)
ClosurePhase == CASE phase = "closing" -> "closing"
                  [] phase = "final" -> "closed"
                  [] OTHER -> "adding"

TargetsOf(m) == [k \in Keys |-> Targets(m, k)]

(* The children that the loop has not got past. *)
Ahead(loop) ==
  LET values == include_map[loop.key]
      target(j) == values[j].quoted_include
  IN  {target(j) : j \in loop.next .. Len(values)}
        \ {target(j) : j \in 1 .. loop.next - 1}

ClosureStatus == [k \in Keys |-> StatusOf(k)]

ClosureStack == [i \in DOMAIN loops |-> loops[i].key]

ClosureUnvisited ==
  [k \in Keys |-> UNION {Ahead(l) : l \in {x \in Range(loops) : x.key = k}}]

Closure == INSTANCE MapClosure WITH
  phase <- ClosurePhase,
  declared <- TargetsOf(declared),
  filename_map <- TargetsOf(include_map),
  seen_nodes <- ClosureStatus,
  node_stack <- ClosureStack,
  unvisited <- ClosureUnvisited

(* Whatever calls the picker gets, its finalization is a run of            *)
(* MapClosure, so what is proved of MapClosure holds of the picker.        *)
ImplementsMapClosure == Closure!Spec

(* The keys that a key leads to by the mappings given and expanded.        *)
LeadsTo(key) ==
  LET within[n \in 1..Cardinality(Keys)] ==
        IF n = 1 THEN Targets(declared, key)
        ELSE LET nearer == within[n - 1]
             IN  nearer \cup UNION {Targets(declared, k) : k \in nearer}
  IN  within[Cardinality(Keys)]

AwayFromCycles(key) == \A k \in {key} \cup LeadsTo(key) : k \notin LeadsTo(k)

(* The closure keeps the preference among headers: the mapping given first *)
(* is still the first ("all else being equal, the first element of the     *)
(* vector is the best", iwyu_include_picker.h).                            *)
BestStaysFirst ==
  phase = "final" => \A k \in DOMAIN declared :
     include_map[k][1].quoted_include = declared[k][1].quoted_include

(* What a symbol maps to is closed as well: whoever is offered a header    *)
(* for a symbol is offered every header that re-exports it.  A header on a *)
(* cycle may have been expanded before what it leads to, and is passed on  *)
(* to the symbol as it is.                                                 *)
SymbolMapsClosed ==
  phase = "final" =>
    \A s \in DOMAIN picker.symbol_maps :
      LET offered == Targets(picker.symbol_maps, s)
      IN  \A k \in offered :
            /\ AwayFromCycles(k)
            /\ \A o \in offered : k \in LeadsTo(o) => AwayFromCycles(o)
            => LeadsTo(k) \subseteq offered

(* A header that maps, however indirectly, to unmarked or public headers   *)
(* is offered under all of their names, and never under a private name.    *)
PublicReplacementsOffered ==
  phase = "final" =>
    \A h \in Headers, q \in Sources :
      LET key == ConvertToQuotedInclude(h, <<>>)
          offered == Range(GetCandidateHeadersForFilepath(picker, h, q))
          public == {k \in LeadsTo(key) :
             FindInMap(picker.include_visibility_map, k, "public") = "public"}
      IN  /\ AwayFromCycles(key)
          /\ picker.path_visibility_map = {}
          /\ public # {}
          => /\ public \subseteq {v.quoted_include : v \in offered}
             /\ \A v \in offered : GetVisibility(picker, v, "public") = "public"

(* Re-exporting is transitive: HasMapping keeps an #include because its    *)
(* includer re-exports it, through however many headers.                   *)
HasMappingTransitive ==
  phase = "final" =>
    \A a \in Headers :
      AwayFromCycles(ConvertToQuotedInclude(a, <<>>)) =>
         \A b, c \in Headers :
            HasMapping(picker, a, b) /\ HasMapping(picker, b, c)
              => HasMapping(picker, a, c)

(* A friend that is on the search path gets the header itself, by the name *)
(* the search path gives it, private or not.  (The friend branch pairs the *)
(* header's name with the friend's path: a friend that #includes itself    *)
(* gets its own name, as written there.)                                   *)
OnSearchPath(path) == \E e \in SearchPaths : IsInside(path, e.prefix)

Befriended(path, pattern) ==
  path \in FindInMap(picker.friend_to_headers_map, pattern, {})

FriendOnSearchPathGetsHeader ==
  phase = "final" =>
    \A f \in Friends, q \in Headers \cap Sources :
      /\ Befriended(f.path, f.pattern)
      /\ ConvertToQuotedInclude(q, <<>>) \in picker.quoted_includes
      /\ OnSearchPath(q) /\ OnSearchPath(f.path)
      /\ <<q, q>> \notin DOMAIN picker.include_as_written
      /\ RegexMatch(QuotedFrom(q, q), f.pattern)
      => GetCandidateHeadersForFilepathIncludedFrom(picker, f.path, q)
            = <<QuotedFrom(f.path, q)>>

(* The picker gets finalized, unless a CHECK_ has failed: the recursion of *)
(* MakeNodeTransitive ends also when headers re-export each other.         *)
FinalizationEnds == phase = "expanding" ~> phase = "final" \/ picker.aborted

-----------------------------------------------------------------------------
(* What comments and documents promise, and the code does not keep.        *)

(* docs/IWYUPragmas.md: "any file matching the given regular expression    *)
(* will be considered a friend".                                           *)
FriendRecognized ==
  phase = "final" =>
    \A f \in Friends, q \in Headers \cap Sources :
      /\ Befriended(f.path, f.pattern)
      /\ ConvertToQuotedInclude(q, <<>>) \in picker.quoted_includes
      /\ RegexMatch(QuotedFrom(q, q), f.pattern)
      => IsFriend(picker, f.path, q)
=============================================================================
