-------------------------- MODULE IncludePickerData --------------------------
(***************************************************************************)
(* The state of an IncludePicker and its methods, as functions on a record *)
(* (iwyu_include_picker.{h,cc}).  A method that changes the picker takes   *)
(* the record p and returns the changed one, so that a handler that calls  *)
(* several of them composes them in its own order.  A failed CHECK_ ends   *)
(* the program: the record is then aborted, and later calls change nothing.*)
(*                                                                         *)
(* A key of the include maps is a quoted include or a pattern ("@regex"):  *)
(* here a file, or every file below a directory, in one kind of quotes or  *)
(* in both.                                                                *)
(***************************************************************************)
EXTENDS PathUtil, FiniteSets, TLC

CONSTANT AsmDirs   \* the directories named asm-<architecture>

NoPath == <<>>

NotWritten == [form |-> "none", parts |-> <<>>]   \* no #include line: ""

(* A mapping's target: a quoted include, and a path when it came from one. *)
MappedInclude(quoted_include, path) ==
  [quoted_include |-> quoted_include, path |-> path]

EmptyPicker ==
  [filepath_include_map   |-> <<>>,   \* key -> sequence of MappedIncludes
   symbol_maps            |-> <<>>,   \* <<use kind, symbol>> -> the same
   include_visibility_map |-> <<>>,   \* key -> "public" or "private"
   path_visibility_map    |-> {},     \* the paths marked private
   quoted_includes        |-> {},     \* every include seen
   include_as_written     |-> <<>>,   \* <<includer, includee>> -> include
   friend_to_headers_map  |-> <<>>,   \* key -> set of paths
   aborted                |-> FALSE]

FindInMap(m, key, default) == IF key \in DOMAIN m THEN m[key] ELSE default

ValuesOf(m, key) == FindInMap(m, key, <<>>)

(* m[key] = value of std::map. *)
Assign(m, key, value) ==
  [k \in DOMAIN m \cup {key} |-> IF k = key THEN value ELSE m[k]]

WithValues(m, key, values) == Assign(m, key, ValuesOf(m, key) \o values)

ContainsQuotedInclude(mapped_includes, quoted_include) ==
  \E i \in DOMAIN mapped_includes :
     mapped_includes[i].quoted_include = quoted_include

-----------------------------------------------------------------------------
(* Patterns.  "@any" is a pattern that accepts both kinds of quotes.       *)

PatternForms == [f \in {"@quoted", "@angled", "@absolute", "@any"} |->
  CASE f = "@quoted"   -> {"quoted"}
    [] f = "@angled"   -> {"angled"}
    [] f = "@absolute" -> {"absolute"}
    [] f = "@any"      -> {"quoted", "angled"}]

IsPattern(key) == key.form \in DOMAIN PatternForms

(* The pattern of all files below directory prefix, quoted like form. *)
Below(form, prefix) == [form |-> "@" \o form, parts |-> prefix]

RegexMatch(quoted_include, pattern) ==
  /\ quoted_include.form \in PatternForms[pattern.form]
  /\ IsPrefix(pattern.parts, quoted_include.parts)

(* A target may end in a reference to what the pattern's ".*" matched. *)
BackReference == "\\1"

RegexReplace(quoted_include, pattern, target) ==
  IF Last(target.parts) # BackReference THEN target
  ELSE [target EXCEPT !.parts = Front(@) \o
          StripPathPrefix(quoted_include.parts, pattern.parts)]

-----------------------------------------------------------------------------
(* Methods that change the picker. *)

(* An old value is left alone; a different one fails the CHECK_. *)
MarkVisibility(p, key, visibility) ==
  IF p.aborted THEN p
  ELSE IF FindInMap(p.include_visibility_map, key, visibility) # visibility
       THEN [p EXCEPT !.aborted = TRUE]
  ELSE [p EXCEPT !.include_visibility_map = Assign(@, key, visibility)]

MarkIncludeAsPrivate(p, key) == MarkVisibility(p, key, "private")

MarkPathAsPrivate(p, path) ==
  IF p.aborted THEN p ELSE [p EXCEPT !.path_visibility_map = @ \cup {path}]

AddMapping(p, map_from, map_to) ==
  IF p.aborted THEN p
  ELSE [p EXCEPT !.filepath_include_map =
                    WithValues(@, map_from, <<map_to>>)]

AddIncludeMapping(p, m) ==
  LET mapped == AddMapping(p, m.from, MappedInclude(m.to, NoPath))
      from_marked == MarkVisibility(mapped, m.from, m.from_visibility)
  IN  MarkVisibility(from_marked, m.to, m.to_visibility)

AddSymbolMapping(p, m) ==
  IF p.aborted THEN p
  ELSE MarkVisibility(
         [p EXCEPT !.symbol_maps =
            WithValues(@, <<m.use_kind, m.symbol>>,
                       <<MappedInclude(m.to, NoPath)>>)],
         m.to, m.to_visibility)

(* The HACK at the end of AddInternalMappings, without a CHECK_. *)
ForcePrivate(p, keys) ==
  [p EXCEPT !.include_visibility_map =
      [k \in DOMAIN @ |-> IF k \in keys THEN "private" ELSE @[k]]]

AddFriendRegex(p, includee, pattern) ==
  IF p.aborted THEN p
  ELSE [p EXCEPT !.friend_to_headers_map =
          Assign(@, pattern, FindInMap(@, pattern, {}) \cup {includee})]

(* The directory names of the models that end in "internal".               *)
EndingInInternal == {"internal", "myinternal"}

(* Where "internal/" first occurs in the name, if a slash precedes it: an  *)
(* occurrence within a longer name hides later ones, and so does one at    *)
(* the front of a relative name, which begins with its quote.              *)
InternalAt(quoted_include) ==
  LET parts == quoted_include.parts
  IN  {i \in 1..(Len(parts) - 1) :
         /\ parts[i] = "internal"
         /\ i > 1 \/ quoted_include.form = "absolute"
         /\ \A j \in 1..(i - 1) : parts[j] \notin EndingInInternal}

(* foo/internal/bar.h is private to foo/, and maps to its includer. *)
AddInternalHeader(p, includee, quoted_includee, mapped_includer) ==
  IF InternalAt(quoted_includee) = {} THEN p
  ELSE LET pos == CHOOSE i \in InternalAt(quoted_includee) : TRUE
           project == Below(quoted_includee.form,
                            SubSeq(quoted_includee.parts, 1, pos - 1))
           private == MarkIncludeAsPrivate(p, quoted_includee)
       IN  AddMapping(AddFriendRegex(private, includee, project),
                      quoted_includee, mapped_includer)

(* <asm-FOO/bar.h> is private, and maps to <asm/bar.h>. *)
IsAsmHeader(quoted_include) ==
  quoted_include.form = "angled" /\ quoted_include.parts[1] \in AsmDirs

AsmName(quoted_include) == Angled(<<"asm">> \o Tail(quoted_include.parts))

AddAsmHeader(p, quoted_includee) ==
  IF ~IsAsmHeader(quoted_includee) THEN p
  ELSE AddMapping(MarkIncludeAsPrivate(p, quoted_includee), quoted_includee,
                  MappedInclude(AsmName(quoted_includee), NoPath))

(* The key that AddDirectInclude marks private for a special includer. *)
QuotedBuiltIn == Quoted(SpecialFilename)

AddDirectInclude(p, includer, includee, as_written) ==
  LET quoted_includer == ConvertToQuotedInclude(includer, <<>>)
      quoted_includee == ConvertToQuotedInclude(includee, <<>>)
      seen == [p EXCEPT
                 !.quoted_includes = @ \cup {quoted_includee},
                 !.include_as_written = Assign(@, <<includer, includee>>, as_written)]
      marked == IF IsSpecialFilename(includer)
                THEN MarkIncludeAsPrivate(seen, QuotedBuiltIn) ELSE seen
      internal == AddInternalHeader(marked, includee, quoted_includee,
                                    MappedInclude(quoted_includer, includer))
  IN  IF p.aborted THEN p ELSE AddAsmHeader(internal, quoted_includee)

(* The pragmas "export" and "private, include", as the preprocessor calls  *)
(* the picker for them.  An exported include is mapped to its includer     *)
(* under both its names, the one that is written and the one that does not *)
(* depend on the includer.                                                 *)
ExportInclude(p, includer, includee, as_written) ==
  LET map_to == MappedInclude(ConvertToQuotedInclude(includer, <<>>), includer)
      map_from == ConvertToQuotedInclude(includee, <<>>)
      written == AddMapping(p, as_written, map_to)
  IN  IF map_from = as_written THEN written ELSE AddMapping(written, map_from, map_to)

PrivateInclude(p, path, suggested) ==
  LET quoted_this_file == ConvertToQuotedInclude(path, <<>>)
  IN  MarkIncludeAsPrivate(
        AddMapping(p, quoted_this_file, MappedInclude(suggested, NoPath)),
        quoted_this_file)

(* One iteration of ExpandRegexes: an include that was seen, a mapping     *)
(* key that is a pattern.                                                  *)
ExpandIncludeRegex(p, hdr, pattern) ==
  LET map_to == p.filepath_include_map[pattern]
      targets == [i \in DOMAIN map_to |->
         MappedInclude(RegexReplace(hdr, pattern, map_to[i].quoted_include),
                       NoPath)]
  IN  IF RegexMatch(hdr, pattern) /\ ~ContainsQuotedInclude(map_to, hdr)
      THEN MarkVisibility(
             [p EXCEPT !.filepath_include_map = WithValues(@, hdr, targets)],
             hdr, p.include_visibility_map[pattern])
      ELSE p

ExpandFriendRegexOverwriting(p, hdr, pattern) ==
  IF ~RegexMatch(hdr, pattern) THEN p
  ELSE [p EXCEPT !.friend_to_headers_map = Assign(@, hdr, @[pattern])]

(* And one for a friend pattern. *)
ExpandFriendRegex(p, hdr, pattern) ==
  IF ~RegexMatch(hdr, pattern) THEN p
  ELSE [p EXCEPT !.friend_to_headers_map =
          Assign(@, hdr, FindInMap(@, hdr, {}) \cup @[pattern])]

FirstOfEach(values) ==
  LET IsFirst(i) == \A j \in 1 .. i - 1 :
                       values[j].quoted_include # values[i].quoted_include
      kept[n \in Nat] == IF n = 0 THEN <<>>
                         ELSE IF IsFirst(n) THEN Append(kept[n - 1], values[n])
                         ELSE kept[n - 1]
  IN  kept[Len(values)]

ExpandOnceChildrenFirst(m, nodes) ==
  FirstOfEach(FlattenSeq([i \in DOMAIN nodes |->
     Append(ValuesOf(m, nodes[i].quoted_include), nodes[i])]))

(* nodes[i] is replaced by nodes[i] and its children; of several values    *)
(* for one include the first stays.                                        *)
ExpandOnce(m, nodes) ==
  FirstOfEach(FlattenSeq([i \in DOMAIN nodes |->
     <<nodes[i]>> \o ValuesOf(m, nodes[i].quoted_include)]))

-----------------------------------------------------------------------------
(* Queries: the include-picking API. *)

(* The mark of the include comes before the mark of the path. *)
GetVisibility(p, mapped, default) ==
  FindInMap(p.include_visibility_map, mapped.quoted_include,
            IF mapped.path \in p.path_visibility_map THEN "private" ELSE default)

(* Without a default a header that nobody marked is kUnusedVisibility. *)
IsPublic(p, path) ==
  GetVisibility(p, MappedInclude(ConvertToQuotedInclude(path, <<>>), path),
                "unused") = "public"

GetPublicValuesMarkedOnly(p, m, key) ==
  LET values == ValuesOf(m, key)
  IN  FlattenSeq([i \in DOMAIN values |->
         IF GetVisibility(p, values[i], "unused") = "public" THEN <<values[i]>> ELSE <<>>])

GetPublicValues(p, m, key) ==
  LET values == ValuesOf(m, key)
  IN  FlattenSeq([i \in DOMAIN values |->
         IF GetVisibility(p, values[i], "public") = "public" THEN <<values[i]>> ELSE <<>>])

BestQuotedInclude(p, mapped, including) ==
  LET as_written == FindInMap(p.include_as_written,
                              <<including, mapped.path>>, NotWritten)
  IN  IF as_written # NotWritten THEN as_written
      ELSE IF HasAbsoluteQuotedInclude(mapped.quoted_include) /\ mapped.path # NoPath
           THEN QuotedFrom(mapped.path, including)
      ELSE mapped.quoted_include

BestQuotedIncludesForIncluder(p, includes, including) ==
  [i \in DOMAIN includes |-> BestQuotedInclude(p, includes[i], including)]

(* The mapped headers, with the header itself in front when it is public   *)
(* or there is no other.                                                   *)
GetCandidateHeadersForFilepath(p, path, including) ==
  LET public == GetPublicValues(p, p.filepath_include_map,
                                ConvertToQuotedInclude(path, <<>>))
      itself == MappedInclude(QuotedFrom(path, including), path)
  IN  IF public = <<>> \/ GetVisibility(p, itself, "public") = "public"
      THEN <<itself>> \o public
      ELSE public

IsFriend(p, path, including) ==
  path \in FindInMap(p.friend_to_headers_map, QuotedFrom(including, including), {})

GetCandidateHeadersForFilepathIncludedFrom(p, path, including) ==
  BestQuotedIncludesForIncluder(p,
    IF IsFriend(p, path, including)
    THEN <<MappedInclude(QuotedFrom(path, including), including)>>
    ELSE GetCandidateHeadersForFilepath(p, path, including),
    including)

GetCandidateHeadersForSymbolUsedFrom(p, use_kind, symbol, including) ==
  BestQuotedIncludesForIncluder(p,
    GetPublicValues(p, p.symbol_maps, <<use_kind, symbol>>), including)

(* A symbol's own mapping, or else the mapping of the file declaring it. *)
GetMappedPublicHeaders(p, symbol, including, decl_path) ==
  LET for_symbol ==
        GetCandidateHeadersForSymbolUsedFrom(p, "full", symbol, including)
  IN  IF for_symbol # <<>> THEN for_symbol
      ELSE GetCandidateHeadersForFilepathIncludedFrom(p, decl_path, including)

HasMapping(p, from_path, to_path) ==
  LET quoted_from == ConvertToQuotedInclude(from_path, <<>>)
      quoted_to == ConvertToQuotedInclude(to_path, <<>>)
  IN  \/ ContainsQuotedInclude(ValuesOf(p.filepath_include_map, quoted_from),
                               quoted_to)
      \/ quoted_to = quoted_from
=============================================================================
