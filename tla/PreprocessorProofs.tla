--------------------------- MODULE PreprocessorProofs ---------------------------
(* Theorems about Preprocessor, for any files and lines.                    *)
EXTENDS Preprocessor, RecursionLemmas

-----------------------------------------------------------------------------
(* The information that the methods of IwyuPreprocessorInfo keep.           *)
Fields == {"pch_in_code", "check_also", "main_file", "iwyu_file_info_map",
  "include_to_fileentry_map", "num_includes_seen", "begin_exports_location_stack",
  "begin_keep_location_stack", "associated_pragma_location", "always_keep_files",
  "no_include_map", "no_forward_declare_map",
  "files_to_report_iwyu_violations_for", "transitive_include_map",
  "intends_to_provide_map"}

InfoFields == {"quoted_file", "direct_includes", "associated_headers",
  "kept_includes", "include_uses", "macro_uses", "macro_users",
  "is_prefix_header", "is_pch_in_code"}

WellFormed(p) ==
  /\ DOMAIN p = Fields
  /\ \A f \in DOMAIN p.iwyu_file_info_map :
        DOMAIN p.iwyu_file_info_map[f] = InfoFields

IsState(s) == DOMAIN s = {"pp", "picker"} /\ WellFormed(s.pp)

(* What the properties are about.                                          *)
Seen(p) == DOMAIN p.iwyu_file_info_map

Direct(p, f) ==
  IF f \in Seen(p) THEN p.iwyu_file_info_map[f].direct_includes ELSE {}

Associated(p, f) ==
  IF f \in Seen(p) THEN p.iwyu_file_info_map[f].associated_headers ELSE {}

IsPrefixHeader(p, f) ==
  IF f \in Seen(p) THEN p.iwyu_file_info_map[f].is_prefix_header ELSE FALSE

SameInfos(p, q) ==
  /\ \A f : Direct(q, f) = Direct(p, f)
  /\ \A f : Associated(q, f) = Associated(p, f)
  /\ \A f : IsPrefixHeader(q, f) <=> IsPrefixHeader(p, f)

SameOutside(p, q, changed) == \A x \in Fields \ changed : q[x] = p[x]

-----------------------------------------------------------------------------
LEMMA InsertInfo ==
  ASSUME NEW p, WellFormed(p), NEW file, NEW name
  PROVE  LET q == InsertIntoFileInfoMap(p, file, name)
         IN  /\ WellFormed(q)
             /\ Seen(q) = Seen(p) \cup {file}
             /\ SameInfos(p, q)
             /\ SameOutside(p, q, {"iwyu_file_info_map"})
<1> DEFINE q == InsertIntoFileInfoMap(p, file, name)
           infos == Insert(p.iwyu_file_info_map, file, NewFileInfo(name))
<1>1. /\ DOMAIN q = Fields
      /\ q.iwyu_file_info_map = infos
      /\ SameOutside(p, q, {"iwyu_file_info_map"})
  <2> HIDE DEF infos
  <2> QED BY DEF InsertIntoFileInfoMap, WellFormed, SameOutside, Fields, infos
<1>2. /\ DOMAIN infos = Seen(p) \cup {file}
      /\ \A f \in Seen(p) : infos[f] = p.iwyu_file_info_map[f]
      /\ file \notin Seen(p) => infos[file] = NewFileInfo(name)
  BY DEF Insert, Seen
<1> HIDE DEF infos, q
<1>3. WellFormed(q)
  BY <1>1, <1>2 DEF WellFormed, NewFileInfo, InfoFields, Seen
<1>4. Seen(q) = Seen(p) \cup {file}
  BY <1>1, <1>2 DEF Seen
<1>5. SameInfos(p, q)
  <2>1. \A f : Direct(q, f) = Direct(p, f)
    BY <1>1, <1>2, <1>4 DEF Direct, NewFileInfo
  <2>2. \A f : Associated(q, f) = Associated(p, f)
    BY <1>1, <1>2, <1>4 DEF Associated, NewFileInfo
  <2>3. \A f : IsPrefixHeader(q, f) <=> IsPrefixHeader(p, f)
    BY <1>1, <1>2, <1>4 DEF IsPrefixHeader, NewFileInfo
  <2> QED BY <2>1, <2>2, <2>3 DEF SameInfos
<1> QED BY <1>1, <1>3, <1>4, <1>5 DEF q

(* Report changes one set of one file.                                     *)
InfoSets == {"direct_includes", "associated_headers", "kept_includes",
  "include_uses", "macro_uses", "macro_users"}

LEMMA ReportInfo ==
  ASSUME NEW p, WellFormed(p), NEW file \in Seen(p), NEW element,
         NEW set \in InfoSets
  PROVE  LET q == Report(p, file, set, element)
             infos == p.iwyu_file_info_map
         IN  /\ WellFormed(q)
             /\ Seen(q) = Seen(p)
             /\ \A f \in Seen(p) : \A x \in InfoFields :
                   q.iwyu_file_info_map[f][x] =
                     IF f = file /\ x = set THEN infos[f][x] \cup {element}
                     ELSE infos[f][x]
             /\ SameOutside(p, q, {"iwyu_file_info_map"})
<1> DEFINE q == Report(p, file, set, element)
           old == p.iwyu_file_info_map
           infos == [old EXCEPT ![file][set] = @ \cup {element}]
<1>1. /\ DOMAIN q = Fields
      /\ q.iwyu_file_info_map = infos
      /\ SameOutside(p, q, {"iwyu_file_info_map"})
  <2>1. q = [p EXCEPT !.iwyu_file_info_map = infos]
    BY DEF Report
  <2> HIDE DEF infos, q
  <2> QED BY <2>1 DEF WellFormed, SameOutside, Fields
<1>2. DOMAIN old[file] = InfoFields /\ set \in InfoFields
  BY DEF WellFormed, Seen, InfoFields, InfoSets
<1>3. /\ DOMAIN infos = Seen(p)
      /\ \A f \in Seen(p) : DOMAIN infos[f] = DOMAIN old[f]
      /\ \A f \in Seen(p) \ {file} : infos[f] = old[f]
      /\ infos[file] = [old[file] EXCEPT ![set] = @ \cup {element}]
  BY DEF Seen
<1>4. \A x \in InfoFields : infos[file][x] =
         IF x = set THEN old[file][x] \cup {element} ELSE old[file][x]
  <2> HIDE DEF infos, old
  <2> QED BY <1>2, <1>3
<1>5. WellFormed(q)
  <2> HIDE DEF infos, q
  <2> QED BY <1>1, <1>3 DEF WellFormed, Seen, old
<1>6. Seen(q) = Seen(p)
  <2> HIDE DEF infos, q
  <2> QED BY <1>1, <1>3 DEF Seen
<1>7. \A f \in Seen(p) : \A x \in InfoFields :
         infos[f][x] = IF f = file /\ x = set THEN old[f][x] \cup {element}
                       ELSE old[f][x]
  <2> HIDE DEF infos, old
  <2> QED BY <1>3, <1>4
<1> HIDE DEF infos, q
<1>8. q.iwyu_file_info_map = infos
  BY <1>1
<1> QED BY <1>1, <1>5, <1>6, <1>7, <1>8, Zenon DEF q, old

(* Two pieces of information that the properties do not tell apart.        *)
SameButUses(p, q) ==
  /\ WellFormed(q)
  /\ Seen(q) = Seen(p)
  /\ SameInfos(p, q)
  /\ SameOutside(p, q, {"iwyu_file_info_map"})

LEMMA SameIsTransitive ==
  ASSUME NEW p, NEW q, NEW r, SameButUses(p, q), SameButUses(q, r)
  PROVE  SameButUses(p, r)
<1>1. SameInfos(p, r)
  BY DEF SameButUses, SameInfos
<1>2. SameOutside(p, r, {"iwyu_file_info_map"})
  BY DEF SameButUses, SameOutside
<1> QED BY <1>1, <1>2 DEF SameButUses

LEMMA SameAsItself == ASSUME NEW p, WellFormed(p) PROVE SameButUses(p, p)
BY DEF SameButUses, SameInfos, SameOutside

LEMMA ReportUses ==
  ASSUME NEW p, WellFormed(p), NEW file \in Seen(p), NEW element,
         NEW set \in {"kept_includes", "include_uses", "macro_uses", "macro_users"}
  PROVE  SameButUses(p, Report(p, file, set, element))
<1> DEFINE q == Report(p, file, set, element)
<1>1. /\ WellFormed(q)
      /\ Seen(q) = Seen(p)
      /\ \A f \in Seen(p) : \A x \in InfoFields :
            q.iwyu_file_info_map[f][x] =
              IF f = file /\ x = set THEN p.iwyu_file_info_map[f][x] \cup {element}
              ELSE p.iwyu_file_info_map[f][x]
      /\ SameOutside(p, q, {"iwyu_file_info_map"})
  <2>1. set \in InfoSets
    BY DEF InfoSets
  <2> QED BY <2>1, ReportInfo
<1>2. {"direct_includes", "associated_headers", "is_prefix_header"}
         \subseteq InfoFields \ {set}
  BY DEF InfoFields
<1> HIDE DEF q
<1>3. SameInfos(p, q)
  <2>1. \A f : Direct(q, f) = Direct(p, f)
    BY <1>1, <1>2 DEF Direct
  <2>2. \A f : Associated(q, f) = Associated(p, f)
    BY <1>1, <1>2 DEF Associated
  <2>3. \A f : IsPrefixHeader(q, f) <=> IsPrefixHeader(p, f)
    BY <1>1, <1>2 DEF IsPrefixHeader
  <2> QED BY <2>1, <2>2, <2>3 DEF SameInfos
<1> QED BY <1>1, <1>3 DEF SameButUses, q

LEMMA MaybeProtectSame ==
  ASSUME NEW s, IsState(s), NEW line,
         IsSpecialFilename(line.includer) \/ line.includer \in Seen(s.pp)
  PROVE  LET t == MaybeProtectInclude(s, line)
         IN  IsState(t) /\ SameButUses(s.pp, t.pp)
<1> DEFINE t == MaybeProtectInclude(s, line)
           Good(u) == IsState(u) /\ SameButUses(s.pp, u.pp)
<1> SUFFICES Good(t)
  OBVIOUS
<1>1. Good(s)
  BY SameAsItself DEF IsState
<1>2. ASSUME NEW u, Good(u), line.includer \in Seen(s.pp)
      PROVE  Good(Protect(u, line))
  <2>1. SameButUses(u.pp, Report(u.pp, line.includer, "include_uses", line.includee))
    BY <1>2, ReportUses DEF SameButUses, IsState
  <2>2. SameButUses(s.pp, Report(u.pp, line.includer, "include_uses", line.includee))
    BY <1>2, <2>1, SameIsTransitive
  <2> QED BY <1>2, <2>2 DEF Protect, IsState, SameButUses
<1>3. ASSUME line.includer \in Seen(s.pp)
      PROVE  Good(Keep(s, line))
  <2>1. SameButUses(s.pp, Report(s.pp, line.includer, "kept_includes", line.includee))
    BY <1>3, ReportUses DEF IsState
  <2> QED BY <2>1 DEF Keep, IsState, SameButUses
<1>4. \A v : Good([s EXCEPT !.picker = v])
  BY <1>1 DEF IsState
<1> HIDE DEF Good
<1>5. CASE IsSpecialFilename(line.includer)
  BY <1>1, <1>5 DEF MaybeProtectInclude
<1>6. CASE ~IsSpecialFilename(line.includer)
  <2>1. line.includer \in Seen(s.pp)
    BY <1>6
  <2>2. Good(Protect(Keep(s, line), line))
    BY <1>2, <1>3, <2>1
  <2>3. Good(Protect(s, line))
    BY <1>1, <1>2, <2>1
  <2>4. \A v : Good(Protect([s EXCEPT !.picker = v], line))
    BY <1>4, <1>2, <2>1
  <2> QED BY <1>1, <2>2, <2>3, <2>4, <1>6 DEF MaybeProtectInclude
<1> QED BY <1>5, <1>6

-----------------------------------------------------------------------------
(* The parts of AddDirectInclude. *)

IsPchInCode(p, includer) ==
  /\ ~IsSpecialFilename(p.main_file) /\ includer = p.main_file
  /\ p.num_includes_seen[includer] = 1
  /\ p.pch_in_code

LEMMA MarkPchInfo ==
  ASSUME NEW p, WellFormed(p), NEW includer, NEW includee \in Seen(p)
  PROVE  LET q == MarkPchInCode(p, includer, includee)
         IN  /\ WellFormed(q)
             /\ Seen(q) = Seen(p)
             /\ \A f : Direct(q, f) = Direct(p, f)
             /\ \A f : Associated(q, f) = Associated(p, f)
             /\ \A f : IsPrefixHeader(q, f) <=>
                         \/ IsPrefixHeader(p, f)
                         \/ f = includee /\ IsPchInCode(p, includer)
             /\ SameOutside(p, q, {"iwyu_file_info_map"})
<1> DEFINE q == MarkPchInCode(p, includer, includee)
           old == p.iwyu_file_info_map
           info == [[old[includee] EXCEPT !.is_pch_in_code = TRUE]
                      EXCEPT !.is_prefix_header = TRUE]
           infos == [old EXCEPT ![includee] = info]
<1>1. CASE ~IsPchInCode(p, includer)
  <2>1. q = p
    BY <1>1, Zenon DEF MarkPchInCode, IsPchInCode
  <2> HIDE DEF q
  <2>2. q = p
    BY <2>1
  <2> QED BY <2>2, <1>1 DEF SameOutside, q
<1>2. CASE IsPchInCode(p, includer)
  <2>1. /\ DOMAIN info = InfoFields
        /\ info.direct_includes = old[includee].direct_includes
        /\ info.associated_headers = old[includee].associated_headers
        /\ info.is_prefix_header
    <3>1. DOMAIN old[includee] = InfoFields
      BY DEF WellFormed, Seen
    <3> QED BY <3>1 DEF InfoFields
  <2>2. q = [p EXCEPT !.iwyu_file_info_map = infos]
    <3>1. q = [p EXCEPT !.iwyu_file_info_map[includee].is_pch_in_code = TRUE,
                        !.iwyu_file_info_map[includee].is_prefix_header = TRUE]
      BY <1>2 DEF MarkPchInCode, IsPchInCode
    <3>2. DOMAIN p = Fields /\ includee \in DOMAIN old
      BY DEF WellFormed, Seen
    <3> QED BY <3>1, <3>2 DEF Fields
  <2> HIDE DEF info
  <2>3. /\ DOMAIN infos = Seen(p)
        /\ infos[includee] = info
        /\ \A f \in Seen(p) \ {includee} : infos[f] = old[f]
    BY DEF Seen
  <2> HIDE DEF infos, q
  <2>4. /\ DOMAIN q = Fields /\ q.iwyu_file_info_map = infos
        /\ SameOutside(p, q, {"iwyu_file_info_map"})
    BY <2>2 DEF WellFormed, SameOutside, Fields
  <2>5. Seen(q) = Seen(p)
    BY <2>3, <2>4 DEF Seen
  <2>6. WellFormed(q)
    BY <2>1, <2>3, <2>4 DEF WellFormed, Seen
  <2>7. \A f : Direct(q, f) = Direct(p, f)
    BY <2>1, <2>3, <2>4, <2>5 DEF Direct
  <2>8. \A f : Associated(q, f) = Associated(p, f)
    BY <2>1, <2>3, <2>4, <2>5 DEF Associated
  <2>9. \A f : IsPrefixHeader(q, f) <=> IsPrefixHeader(p, f) \/ f = includee
    BY <2>1, <2>3, <2>4, <2>5 DEF IsPrefixHeader
  <2> QED BY <1>2, <2>4, <2>5, <2>6, <2>7, <2>8, <2>9 DEF q
<1> QED BY <1>1, <1>2

(* An includer gets an associated header only if --check_also gets it too. *)
MoreAssociated(p, q, includer, includee) ==
  /\ p.check_also \subseteq q.check_also
  /\ \A f : \/ Associated(q, f) = Associated(p, f)
            \/ /\ f = includer
               /\ Associated(q, f) = Associated(p, f) \cup {includee}
               /\ includee \in q.check_also

AssociationFields ==
  {"iwyu_file_info_map", "check_also", "associated_pragma_location"}

Associates(p, q, includer, includee) ==
  /\ WellFormed(q)
  /\ Seen(q) = Seen(p)
  /\ \A f : Direct(q, f) = Direct(p, f)
  /\ \A f : IsPrefixHeader(q, f) <=> IsPrefixHeader(p, f)
  /\ MoreAssociated(p, q, includer, includee)
  /\ SameOutside(p, q, AssociationFields)

LEMMA AddAssociatedInfo ==
  ASSUME NEW p, WellFormed(p), NEW includer \in Seen(p), NEW includee
  PROVE  Associates(p, AddAssociatedHeader(p, includer, includee), includer, includee)
<1> DEFINE r == Report(p, includer, "associated_headers", includee)
           q == AddAssociatedHeader(p, includer, includee)
<1>1. /\ WellFormed(r)
      /\ Seen(r) = Seen(p)
      /\ \A f \in Seen(p) : \A x \in InfoFields :
            r.iwyu_file_info_map[f][x] =
              IF f = includer /\ x = "associated_headers"
              THEN p.iwyu_file_info_map[f][x] \cup {includee}
              ELSE p.iwyu_file_info_map[f][x]
      /\ SameOutside(p, r, {"iwyu_file_info_map"})
  <2> DEFINE set == "associated_headers"
  <2>1. set \in InfoSets
    BY DEF InfoSets
  <2> HIDE DEF set
  <2>2. r = Report(p, includer, set, includee)
    BY DEF set
  <2> HIDE DEF r
  <2> QED BY <2>1, <2>2, ReportInfo DEF set
<1>2. q = [r EXCEPT !.check_also = @ \cup {includee}]
  BY DEF AddAssociatedHeader
<1> HIDE DEF r, q
<1>3. /\ DOMAIN q = Fields
      /\ q.iwyu_file_info_map = r.iwyu_file_info_map
      /\ q.check_also = r.check_also \cup {includee}
      /\ SameOutside(r, q, {"check_also"})
  BY <1>1, <1>2 DEF WellFormed, SameOutside, Fields
<1>4. r.check_also = p.check_also
  BY <1>1 DEF SameOutside, Fields
<1>5. WellFormed(q) /\ Seen(q) = Seen(p)
  BY <1>1, <1>3 DEF WellFormed, Seen
<1>6. \A f : Direct(q, f) = Direct(p, f)
  BY <1>1, <1>3, <1>5 DEF Direct, InfoFields
<1>7. \A f : IsPrefixHeader(q, f) <=> IsPrefixHeader(p, f)
  <2>1. ASSUME NEW f \in Seen(p)
        PROVE  q.iwyu_file_info_map[f].is_prefix_header
                 = p.iwyu_file_info_map[f].is_prefix_header
    <3>1. r.iwyu_file_info_map[f]["is_prefix_header"]
            = p.iwyu_file_info_map[f]["is_prefix_header"]
      BY <1>1 DEF InfoFields
    <3> QED BY <1>3, <3>1
  <2>2. Seen(q) = Seen(p)
    BY <1>5
  <2> QED BY <2>1, <2>2 DEF IsPrefixHeader
<1>8. \A f : Associated(q, f) = IF f = includer THEN Associated(p, f) \cup {includee}
                                 ELSE Associated(p, f)
  BY <1>1, <1>3, <1>5 DEF Associated, InfoFields
<1>9. SameOutside(p, q, AssociationFields)
  BY <1>1, <1>3 DEF SameOutside, AssociationFields
<1> QED BY <1>3, <1>4, <1>5, <1>6, <1>7, <1>8, <1>9 DEF Associates, MoreAssociated, q

LEMMA AssociatesTransitive ==
  ASSUME NEW p, NEW q, NEW r, NEW includer, NEW includee,
         Associates(p, q, includer, includee), Associates(q, r, includer, includee)
  PROVE  Associates(p, r, includer, includee)
<1>1. MoreAssociated(p, r, includer, includee)
  BY DEF Associates, MoreAssociated
<1>2. SameOutside(p, r, AssociationFields)
  BY DEF Associates, SameOutside
<1> QED BY <1>1, <1>2 DEF Associates

LEMMA AssociatesNone ==
  ASSUME NEW p, WellFormed(p), NEW includer, NEW includee
  PROVE  Associates(p, p, includer, includee)
BY DEF Associates, MoreAssociated, SameOutside

LEMMA MarkAssociatedInfo ==
  ASSUME NEW p, WellFormed(p), NEW includer \in Seen(p), NEW includee
  PROVE  Associates(p, MarkAssociated(p, includer, includee), includer, includee)
<1> DEFINE q == MarkAssociated(p, includer, includee)
           belongs == /\ includer = p.main_file /\ includee # includer
                      /\ BelongsToMainCompilationUnit(p, includer, includee)
           by_name == IF belongs THEN AddAssociatedHeader(p, includer, includee) ELSE p
           more == AddAssociatedHeader(by_name, includer, includee)
           cleared == [more EXCEPT !.associated_pragma_location = NoFile]
<1>1. Associates(p, by_name, includer, includee)
  BY AddAssociatedInfo, AssociatesNone
<1>2. q = IF p.associated_pragma_location = includer THEN cleared ELSE by_name
  BY DEF MarkAssociated
<1> HIDE DEF by_name, q
<1>3. Associates(p, more, includer, includee)
  <2>1. Associates(by_name, more, includer, includee)
    BY <1>1, AddAssociatedInfo DEF Associates
  <2> QED BY <1>1, <2>1, AssociatesTransitive
<1> HIDE DEF more
<1>4. Associates(more, cleared, includer, includee)
  <2>1. WellFormed(more)
    BY <1>3 DEF Associates
  <2>2. /\ DOMAIN cleared = Fields
        /\ cleared.iwyu_file_info_map = more.iwyu_file_info_map
        /\ cleared.check_also = more.check_also
        /\ SameOutside(more, cleared, AssociationFields)
    BY <2>1 DEF WellFormed, SameOutside, Fields, AssociationFields
  <2> HIDE DEF cleared
  <2>3. /\ \A f : Direct(cleared, f) = Direct(more, f)
        /\ \A f : IsPrefixHeader(cleared, f) <=> IsPrefixHeader(more, f)
        /\ \A f : Associated(cleared, f) = Associated(more, f)
    BY <2>2 DEF Direct, IsPrefixHeader, Associated, Seen
  <2>4. WellFormed(cleared) /\ Seen(cleared) = Seen(more)
    BY <2>1, <2>2 DEF WellFormed, Seen
  <2> QED BY <2>2, <2>3, <2>4 DEF Associates, MoreAssociated
<1> HIDE DEF cleared
<1>5. Associates(p, cleared, includer, includee)
  BY <1>3, <1>4, AssociatesTransitive
<1> QED BY <1>1, <1>2, <1>5 DEF q

LEMMA ReportDirect ==
  ASSUME NEW p, WellFormed(p), NEW file \in Seen(p), NEW element
  PROVE  LET q == Report(p, file, "direct_includes", element)
         IN  /\ WellFormed(q)
             /\ Seen(q) = Seen(p)
             /\ \A f : Direct(q, f) = IF f = file THEN Direct(p, f) \cup {element}
                                      ELSE Direct(p, f)
             /\ \A f : Associated(q, f) = Associated(p, f)
             /\ \A f : IsPrefixHeader(q, f) <=> IsPrefixHeader(p, f)
             /\ SameOutside(p, q, {"iwyu_file_info_map"})
<1> DEFINE set == "direct_includes"
           q == Report(p, file, set, element)
<1>1. set \in InfoSets
  BY DEF InfoSets
<1>2. {"direct_includes", "associated_headers", "is_prefix_header"}
         \subseteq InfoFields
  BY DEF InfoFields
<1> HIDE DEF set
<1>3. /\ WellFormed(q)
      /\ Seen(q) = Seen(p)
      /\ \A f \in Seen(p) : \A x \in InfoFields :
            q.iwyu_file_info_map[f][x] =
              IF f = file /\ x = set THEN p.iwyu_file_info_map[f][x] \cup {element}
              ELSE p.iwyu_file_info_map[f][x]
      /\ SameOutside(p, q, {"iwyu_file_info_map"})
  BY <1>1, ReportInfo
<1> HIDE DEF q
<1>4. \A f : Direct(q, f) = IF f = file THEN Direct(p, f) \cup {element}
                            ELSE Direct(p, f)
  BY <1>2, <1>3 DEF Direct, set
<1>5. \A f : Associated(q, f) = Associated(p, f)
  BY <1>2, <1>3 DEF Associated, set
<1>6. \A f : IsPrefixHeader(q, f) <=> IsPrefixHeader(p, f)
  BY <1>2, <1>3 DEF IsPrefixHeader, set
<1> QED BY <1>3, <1>4, <1>5, <1>6 DEF q, set

CountedFields == {"num_includes_seen", "include_to_fileentry_map"}

Counted(p, includer) ==
  Assign(p.num_includes_seen, includer,
         FindInMap(p.num_includes_seen, includer, 0) + 1)

(* What the information is after an #include line, apart from its uses.    *)
IncludeAdded(p, q, includer, includee) ==
  /\ WellFormed(q)
  /\ Seen(q) = Seen(p) \cup {includer, includee}
  /\ \A f : Direct(q, f) = IF f = includer THEN Direct(p, f) \cup {includee}
                           ELSE Direct(p, f)
  /\ \A f : IsPrefixHeader(q, f) <=>
       IsPrefixHeader(p, f) \/ (f = includee /\ IsPchInCode(q, includer))
  /\ MoreAssociated(p, q, includer, includee)
  /\ q.num_includes_seen = Counted(p, includer)
  /\ SameOutside(p, q, AssociationFields \cup CountedFields)

LEMMA AddDirectIncludeInfo ==
  ASSUME NEW s, IsState(s), NEW line
  PROVE  /\ IsState(AddDirectInclude(s, line))
         /\ IncludeAdded(s.pp, AddDirectInclude(s, line).pp, line.includer, line.includee)
<1> DEFINE p == s.pp
           includer == line.includer
           includee == line.includee
           counted == [p EXCEPT !.num_includes_seen = Counted(p, includer)]
           got == GetFromFileInfoMap(counted, includer)
           direct == Report(got, includer, "direct_includes", includee)
           added == InsertIntoFileInfoMap(direct, includee, line.as_written)
           pch == MarkPchInCode(added, includer, includee)
           marked == MarkAssociated(pch, includer, includee)
           named == IF line.as_written = Picker!NotWritten THEN marked
                    ELSE [marked EXCEPT !.include_to_fileentry_map =
                            Insert(@, line.as_written, includee)]
           told == Picker!AddDirectInclude(s.picker, includer, includee, line.as_written)
           t == MaybeProtectInclude([pp |-> named, picker |-> told], line)
<1>1. AddDirectInclude(s, line) = t
  BY DEF AddDirectInclude, Counted
<1>2. /\ WellFormed(counted)
      /\ counted.num_includes_seen = Counted(p, includer)
      /\ Seen(counted) = Seen(p)
      /\ SameInfos(p, counted)
      /\ SameOutside(p, counted, {"num_includes_seen"})
  <2>1. WellFormed(p)
    BY DEF IsState
  <2> DEFINE n == Counted(p, includer)
  <2> HIDE DEF n, p
  <2>2. counted = [p EXCEPT !.num_includes_seen = n]
    BY DEF n
  <2> HIDE DEF counted
  <2>3. /\ DOMAIN counted = Fields
        /\ counted.num_includes_seen = n
        /\ counted.iwyu_file_info_map = p.iwyu_file_info_map
        /\ SameOutside(p, counted, {"num_includes_seen"})
    BY <2>1, <2>2 DEF WellFormed, SameOutside, Fields
  <2>4. WellFormed(counted) /\ Seen(counted) = Seen(p)
    BY <2>1, <2>3 DEF WellFormed, Seen
  <2>5. SameInfos(p, counted)
    BY <2>3, <2>4 DEF SameInfos, Direct, Associated, IsPrefixHeader
  <2> QED BY <2>3, <2>4, <2>5 DEF n
<1> HIDE DEF counted
<1>3. /\ WellFormed(got)
      /\ Seen(got) = Seen(p) \cup {includer}
      /\ SameInfos(counted, got)
      /\ SameOutside(counted, got, {"iwyu_file_info_map"})
  BY <1>2, InsertInfo DEF GetFromFileInfoMap
<1> HIDE DEF got
<1>4. /\ WellFormed(direct)
      /\ Seen(direct) = Seen(p) \cup {includer}
      /\ \A f : Direct(direct, f) = IF f = includer THEN Direct(got, f) \cup {includee}
                                    ELSE Direct(got, f)
      /\ \A f : Associated(direct, f) = Associated(got, f)
      /\ \A f : IsPrefixHeader(direct, f) <=> IsPrefixHeader(got, f)
      /\ SameOutside(got, direct, {"iwyu_file_info_map"})
  BY <1>3, ReportDirect
<1> HIDE DEF direct
<1>5. /\ WellFormed(added)
      /\ Seen(added) = Seen(p) \cup {includer, includee}
      /\ SameInfos(direct, added)
      /\ SameOutside(direct, added, {"iwyu_file_info_map"})
  BY <1>4, InsertInfo
<1> HIDE DEF added
<1>6. /\ WellFormed(pch)
      /\ Seen(pch) = Seen(added)
      /\ \A f : Direct(pch, f) = Direct(added, f)
      /\ \A f : Associated(pch, f) = Associated(added, f)
      /\ \A f : IsPrefixHeader(pch, f) <=>
                   \/ IsPrefixHeader(added, f)
                   \/ f = includee /\ IsPchInCode(added, includer)
      /\ SameOutside(added, pch, {"iwyu_file_info_map"})
  BY <1>5, MarkPchInfo
<1> HIDE DEF pch
<1>7. Associates(pch, marked, includer, includee)
  BY <1>5, <1>6, MarkAssociatedInfo
<1> HIDE DEF marked
<1>8. /\ WellFormed(named)
      /\ Seen(named) = Seen(marked)
      /\ SameInfos(marked, named)
      /\ SameOutside(marked, named, {"include_to_fileentry_map"})
  <2> DEFINE more == Insert(marked.include_to_fileentry_map, line.as_written, includee)
             noted == [marked EXCEPT !.include_to_fileentry_map = more]
  <2>1. WellFormed(marked)
    BY <1>7 DEF Associates
  <2> HIDE DEF more
  <2>2. /\ DOMAIN noted = Fields
        /\ noted.iwyu_file_info_map = marked.iwyu_file_info_map
        /\ SameOutside(marked, noted, {"include_to_fileentry_map"})
    BY <2>1 DEF WellFormed, SameOutside, Fields
  <2>3. named = marked \/ named = noted
    BY Zenon DEF more
  <2> HIDE DEF noted, named
  <2>4. /\ DOMAIN named = Fields
        /\ named.iwyu_file_info_map = marked.iwyu_file_info_map
        /\ SameOutside(marked, named, {"include_to_fileentry_map"})
    BY <2>1, <2>2, <2>3 DEF WellFormed, SameOutside
  <2>5. WellFormed(named) /\ Seen(named) = Seen(marked)
    BY <2>1, <2>4 DEF WellFormed, Seen
  <2>6. SameInfos(marked, named)
    BY <2>4, <2>5 DEF SameInfos, Direct, Associated, IsPrefixHeader
  <2> QED BY <2>4, <2>5, <2>6
<1> HIDE DEF named
<1>9. IsState(t) /\ SameButUses(named, t.pp)
  <2> DEFINE u == [pp |-> named, picker |-> told]
  <2>1. IsState(u) /\ u.pp = named
    BY <1>8 DEF IsState
  <2>2. line.includer \in Seen(named)
    BY <1>5, <1>6, <1>7, <1>8 DEF Associates
  <2> HIDE DEF u
  <2> QED BY <2>1, <2>2, MaybeProtectSame DEF u
<1> HIDE DEF t
<1> DEFINE q == t.pp
<1>10. WellFormed(q) /\ Seen(q) = Seen(p) \cup {includer, includee}
  BY <1>5, <1>6, <1>7, <1>8, <1>9 DEF Associates, SameButUses
<1>11. \A f : Direct(q, f) = IF f = includer THEN Direct(p, f) \cup {includee}
                             ELSE Direct(p, f)
  <2>1. \A f : Direct(got, f) = Direct(p, f)
    BY <1>2, <1>3 DEF SameInfos
  <2>2. \A f : Direct(q, f) = Direct(direct, f)
    BY <1>5, <1>6, <1>7, <1>8, <1>9 DEF Associates, SameButUses, SameInfos
  <2> HIDE DEF q, p, includer, includee
  <2> QED BY <1>4, <2>1, <2>2
<1>12. SameOutside(p, q, AssociationFields \cup CountedFields)
  <2> HIDE DEF q, p
  <2>1. SameOutside(p, added, AssociationFields \cup CountedFields)
    BY <1>2, <1>3, <1>4, <1>5 DEF SameOutside, AssociationFields, CountedFields
  <2>2. SameOutside(added, marked, AssociationFields)
    BY <1>6, <1>7 DEF Associates, SameOutside, AssociationFields
  <2>3. SameOutside(marked, q, {"iwyu_file_info_map", "include_to_fileentry_map"})
    BY <1>8, <1>9 DEF SameButUses, SameOutside, q
  <2> QED BY <2>1, <2>2, <2>3 DEF SameOutside, AssociationFields, CountedFields
<1>13. /\ q.num_includes_seen = Counted(p, includer)
       /\ added.num_includes_seen = q.num_includes_seen
       /\ added.check_also = p.check_also
       /\ pch.check_also = p.check_also
       /\ q.check_also = marked.check_also
       /\ added.pch_in_code = q.pch_in_code
       /\ added.main_file = q.main_file
  <2> HIDE DEF q, p
  <2>1. /\ added.num_includes_seen = Counted(p, includer)
        /\ added.check_also = p.check_also
        /\ added.main_file = p.main_file
        /\ added.pch_in_code = p.pch_in_code
    BY <1>2, <1>3, <1>4, <1>5 DEF SameOutside, Fields
  <2>2. /\ marked.num_includes_seen = added.num_includes_seen
        /\ marked.main_file = added.main_file
        /\ marked.pch_in_code = added.pch_in_code
        /\ pch.check_also = added.check_also
    BY <1>6, <1>7 DEF Associates, SameOutside, Fields, AssociationFields
  <2>3. /\ q.num_includes_seen = marked.num_includes_seen
        /\ q.main_file = marked.main_file
        /\ q.pch_in_code = marked.pch_in_code
        /\ q.check_also = marked.check_also
    BY <1>8, <1>9 DEF SameButUses, SameOutside, Fields, q
  <2> QED BY <2>1, <2>2, <2>3
<1>14. \A f : IsPrefixHeader(q, f) <=>
         IsPrefixHeader(p, f) \/ (f = includee /\ IsPchInCode(q, includer))
  <2>1. \A f : IsPrefixHeader(added, f) <=> IsPrefixHeader(p, f)
    BY <1>2, <1>3, <1>4, <1>5 DEF SameInfos
  <2>2. \A f : IsPrefixHeader(q, f) <=> IsPrefixHeader(pch, f)
    BY <1>7, <1>8, <1>9 DEF Associates, SameButUses, SameInfos
  <2>3. IsPchInCode(q, includer) <=> IsPchInCode(added, includer)
    <3> HIDE DEF q
    <3> QED BY <1>13 DEF IsPchInCode
  <2> HIDE DEF q, p, includer, includee
  <2> QED BY <1>6, <2>1, <2>2, <2>3
<1>15. MoreAssociated(p, q, includer, includee)
  <2>1. \A f : Associated(pch, f) = Associated(p, f)
    BY <1>2, <1>3, <1>4, <1>5, <1>6 DEF SameInfos
  <2>2. \A f : Associated(q, f) = Associated(marked, f)
    BY <1>8, <1>9 DEF SameButUses, SameInfos
  <2>3. MoreAssociated(pch, marked, includer, includee)
    BY <1>7 DEF Associates
  <2> HIDE DEF q, p, includer, includee
  <2> QED BY <2>1, <2>2, <2>3, <1>13 DEF MoreAssociated
<1>16. IncludeAdded(p, q, includer, includee)
  <2> HIDE DEF q, p, includer, includee
  <2> QED BY <1>10, <1>11, <1>12, <1>13, <1>14, <1>15 DEF IncludeAdded
<1> QED BY <1>1, <1>9, <1>16

-----------------------------------------------------------------------------
(* Comments. *)

ScopeFields == {"begin_exports_location_stack", "begin_keep_location_stack"}

PragmaFields == ScopeFields \cup {"associated_pragma_location",
  "always_keep_files", "no_include_map", "no_forward_declare_map"}

(* What a comment in file does to the scopes that are open.                 *)
ScopesAfterComment(p, q, file) ==
  LET exports == p.begin_exports_location_stack
      keeps == p.begin_keep_location_stack
      new_exports == q.begin_exports_location_stack
      new_keeps == q.begin_keep_location_stack
      none_open == ~HasOpenBeginExports(p, file) /\ ~HasOpenBeginKeep(p, file)
  IN  \/ new_exports = exports /\ new_keeps = keeps
      \/ none_open /\ new_exports = Append(exports, file) /\ new_keeps = keeps
      \/ none_open /\ new_exports = exports /\ new_keeps = Append(keeps, file)
      \/ HasOpenBeginExports(p, file) /\ new_exports = Front(exports) /\ new_keeps = keeps
      \/ HasOpenBeginKeep(p, file) /\ new_exports = exports /\ new_keeps = Front(keeps)

Commenting(p, q, file) ==
  /\ DOMAIN q = Fields
  /\ SameOutside(p, q, PragmaFields)
  /\ ScopesAfterComment(p, q, file)

LEMMA SameInfoMap ==
  ASSUME NEW p, WellFormed(p), NEW q, DOMAIN q = Fields,
         q.iwyu_file_info_map = p.iwyu_file_info_map
  PROVE  WellFormed(q) /\ Seen(q) = Seen(p) /\ SameInfos(p, q)
<1>1. WellFormed(q) /\ Seen(q) = Seen(p)
  BY DEF WellFormed, Seen
<1> QED BY <1>1 DEF SameInfos, Direct, Associated, IsPrefixHeader

LEMMA SetOtherField ==
  ASSUME NEW p, DOMAIN p = Fields, NEW file, NEW v,
         NEW x \in PragmaFields \ ScopeFields
  PROVE  Commenting(p, [p EXCEPT ![x] = v], file)
BY DEF Commenting, SameOutside, ScopesAfterComment, PragmaFields, ScopeFields, Fields

LEMMA OpenPragmaInfo ==
  ASSUME NEW s, IsState(s), NEW file, NEW pragma,
         ~HasOpenBeginExports(s.pp, file), ~HasOpenBeginKeep(s.pp, file)
  PROVE  LET t == HandleOpenPragma(s, file, pragma)
         IN  DOMAIN t = {"pp", "picker"} /\ Commenting(s.pp, t.pp, file)
<1> DEFINE t == HandleOpenPragma(s, file, pragma)
           p == s.pp
<1>1. DOMAIN s = {"pp", "picker"} /\ DOMAIN p = Fields
  BY DEF IsState, WellFormed
<1>2. DOMAIN s = {"pp", "picker"} /\ Commenting(p, p, file)
  BY <1>1 DEF Commenting, SameOutside, ScopesAfterComment
<1>3. CASE pragma.kind = "begin_exports"
  <2> DEFINE scopes == Append(p.begin_exports_location_stack, file)
             q == [p EXCEPT !.begin_exports_location_stack = scopes]
  <2>1. t = [s EXCEPT !.pp = q]
    BY <1>3 DEF HandleOpenPragma
  <2>2. Commenting(p, q, file)
    BY <1>1 DEF Commenting, SameOutside, ScopesAfterComment, PragmaFields, ScopeFields, Fields
  <2> HIDE DEF q, t
  <2> QED BY <1>1, <2>1, <2>2 DEF t
<1>4. CASE pragma.kind = "begin_keep"
  <2> DEFINE scopes == Append(p.begin_keep_location_stack, file)
             q == [p EXCEPT !.begin_keep_location_stack = scopes]
  <2>1. t = [s EXCEPT !.pp = q]
    BY <1>4 DEF HandleOpenPragma
  <2>2. Commenting(p, q, file)
    BY <1>1 DEF Commenting, SameOutside, ScopesAfterComment, PragmaFields, ScopeFields, Fields
  <2> HIDE DEF q, t
  <2> QED BY <1>1, <2>1, <2>2 DEF t
<1>5. CASE pragma.kind \in {"no_include", "no_forward_declare", "associated", "always_keep"}
  <2>1. \E x \in PragmaFields \ ScopeFields : \E v : t = [s EXCEPT !.pp = [p EXCEPT ![x] = v]]
    <3>1. CASE pragma.kind = "no_include"
      <4>1. t = [s EXCEPT !.pp = [p EXCEPT !.no_include_map = @ \cup {<<file, pragma.arg>>}]]
        BY <3>1 DEF HandleOpenPragma
      <4> QED BY <4>1 DEF PragmaFields, ScopeFields
    <3>2. CASE pragma.kind = "no_forward_declare"
      <4>1. t = [s EXCEPT !.pp = [p EXCEPT !.no_forward_declare_map =
                                    @ \cup {<<file, pragma.arg>>}]]
        BY <3>2 DEF HandleOpenPragma
      <4> QED BY <4>1 DEF PragmaFields, ScopeFields
    <3>3. CASE pragma.kind = "associated"
      <4>1. t = [s EXCEPT !.pp = [p EXCEPT !.associated_pragma_location =
                                    IF @ = NoFile THEN file ELSE @]]
        BY <3>3 DEF HandleOpenPragma
      <4> QED BY <4>1 DEF PragmaFields, ScopeFields
    <3>4. CASE pragma.kind = "always_keep"
      <4>1. t = [s EXCEPT !.pp = [p EXCEPT !.always_keep_files = @ \cup {file}]]
        BY <3>4 DEF HandleOpenPragma
      <4> QED BY <4>1 DEF PragmaFields, ScopeFields
    <3> QED BY <1>5, <3>1, <3>2, <3>3, <3>4
  <2>2. PICK x \in PragmaFields \ ScopeFields : \E v : t = [s EXCEPT !.pp = [p EXCEPT ![x] = v]]
    BY <2>1
  <2>3. PICK v : t = [s EXCEPT !.pp = [p EXCEPT ![x] = v]]
    BY <2>2
  <2> DEFINE q == [p EXCEPT ![x] = v]
  <2>4. Commenting(p, q, file)
    BY <1>1, SetOtherField
  <2> HIDE DEF q, t
  <2> QED BY <1>1, <2>3, <2>4 DEF t, q
<1>6. CASE pragma.kind \in {"private_include", "private", "friend"}
  <2>1. \E v : t = [s EXCEPT !.picker = v]
    BY <1>6 DEF HandleOpenPragma
  <2>2. PICK v : t = [s EXCEPT !.picker = v]
    BY <2>1
  <2> HIDE DEF t
  <2> QED BY <1>1, <1>2, <2>2 DEF t
<1>7. CASE pragma.kind \notin {"begin_exports", "begin_keep", "no_include",
             "no_forward_declare", "associated", "always_keep", "private_include",
             "private", "friend"}
  <2>1. t = s
    BY <1>7 DEF HandleOpenPragma
  <2> QED BY <1>2, <2>1
<1> HIDE DEF t
<1> QED BY <1>3, <1>4, <1>5, <1>6, <1>7 DEF t

LEMMA CommentInfo ==
  ASSUME NEW s, IsState(s), NEW file, NEW pragma
  PROVE  LET t == HandlePragmaComment(s, file, pragma)
         IN  IsState(t) /\ Commenting(s.pp, t.pp, file)
<1> DEFINE t == HandlePragmaComment(s, file, pragma)
           p == s.pp
<1>1. DOMAIN s = {"pp", "picker"} /\ DOMAIN p = Fields
  BY DEF IsState, WellFormed
<1>2. DOMAIN s = {"pp", "picker"} /\ Commenting(p, p, file)
  BY <1>1 DEF Commenting, SameOutside, ScopesAfterComment
<1>3. DOMAIN t = {"pp", "picker"} /\ Commenting(p, t.pp, file)
  <2>1. CASE HasOpenBeginExports(p, file)
    <3> DEFINE scopes == Front(p.begin_exports_location_stack)
               q == [p EXCEPT !.begin_exports_location_stack = scopes]
    <3>1. t = s \/ t = [s EXCEPT !.pp = q]
      BY <2>1 DEF HandlePragmaComment
    <3>2. Commenting(p, q, file)
      BY <1>1, <2>1
         DEF Commenting, SameOutside, ScopesAfterComment, PragmaFields, ScopeFields, Fields
    <3> HIDE DEF q, t
    <3> QED BY <1>1, <1>2, <3>1, <3>2 DEF t
  <2>2. CASE ~HasOpenBeginExports(p, file) /\ HasOpenBeginKeep(p, file)
    <3> DEFINE scopes == Front(p.begin_keep_location_stack)
               q == [p EXCEPT !.begin_keep_location_stack = scopes]
    <3>1. t = s \/ t = [s EXCEPT !.pp = q]
      BY <2>2 DEF HandlePragmaComment
    <3>2. Commenting(p, q, file)
      BY <1>1, <2>2
         DEF Commenting, SameOutside, ScopesAfterComment, PragmaFields, ScopeFields, Fields
    <3> HIDE DEF q, t
    <3> QED BY <1>1, <1>2, <3>1, <3>2 DEF t
  <2>3. CASE ~HasOpenBeginExports(p, file) /\ ~HasOpenBeginKeep(p, file)
    BY <2>3, OpenPragmaInfo DEF HandlePragmaComment
  <2> QED BY <2>1, <2>2, <2>3
<1> HIDE DEF t
<1>4. t.pp.iwyu_file_info_map = p.iwyu_file_info_map
  BY <1>3 DEF Commenting, SameOutside, PragmaFields, ScopeFields, Fields
<1>5. WellFormed(t.pp)
  BY <1>3, <1>4, SameInfoMap DEF Commenting, IsState
<1> QED BY <1>3, <1>5 DEF IsState, t

-----------------------------------------------------------------------------
(* Files are entered and skipped. *)

Reported(p) == p.files_to_report_iwyu_violations_for

ReportedFields == {"files_to_report_iwyu_violations_for"}

Noted(p, q, file) ==
  /\ DOMAIN q = Fields
  /\ SameOutside(p, q, ReportedFields)
  /\ Reported(p) \subseteq Reported(q)
  /\ file \in p.check_also => file \in Reported(q)

LEMMA NoteReportedInfo ==
  ASSUME NEW p, DOMAIN p = Fields, NEW file
  PROVE  Noted(p, NoteReported(p, file), file)
<1>1. CASE file \in p.check_also
  <2> DEFINE more == Reported(p) \cup {file}
             q == [p EXCEPT !.files_to_report_iwyu_violations_for = more]
  <2>1. NoteReported(p, file) = q
    BY <1>1 DEF NoteReported, ShouldReportIWYUViolationsFor, Reported
  <2>2. Reported(q) = more
    BY DEF Reported, Fields
  <2>3. Noted(p, q, file)
    BY <2>2 DEF Noted, SameOutside, ReportedFields, Fields
  <2> QED BY <2>1, <2>3
<1>2. CASE file \notin p.check_also
  <2>1. NoteReported(p, file) = p
    BY <1>2 DEF NoteReported, ShouldReportIWYUViolationsFor
  <2> QED BY <2>1, <1>2 DEF Noted, SameOutside
<1> QED BY <1>1, <1>2

LEMMA SkippedInfo ==
  ASSUME NEW s, IsState(s), NEW line
  PROVE  LET c == AddDirectInclude(s, line).pp
             t == FileSkipped(s, line)
         IN  IsState(t) /\ Noted(c, t.pp, line.includee) /\ SameInfos(c, t.pp)
             /\ Seen(t.pp) = Seen(c)
<1> DEFINE a == AddDirectInclude(s, line)
           t == FileSkipped(s, line)
           q == NoteReported(a.pp, line.includee)
<1>1. IsState(a)
  BY AddDirectIncludeInfo
<1>2. t = [a EXCEPT !.pp = q]
  BY DEF FileSkipped
<1>3. Noted(a.pp, q, line.includee)
  BY <1>1, NoteReportedInfo DEF IsState, WellFormed
<1> HIDE DEF q, a, t
<1>4. q.iwyu_file_info_map = a.pp.iwyu_file_info_map
  BY <1>3 DEF Noted, SameOutside, ReportedFields, Fields
<1>5. WellFormed(q) /\ Seen(q) = Seen(a.pp) /\ SameInfos(a.pp, q)
  BY <1>1, <1>3, <1>4, SameInfoMap DEF Noted, IsState
<1> QED BY <1>1, <1>2, <1>3, <1>5 DEF IsState, t, a

EnteredFields ==
  {"iwyu_file_info_map", "main_file", "check_also"} \cup ReportedFields

(* FileChanged_EnterFile after the #include line.                           *)
Entered(c, q, includer, includee) ==
  /\ WellFormed(q)
  /\ Seen(q) = Seen(c)
  /\ \A f : Direct(q, f) = Direct(c, f)
  /\ \A f : Associated(q, f) = Associated(c, f)
  /\ \A f : IsPrefixHeader(q, f) <=>
       \/ IsPrefixHeader(c, f)
       \/ /\ f = includee
          /\ IF IsSpecialFilename(includer) THEN includee # q.main_file
             ELSE IsPrefixHeader(c, includer)
  /\ q.main_file = IF IsSpecialFilename(c.main_file) THEN includee ELSE c.main_file
  /\ Reported(c) \subseteq Reported(q)
  /\ includee \in c.check_also => includee \in Reported(q)
  /\ SameOutside(c, q, EnteredFields)

LEMMA EnteredInfo ==
  ASSUME NEW s, IsState(s), NEW line
  PROVE  LET c == AddDirectInclude(s, line).pp
             t == FileChanged_EnterFile(s, line)
         IN  IsState(t) /\ Entered(c, t.pp, line.includer, line.includee)
<1> DEFINE includer == line.includer
           file == line.includee
           a == AddDirectInclude(s, line)
           c == a.pp
           named == ProcessHeadernameDirectivesInFile(a, file, line.as_written)
           main == IF IsSpecialFilename(c.main_file) THEN file ELSE c.main_file
           with_main == [c EXCEPT !.main_file = main]
           belongs == BelongsToMainCompilationUnit(with_main, includer, file)
           more == with_main.check_also \cup {file}
           belonging == IF belongs THEN [with_main EXCEPT !.check_also = more]
                        ELSE with_main
           noted == NoteReported(belonging, file)
           inherits == IF IsSpecialFilename(includer) THEN file # belonging.main_file
                       ELSE belonging.iwyu_file_info_map[includer].is_prefix_header
           old == noted.iwyu_file_info_map
           infos == [old EXCEPT ![file].is_prefix_header = @ \/ inherits]
           q == [noted EXCEPT !.iwyu_file_info_map = infos]
           t == FileChanged_EnterFile(s, line)
<1>1. IsState(a) /\ Seen(c) = Seen(s.pp) \cup {includer, file}
  BY AddDirectIncludeInfo DEF IncludeAdded
<1> HIDE DEF a
<1>2. named.pp = c
  <2>1. named = a \/ \E v : named = [a EXCEPT !.picker = v]
    BY DEF ProcessHeadernameDirectivesInFile
  <2> HIDE DEF named
  <2> QED BY <1>1, <2>1 DEF IsState
<1>3. t = [pp |-> q, picker |-> named.picker]
  BY <1>2 DEF FileChanged_EnterFile, a
<1> HIDE DEF named, t, main
<1>4. /\ DOMAIN with_main = Fields
      /\ with_main.main_file = main
      /\ SameOutside(c, with_main, {"main_file"})
  <2> HIDE DEF c
  <2> QED BY <1>1 DEF SameOutside, Fields, WellFormed, IsState, c
<1> HIDE DEF with_main, more, belongs
<1>5. /\ DOMAIN belonging = Fields
      /\ with_main.check_also \subseteq belonging.check_also
      /\ SameOutside(with_main, belonging, {"check_also"})
  <2> DEFINE widened == [with_main EXCEPT !.check_also = more]
  <2>1. belonging = with_main \/ belonging = widened
    BY Zenon
  <2>2. /\ DOMAIN widened = Fields
        /\ with_main.check_also \subseteq widened.check_also
        /\ SameOutside(with_main, widened, {"check_also"})
    BY <1>4 DEF SameOutside, Fields, more
  <2> HIDE DEF belonging, widened
  <2> QED BY <1>4, <2>1, <2>2 DEF SameOutside
<1> HIDE DEF belonging
<1>6. Noted(belonging, noted, file)
  BY <1>5, NoteReportedInfo
<1> HIDE DEF noted
<1>7. /\ noted.iwyu_file_info_map = c.iwyu_file_info_map
      /\ belonging.iwyu_file_info_map = c.iwyu_file_info_map
      /\ noted.main_file = main
      /\ belonging.main_file = main
      /\ c.check_also \subseteq belonging.check_also
      /\ Reported(belonging) = Reported(c)
  <2> HIDE DEF c
  <2>1. /\ with_main.iwyu_file_info_map = c.iwyu_file_info_map
        /\ with_main.check_also = c.check_also
        /\ with_main.files_to_report_iwyu_violations_for
             = c.files_to_report_iwyu_violations_for
    BY <1>4 DEF SameOutside, Fields
  <2>2. /\ belonging.iwyu_file_info_map = with_main.iwyu_file_info_map
        /\ belonging.main_file = with_main.main_file
        /\ belonging.files_to_report_iwyu_violations_for
             = with_main.files_to_report_iwyu_violations_for
    BY <1>5 DEF SameOutside, Fields
  <2>3. /\ noted.iwyu_file_info_map = belonging.iwyu_file_info_map
        /\ noted.main_file = belonging.main_file
    BY <1>6 DEF Noted, SameOutside, ReportedFields, Fields
  <2> QED BY <1>4, <1>5, <2>1, <2>2, <2>3 DEF Reported
<1>8. /\ WellFormed(noted) /\ Seen(noted) = Seen(c) /\ SameInfos(c, noted)
  BY <1>1, <1>6, <1>7, SameInfoMap DEF IsState, Noted
<1>9. /\ DOMAIN q = Fields
      /\ q.iwyu_file_info_map = infos
      /\ SameOutside(noted, q, {"iwyu_file_info_map"})
  <2> HIDE DEF infos
  <2> QED BY <1>8 DEF WellFormed, SameOutside, Fields
<1> HIDE DEF q
<1>10. /\ DOMAIN infos = Seen(c)
       /\ \A f \in Seen(c) \ {file} : infos[f] = old[f]
       /\ infos[file] = [old[file] EXCEPT !.is_prefix_header = @ \/ inherits]
  BY <1>8, <1>1 DEF Seen
<1>11. /\ DOMAIN infos[file] = InfoFields
       /\ infos[file].direct_includes = old[file].direct_includes
       /\ infos[file].associated_headers = old[file].associated_headers
       /\ infos[file].is_prefix_header = (old[file].is_prefix_header \/ inherits)
  <2>1. DOMAIN old[file] = InfoFields
    BY <1>1, <1>8 DEF WellFormed, Seen
  <2> HIDE DEF infos, old, inherits
  <2> QED BY <1>10, <2>1 DEF InfoFields
<1>12. inherits <=> IF IsSpecialFilename(includer) THEN file # main
                    ELSE IsPrefixHeader(c, includer)
  <2>1. includer \in Seen(c)
    BY <1>1
  <2> HIDE DEF includer, file, c
  <2> QED BY <1>7, <2>1 DEF IsPrefixHeader
<1> HIDE DEF infos, inherits, old
<1>13. WellFormed(q) /\ Seen(q) = Seen(c)
  <2>1. Seen(q) = Seen(c)
    BY <1>9, <1>10 DEF Seen
  <2>2. \A f \in Seen(q) : DOMAIN infos[f] = InfoFields
    BY <1>8, <1>10, <1>11, <2>1 DEF WellFormed, Seen, old
  <2> QED BY <1>9, <2>1, <2>2 DEF WellFormed, Seen
<1>14. file \in Seen(c) /\ noted.iwyu_file_info_map = old
  BY <1>1 DEF old
<1>15. \A f : Direct(q, f) = Direct(noted, f)
  <2> HIDE DEF c, file
  <2> QED BY <1>8, <1>9, <1>10, <1>11, <1>13, <1>14 DEF Direct
<1>16. \A f : Associated(q, f) = Associated(noted, f)
  <2> HIDE DEF c, file
  <2> QED BY <1>8, <1>9, <1>10, <1>11, <1>13, <1>14 DEF Associated
<1>17. \A f : IsPrefixHeader(q, f) <=> IsPrefixHeader(noted, f) \/ (f = file /\ inherits)
  <2> HIDE DEF c, file
  <2> QED BY <1>8, <1>9, <1>10, <1>11, <1>13, <1>14 DEF IsPrefixHeader
<1>18. /\ q.main_file = main
       /\ q.files_to_report_iwyu_violations_for
            = noted.files_to_report_iwyu_violations_for
  BY <1>7, <1>9 DEF SameOutside, Fields
<1>19. SameOutside(c, q, EnteredFields)
  <2> HIDE DEF c
  <2> QED BY <1>4, <1>5, <1>6, <1>9 DEF SameOutside, Noted, EnteredFields, ReportedFields
<1>20. Entered(c, q, includer, file)
  <2>1. /\ Reported(c) \subseteq Reported(q)
        /\ file \in c.check_also => file \in Reported(q)
    BY <1>6, <1>7, <1>18 DEF Noted, Reported
  <2>2. main = IF IsSpecialFilename(c.main_file) THEN file ELSE c.main_file
    BY DEF main
  <2> HIDE DEF c, includer, file
  <2> QED BY <1>8, <1>12, <1>13, <1>15, <1>16, <1>17, <1>18, <1>19, <2>1, <2>2
          DEF Entered, SameInfos
<1> HIDE DEF includer, file
<1>21. IsState(t) /\ t.pp = q
  BY <1>3, <1>13 DEF IsState
<1> QED BY <1>20, <1>21 DEF t, a, includer, file

-----------------------------------------------------------------------------
(* Macros are used, files are left, and the source ends. *)

LEMMA MacroUseInfo ==
  ASSUME NEW p, WellFormed(p), NEW used_in \in Seen(p), NEW defined_in \in Seen(p)
  PROVE  SameButUses(p, ReportMacroUse(p, used_in, defined_in))
<1>1. ASSUME NEW q, SameButUses(p, q), NEW file \in Seen(p), NEW element,
             NEW set \in {"kept_includes", "include_uses", "macro_uses", "macro_users"}
      PROVE  SameButUses(p, Report(GetFromFileInfoMap(q, file), file, set, element))
  <2> DEFINE r == GetFromFileInfoMap(q, file)
  <2>1. SameButUses(q, r)
    <3>1. Seen(q) \cup {file} = Seen(q)
      BY <1>1 DEF SameButUses
    <3>2. WellFormed(q)
      BY <1>1 DEF SameButUses
    <3> QED BY <3>1, <3>2, InsertInfo DEF GetFromFileInfoMap, SameButUses
  <2>2. WellFormed(r) /\ file \in Seen(r)
    BY <1>1, <2>1 DEF SameButUses
  <2> HIDE DEF r
  <2>3. SameButUses(r, Report(r, file, set, element))
    BY <2>2, ReportUses
  <2>4. SameButUses(p, r)
    BY <1>1, <2>1, SameIsTransitive
  <2> QED BY <2>3, <2>4, SameIsTransitive DEF r
<1> DEFINE reported == IF ShouldReportIWYUViolationsFor(p, used_in)
                       THEN Report(GetFromFileInfoMap(p, used_in),
                                   used_in, "macro_uses", defined_in)
                       ELSE p
<1>2. SameButUses(p, reported)
  <2>1. SameButUses(p, p)
    BY SameAsItself
  <2> DEFINE set == "macro_uses"
  <2>2. set \in {"kept_includes", "include_uses", "macro_uses", "macro_users"}
    OBVIOUS
  <2> HIDE DEF set
  <2>3. SameButUses(p, Report(GetFromFileInfoMap(p, used_in), used_in, set, defined_in))
    BY <1>1, <2>1, <2>2
  <2> QED BY <2>1, <2>3 DEF set
<1> HIDE DEF reported
<1>3. SameButUses(p, Report(GetFromFileInfoMap(reported, defined_in),
                            defined_in, "macro_users", used_in))
  <2> DEFINE set == "macro_users"
  <2>1. set \in {"kept_includes", "include_uses", "macro_uses", "macro_users"}
    OBVIOUS
  <2> HIDE DEF set
  <2>2. SameButUses(p, Report(GetFromFileInfoMap(reported, defined_in),
                              defined_in, set, used_in))
    BY <1>1, <1>2, <2>1
  <2> QED BY <2>2 DEF set
<1> QED BY <1>3 DEF ReportMacroUse, reported

ScopesLeft(p, q, file) ==
  /\ q.begin_exports_location_stack =
       IF HasOpenBeginExports(p, file) THEN Front(p.begin_exports_location_stack)
       ELSE p.begin_exports_location_stack
  /\ q.begin_keep_location_stack =
       IF HasOpenBeginKeep(p, file) THEN Front(p.begin_keep_location_stack)
       ELSE p.begin_keep_location_stack

Left(p, q, file) ==
  DOMAIN q = Fields /\ SameOutside(p, q, ScopeFields) /\ ScopesLeft(p, q, file)

LEMMA ExitInfo ==
  ASSUME NEW p, WellFormed(p), NEW file
  PROVE  LET q == FileChanged_ExitToFile(p, file)
         IN  /\ Left(p, q, file)
             /\ WellFormed(q) /\ Seen(q) = Seen(p) /\ SameInfos(p, q)
<1> DEFINE exports == IF HasOpenBeginExports(p, file)
                      THEN Front(p.begin_exports_location_stack)
                      ELSE p.begin_exports_location_stack
           keeps == IF HasOpenBeginKeep(p, file)
                    THEN Front(p.begin_keep_location_stack)
                    ELSE p.begin_keep_location_stack
           q == FileChanged_ExitToFile(p, file)
<1>1. q = [p EXCEPT !.begin_exports_location_stack = exports,
                    !.begin_keep_location_stack = keeps]
  BY DEF FileChanged_ExitToFile
<1>2. DOMAIN p = Fields
  BY DEF WellFormed
<1> HIDE DEF q, exports, keeps
<1>3. /\ DOMAIN q = Fields
      /\ SameOutside(p, q, ScopeFields)
      /\ q.begin_exports_location_stack = exports
      /\ q.begin_keep_location_stack = keeps
  BY <1>1, <1>2 DEF SameOutside, ScopeFields, Fields
<1>4. Left(p, q, file)
  BY <1>3 DEF Left, ScopesLeft, exports, keeps
<1>5. q.iwyu_file_info_map = p.iwyu_file_info_map
  BY <1>3 DEF SameOutside, ScopeFields, Fields
<1> QED BY <1>3, <1>4, <1>5, SameInfoMap DEF q

(* A change of the uses of all files at once.                               *)
LEMMA OtherInfos ==
  ASSUME NEW p, WellFormed(p), NEW infos, DOMAIN infos = Seen(p),
         \A f \in Seen(p) :
            /\ DOMAIN infos[f] = InfoFields
            /\ infos[f].direct_includes = p.iwyu_file_info_map[f].direct_includes
            /\ infos[f].associated_headers = p.iwyu_file_info_map[f].associated_headers
            /\ infos[f].is_prefix_header = p.iwyu_file_info_map[f].is_prefix_header
  PROVE  SameButUses(p, [p EXCEPT !.iwyu_file_info_map = infos])
<1> DEFINE q == [p EXCEPT !.iwyu_file_info_map = infos]
<1>1. /\ DOMAIN q = Fields
      /\ q.iwyu_file_info_map = infos
      /\ SameOutside(p, q, {"iwyu_file_info_map"})
  BY DEF WellFormed, SameOutside, Fields
<1> HIDE DEF q
<1>2. WellFormed(q) /\ Seen(q) = Seen(p)
  BY <1>1 DEF WellFormed, Seen
<1>3. SameInfos(p, q)
  BY <1>1, <1>2 DEF SameInfos, Direct, Associated, IsPrefixHeader
<1> QED BY <1>1, <1>2, <1>3 DEF SameButUses, q

LEMMA KeepUsersInfo ==
  ASSUME NEW p, WellFormed(p)
  PROVE  SameButUses(p, KeepMacroUsers(p))
<1> DEFINE old == p.iwyu_file_info_map
           kept(f) == old[f].kept_includes \cup UsersOfOwnMacros(p, f)
           info(f) == IF ShouldReportIWYUViolationsFor(p, f)
                      THEN [old[f] EXCEPT !.kept_includes = kept(f)] ELSE old[f]
           infos == [f \in Seen(p) |-> info(f)]
<1>1. KeepMacroUsers(p) = [p EXCEPT !.iwyu_file_info_map = infos]
  BY DEF KeepMacroUsers, Seen
<1>2. ASSUME NEW f \in Seen(p)
      PROVE  /\ DOMAIN info(f) = InfoFields
             /\ info(f).direct_includes = old[f].direct_includes
             /\ info(f).associated_headers = old[f].associated_headers
             /\ info(f).is_prefix_header = old[f].is_prefix_header
  <2>1. DOMAIN old[f] = InfoFields
    BY DEF WellFormed, Seen
  <2> HIDE DEF kept, old
  <2> QED BY <2>1 DEF InfoFields
<1>3. DOMAIN infos = Seen(p) /\ \A f \in Seen(p) : infos[f] = info(f)
  OBVIOUS
<1> HIDE DEF info, infos
<1> QED BY <1>1, <1>2, <1>3, OtherInfos

LEMMA EndInfo ==
  ASSUME NEW s, IsState(s)
  PROVE  LET q == HandlePreprocessingDone(s).pp
             left == FileChanged_ExitToFile(s.pp, s.pp.main_file)
         IN  SameButUses(left, q)
<1> DEFINE left == FileChanged_ExitToFile(s.pp, s.pp.main_file)
<1>1. WellFormed(left)
  BY ExitInfo DEF IsState
<1>2. HandlePreprocessingDone(s).pp = KeepMacroUsers(left)
  BY DEF HandlePreprocessingDone
<1> QED BY <1>1, <1>2, KeepUsersInfo

DerivedFields ==
  {"iwyu_file_info_map", "transitive_include_map", "intends_to_provide_map"}

LEMMA PopulateInfo ==
  ASSUME NEW p, WellFormed(p), NEW picked
  PROVE  LET q == PopulateIntendsToProvideMap(
                    PopulateTransitiveIncludeMap(FinalizeProtectedIncludes(p, picked)),
                    picked)
         IN  /\ WellFormed(q)
             /\ Seen(q) = Seen(p)
             /\ SameInfos(p, q)
             /\ SameOutside(p, q, DerivedFields)
<1> DEFINE old == p.iwyu_file_info_map
           Reexported(f, i) == Picker!HasMapping(picked, i, f)
           always(f) == {i \in old[f].direct_includes \cap p.always_keep_files :
                            ~Reexported(f, i)}
           reexported(f) == {i \in old[f].direct_includes : Reexported(f, i)}
           uses(f) == old[f].include_uses \cup reexported(f) \cup always(f)
           kept(f) == old[f].kept_includes \cup always(f)
           info(f) == [old[f] EXCEPT !.include_uses = uses(f), !.kept_includes = kept(f)]
           infos == [f \in Seen(p) |-> info(f)]
           finalized == FinalizeProtectedIncludes(p, picked)
           transitive == PopulateTransitiveIncludeMap(finalized)
           q == PopulateIntendsToProvideMap(transitive, picked)
<1>1. finalized = [p EXCEPT !.iwyu_file_info_map = infos]
  BY DEF FinalizeProtectedIncludes, Seen
<1>2. ASSUME NEW f \in Seen(p)
      PROVE  /\ DOMAIN info(f) = InfoFields
             /\ info(f).direct_includes = old[f].direct_includes
             /\ info(f).associated_headers = old[f].associated_headers
             /\ info(f).is_prefix_header = old[f].is_prefix_header
  <2>1. DOMAIN old[f] = InfoFields
    BY DEF WellFormed, Seen
  <2> HIDE DEF kept, uses, old
  <2> QED BY <2>1 DEF InfoFields
<1>3. DOMAIN infos = Seen(p) /\ \A f \in Seen(p) : infos[f] = info(f)
  OBVIOUS
<1> HIDE DEF info, infos, finalized
<1>4. SameButUses(p, finalized)
  BY <1>1, <1>2, <1>3, OtherInfos
<1>5. \E v : transitive = [finalized EXCEPT !.transitive_include_map = v]
  BY DEF PopulateTransitiveIncludeMap
<1> HIDE DEF transitive
<1>6. \E v : q = [transitive EXCEPT !.intends_to_provide_map = v]
  BY DEF PopulateIntendsToProvideMap
<1> HIDE DEF q
<1>7. /\ DOMAIN q = Fields
      /\ q.iwyu_file_info_map = finalized.iwyu_file_info_map
      /\ SameOutside(finalized, q, DerivedFields)
  <2>1. /\ DOMAIN transitive = Fields
        /\ SameOutside(finalized, transitive, {"transitive_include_map"})
    BY <1>4, <1>5 DEF SameButUses, WellFormed, SameOutside
  <2>2. /\ DOMAIN q = Fields
        /\ SameOutside(transitive, q, {"intends_to_provide_map"})
    BY <2>1, <1>6 DEF SameOutside
  <2> QED BY <2>1, <2>2 DEF SameOutside, DerivedFields, Fields
<1>8. WellFormed(q) /\ Seen(q) = Seen(finalized) /\ SameInfos(finalized, q)
  BY <1>4, <1>7, SameInfoMap DEF SameButUses
<1>9. SameInfos(p, q)
  BY <1>4, <1>8 DEF SameButUses, SameInfos
<1>10. SameOutside(p, q, DerivedFields)
  BY <1>4, <1>7 DEF SameButUses, SameOutside, DerivedFields
<1> QED BY <1>4, <1>8, <1>9, <1>10 DEF SameButUses, q, transitive, finalized

-----------------------------------------------------------------------------
(* The inductive invariant. *)

Paths == Files \cup {SpecialFilename}

Exports == pp.begin_exports_location_stack
Keeps == pp.begin_keep_location_stack

StackTypeOK ==
  include_stack \in Seq([file : Paths, exports : BOOLEAN, live : BOOLEAN])

InfoTypeOK ==
  /\ WellFormed(pp)
  /\ pp.main_file \in Paths
  /\ Exports \in Seq(Paths) /\ Keeps \in Seq(Paths)
  /\ \A f \in DOMAIN pp.num_includes_seen : pp.num_includes_seen[f] \in Nat \ {0}
  /\ Seen(pp) \subseteq Paths
  /\ \A f \in Seen(pp) : /\ Direct(pp, f) \subseteq Files
                         /\ Associated(pp, f) \subseteq Files

TypeOK == StackTypeOK /\ InfoTypeOK

(* The main file is at the bottom of the stack, and nothing is known before *)
(* it is read.                                                             *)
MainFileFirst ==
  /\ include_stack # <<>> => /\ include_stack[1].file = MainFile
                             /\ pp.main_file = MainFile
  /\ IsSpecialFilename(pp.main_file) =>
       /\ include_stack = <<>>
       /\ Seen(pp) = {} /\ DOMAIN pp.num_includes_seen = {}
       /\ Exports = <<>> /\ Keeps = <<>>

FilesSeen ==
  /\ \A i \in DOMAIN include_stack : include_stack[i].file \in Seen(pp)
  /\ \A f \in Seen(pp) : Direct(pp, f) \subseteq Seen(pp)

AssociatedReported == \A f \in Seen(pp) : Associated(pp, f) \subseteq Reported(pp)

IInv == TypeOK /\ MainFileFirst /\ FilesSeen /\ AssociatedReported

-----------------------------------------------------------------------------
(* Scopes. *)

LiveOnce(stack) ==
  \A i, j \in DOMAIN stack :
     stack[i].live /\ stack[j].live /\ stack[i].file = stack[j].file => i = j

(* The scopes are in the order in which their files were entered. *)
Nested(scopes, stack) ==
  /\ \A i \in DOMAIN scopes : \E a \in DOMAIN stack :
        stack[a].live /\ stack[a].file = scopes[i]
  /\ \A i, j \in DOMAIN scopes : \A a, b \in DOMAIN stack :
        /\ i < j
        /\ stack[a].live /\ stack[a].file = scopes[i]
        /\ stack[b].live /\ stack[b].file = scopes[j]
        => a < b

Disjoint(exports, keeps) ==
  \A i \in DOMAIN exports : \A j \in DOMAIN keeps : exports[i] # keeps[j]

ScopesInv ==
  /\ LiveOnce(include_stack)
  /\ Nested(Exports, include_stack) /\ Nested(Keeps, include_stack)
  /\ Disjoint(Exports, Keeps)

-----------------------------------------------------------------------------
(* Prefix headers. *)

Ordinary(p) == Seen(p) \ {MainFile, SpecialFilename}

(* As long as nothing but prefix headers has been read. *)
AllPrefix == \A f \in Ordinary(pp) : IsPrefixHeader(pp, f)

MainFileOnce == \A i \in DOMAIN include_stack : i # 1 => include_stack[i].file # MainFile

PrefixFirst ==
  include_stack # <<>> /\ MainFile \notin DOMAIN pp.num_includes_seen => AllPrefix

PrefixAllTheWay ==
  \A i \in DOMAIN include_stack :
     /\ include_stack[i].live
     /\ \/ IsSpecialFilename(include_stack[i].file)
        \/ IsPrefixHeader(pp, include_stack[i].file)
     => AllPrefix

OthersAreNot == ~IsPrefixHeader(pp, MainFile) /\ ~IsPrefixHeader(pp, SpecialFilename)

Closed == \A f \in Seen(pp) : IsPrefixHeader(pp, f) => \A i \in Direct(pp, f) : IsPrefixHeader(pp, i)

PrefixInv ==
  MainFileOnce /\ PrefixFirst /\ PrefixAllTheWay /\ OthersAreNot /\ Closed

-----------------------------------------------------------------------------
(* What one #include line does to the information. *)

LineRead(p, q, r, e) ==
  /\ WellFormed(q)
  /\ Seen(q) = Seen(p) \cup {r, e}
  /\ \A f : Direct(q, f) = IF f = r THEN Direct(p, f) \cup {e} ELSE Direct(p, f)
  /\ \A f : \/ Associated(q, f) = Associated(p, f)
            \/ /\ f = r
               /\ Associated(q, f) = Associated(p, f) \cup {e}
               /\ e \in Reported(q)
  /\ Reported(p) \subseteq Reported(q)
  /\ q.num_includes_seen = Counted(p, r)
  /\ ScopesAfterComment(p, q, r)
  /\ q.transitive_include_map = p.transitive_include_map

LEMMA LineInfo ==
  ASSUME NEW p, WellFormed(p), NEW d, NEW c, NEW q, NEW r, NEW e,
         Commenting(p, d, r), IncludeAdded(d, c, r, e),
         WellFormed(q), Seen(q) = Seen(c),
         \A f : Direct(q, f) = Direct(c, f),
         \A f : Associated(q, f) = Associated(c, f),
         Reported(c) \subseteq Reported(q),
         e \in c.check_also => e \in Reported(q),
         SameOutside(c, q, EnteredFields)
  PROVE  /\ LineRead(p, q, r, e)
         /\ c.main_file = p.main_file
         /\ c.pch_in_code = p.pch_in_code
         /\ c.num_includes_seen = Counted(p, r)
         /\ \A f : IsPrefixHeader(c, f) <=>
              IsPrefixHeader(p, f) \/ (f = e /\ IsPchInCode(c, r))
<1>1. /\ d.iwyu_file_info_map = p.iwyu_file_info_map
      /\ d.num_includes_seen = p.num_includes_seen
      /\ d.main_file = p.main_file
      /\ d.pch_in_code = p.pch_in_code
      /\ Reported(d) = Reported(p)
  BY DEF Commenting, SameOutside, PragmaFields, ScopeFields, Fields, Reported
<1>2. /\ Seen(d) = Seen(p) /\ SameInfos(p, d)
  BY <1>1, SameInfoMap DEF Commenting
<1>3. /\ c.main_file = d.main_file
      /\ c.pch_in_code = d.pch_in_code
      /\ c.begin_exports_location_stack = d.begin_exports_location_stack
      /\ c.begin_keep_location_stack = d.begin_keep_location_stack
      /\ Reported(c) = Reported(d)
  BY DEF IncludeAdded, SameOutside, AssociationFields, CountedFields, Fields, Reported
<1>4. /\ q.begin_exports_location_stack = c.begin_exports_location_stack
      /\ q.begin_keep_location_stack = c.begin_keep_location_stack
      /\ q.num_includes_seen = c.num_includes_seen
  BY DEF SameOutside, EnteredFields, ReportedFields, Fields
<1>5. c.num_includes_seen = Counted(p, r)
  BY <1>1 DEF IncludeAdded, Counted
<1>6. ScopesAfterComment(p, q, r)
  BY <1>3, <1>4 DEF Commenting, ScopesAfterComment
<1>7. Seen(q) = Seen(p) \cup {r, e}
  BY <1>2 DEF IncludeAdded
<1>8. \A f : Direct(q, f) = IF f = r THEN Direct(p, f) \cup {e} ELSE Direct(p, f)
  BY <1>2 DEF IncludeAdded, SameInfos
<1>9. \A f : \/ Associated(q, f) = Associated(p, f)
            \/ /\ f = r
               /\ Associated(q, f) = Associated(p, f) \cup {e}
               /\ e \in Reported(q)
  BY <1>2 DEF IncludeAdded, SameInfos, MoreAssociated
<1>10. \A f : IsPrefixHeader(c, f) <=>
              IsPrefixHeader(p, f) \/ (f = e /\ IsPchInCode(c, r))
  BY <1>2 DEF IncludeAdded, SameInfos
<1>11. Reported(p) \subseteq Reported(q)
  BY <1>1, <1>3
<1>12. q.transitive_include_map = p.transitive_include_map
  <2>1. d.transitive_include_map = p.transitive_include_map
    BY DEF Commenting, SameOutside, PragmaFields, ScopeFields, Fields
  <2>2. c.transitive_include_map = d.transitive_include_map
    BY DEF IncludeAdded, SameOutside, AssociationFields, CountedFields, Fields
  <2>3. q.transitive_include_map = c.transitive_include_map
    BY DEF SameOutside, EnteredFields, ReportedFields, Fields
  <2> QED BY <2>1, <2>2, <2>3
<1>13. LineRead(p, q, r, e)
  BY <1>4, <1>5, <1>6, <1>7, <1>8, <1>9, <1>11, <1>12 DEF LineRead
<1> QED BY <1>1, <1>3, <1>5, <1>10, <1>13

(* The first #include of the main file, if it is a precompiled header.     *)
FirstInCode(p, includer) ==
  /\ ~IsSpecialFilename(p.main_file) /\ includer = p.main_file
  /\ Counted(p, includer)[includer] = 1

LEMMA EnterStep ==
  ASSUME NEW s, IsState(s), NEW line, NEW p, WellFormed(p),
         Commenting(p, s.pp, line.includer)
  PROVE  LET q == FileChanged_EnterFile(s, line).pp
             r == line.includer
             e == line.includee
         IN  /\ LineRead(p, q, r, e)
             /\ q.main_file = IF IsSpecialFilename(p.main_file) THEN e ELSE p.main_file
             /\ \A f : IsPrefixHeader(p, f) => IsPrefixHeader(q, f)
             /\ \A f : IsPrefixHeader(q, f) =>
                  \/ IsPrefixHeader(p, f)
                  \/ /\ f = e
                     /\ \/ FirstInCode(p, r)
                        \/ IsSpecialFilename(r) /\ e # q.main_file
                        \/ ~IsSpecialFilename(r) /\ IsPrefixHeader(p, r)
             /\ IsSpecialFilename(r) /\ e # q.main_file => IsPrefixHeader(q, e)
             /\ ~IsSpecialFilename(r) /\ IsPrefixHeader(p, r) => IsPrefixHeader(q, e)
<1> DEFINE c == AddDirectInclude(s, line).pp
           q == FileChanged_EnterFile(s, line).pp
           r == line.includer
           e == line.includee
<1>1. IncludeAdded(s.pp, c, r, e)
  BY AddDirectIncludeInfo
<1>2. Entered(c, q, r, e)
  BY EnteredInfo
<1> HIDE DEF c, q, r, e
<1>3. /\ LineRead(p, q, r, e)
      /\ c.main_file = p.main_file
      /\ c.pch_in_code = p.pch_in_code
      /\ c.num_includes_seen = Counted(p, r)
      /\ \A f : IsPrefixHeader(c, f) <=>
           IsPrefixHeader(p, f) \/ (f = e /\ IsPchInCode(c, r))
  <2>1. Commenting(p, s.pp, r)
    BY DEF r
  <2> QED BY <1>1, <1>2, <2>1, LineInfo DEF Entered
<1>4. IsPchInCode(c, r) => FirstInCode(p, r)
  BY <1>3 DEF IsPchInCode, FirstInCode
<1>5. q.main_file = IF IsSpecialFilename(p.main_file) THEN e ELSE p.main_file
  BY <1>2, <1>3 DEF Entered
<1>6. \A f : IsPrefixHeader(q, f) <=>
       \/ IsPrefixHeader(c, f)
       \/ /\ f = e
          /\ \/ IsSpecialFilename(r) /\ e # q.main_file
             \/ ~IsSpecialFilename(r) /\ IsPrefixHeader(c, r)
  BY <1>2 DEF Entered
<1>7. \A f : IsPrefixHeader(q, f) =>
        \/ IsPrefixHeader(p, f)
        \/ /\ f = e
           /\ \/ FirstInCode(p, r)
              \/ IsSpecialFilename(r) /\ e # q.main_file
              \/ ~IsSpecialFilename(r) /\ IsPrefixHeader(p, r)
  BY <1>3, <1>4, <1>6
<1>8. /\ IsSpecialFilename(r) /\ e # q.main_file => IsPrefixHeader(q, e)
      /\ ~IsSpecialFilename(r) /\ IsPrefixHeader(p, r) => IsPrefixHeader(q, e)
      /\ \A f : IsPrefixHeader(p, f) => IsPrefixHeader(q, f)
  BY <1>3, <1>6
<1> QED BY <1>3, <1>5, <1>7, <1>8 DEF q, r, e

LEMMA SkipStep ==
  ASSUME NEW s, IsState(s), NEW line, NEW p, WellFormed(p),
         Commenting(p, s.pp, line.includer)
  PROVE  LET q == FileSkipped(s, line).pp
             r == line.includer
             e == line.includee
         IN  /\ LineRead(p, q, r, e)
             /\ q.main_file = p.main_file
             /\ \A f : IsPrefixHeader(q, f) =>
                  IsPrefixHeader(p, f) \/ (f = e /\ FirstInCode(p, r))
             /\ \A f : IsPrefixHeader(p, f) => IsPrefixHeader(q, f)
<1> DEFINE c == AddDirectInclude(s, line).pp
           q == FileSkipped(s, line).pp
           r == line.includer
           e == line.includee
<1>1. IncludeAdded(s.pp, c, r, e)
  BY AddDirectIncludeInfo
<1>2. WellFormed(q) /\ Noted(c, q, e) /\ SameInfos(c, q) /\ Seen(q) = Seen(c)
  BY SkippedInfo DEF IsState
<1> HIDE DEF c, q, r, e
<1>3. /\ LineRead(p, q, r, e)
      /\ c.main_file = p.main_file
      /\ c.pch_in_code = p.pch_in_code
      /\ c.num_includes_seen = Counted(p, r)
      /\ \A f : IsPrefixHeader(c, f) <=>
           IsPrefixHeader(p, f) \/ (f = e /\ IsPchInCode(c, r))
  <2>1. Commenting(p, s.pp, r)
    BY DEF r
  <2>2. SameOutside(c, q, EnteredFields)
    BY <1>2 DEF Noted, SameOutside, EnteredFields
  <2> QED BY <1>1, <1>2, <2>1, <2>2, LineInfo DEF Noted, SameInfos
<1>4. IsPchInCode(c, r) => FirstInCode(p, r)
  BY <1>3 DEF IsPchInCode, FirstInCode
<1>5. q.main_file = p.main_file
  BY <1>2, <1>3 DEF Noted, SameOutside, ReportedFields, Fields
<1>6. \A f : IsPrefixHeader(q, f) <=> IsPrefixHeader(c, f)
  BY <1>2 DEF SameInfos
<1>7. /\ \A f : IsPrefixHeader(q, f) =>
                  IsPrefixHeader(p, f) \/ (f = e /\ FirstInCode(p, r))
      /\ \A f : IsPrefixHeader(p, f) => IsPrefixHeader(q, f)
  BY <1>3, <1>4, <1>6
<1> QED BY <1>3, <1>5, <1>7 DEF q, r, e

-----------------------------------------------------------------------------
(* IInv is inductive. *)

LEMMA FrontFacts ==
  ASSUME NEW S, NEW s \in Seq(S), s # <<>>
  PROVE  /\ Front(s) \in Seq(S)
         /\ Len(Front(s)) = Len(s) - 1
         /\ \A i \in 1 .. Len(s) - 1 : Front(s)[i] = s[i]
<1>1. Len(s) \in Nat \ {0}
  OBVIOUS
<1>2. PICK n \in Nat : Len(s) = n + 1
  BY <1>1
<1>3. Front(s) = SubSeq(s, 1, n)
  BY <1>2 DEF Front
<1>4. \A i \in 1..n : s[i] \in S
  BY <1>2
<1> DEFINE f == [i \in 1..n |-> s[i]]
<1>5. f \in Seq(S) /\ Len(f) = n
  BY <1>4
<1>6. SubSeq(s, 1, n) = f
  BY <1>2
<1> QED BY <1>2, <1>3, <1>5, <1>6

LEMMA SeqExcept ==
  ASSUME NEW S, NEW s \in Seq(S), NEW i \in DOMAIN s, NEW v \in S
  PROVE  [s EXCEPT ![i] = v] \in Seq(S)
OBVIOUS

LEMMA LastIsElement ==
  ASSUME NEW S, NEW s \in Seq(S), s # <<>>
  PROVE  Last(s) = s[Len(s)] /\ Len(s) \in DOMAIN s /\ Last(s) \in S
BY DEF Last

LEMMA ScopesTyped ==
  ASSUME Exports \in Seq(Paths), Keeps \in Seq(Paths), NEW file \in Paths,
         ScopesAfterComment(pp, pp', file)
  PROVE  Exports' \in Seq(Paths) /\ Keeps' \in Seq(Paths)
<1>1. HasOpenBeginExports(pp, file) => Front(Exports) \in Seq(Paths)
  BY FrontFacts DEF HasOpenBeginExports, Exports
<1>2. HasOpenBeginKeep(pp, file) => Front(Keeps) \in Seq(Paths)
  BY FrontFacts DEF HasOpenBeginKeep, Keeps
<1>3. Append(Exports, file) \in Seq(Paths) /\ Append(Keeps, file) \in Seq(Paths)
  OBVIOUS
<1> QED BY <1>1, <1>2, <1>3 DEF ScopesAfterComment, Exports, Keeps

(* What the invariant says of the information after a line, or after a step *)
(* that changes neither the files nor what they include.                   *)
InfoInv ==
  /\ InfoTypeOK
  /\ \A f \in Seen(pp) : Direct(pp, f) \subseteq Seen(pp)
  /\ AssociatedReported

LEMMA LinePreserves ==
  ASSUME InfoInv, NEW r \in Paths, NEW e \in Files,
         LineRead(pp, pp', r, e), pp'.main_file \in Paths
  PROVE  InfoInv'
<1>1. Exports' \in Seq(Paths) /\ Keeps' \in Seq(Paths)
  BY ScopesTyped DEF LineRead, InfoInv, InfoTypeOK
<1>2. ASSUME NEW f \in DOMAIN pp'.num_includes_seen
      PROVE  pp'.num_includes_seen[f] \in Nat \ {0}
  <2> DEFINE num == pp.num_includes_seen
  <2>1. \A g \in DOMAIN num : num[g] \in Nat \ {0}
    BY DEF InfoInv, InfoTypeOK
  <2>2. pp'.num_includes_seen = Assign(num, r, FindInMap(num, r, 0) + 1)
    BY DEF LineRead, Counted
  <2>3. FindInMap(num, r, 0) + 1 \in Nat \ {0}
    <3> HIDE DEF num
    <3> QED BY <2>1 DEF FindInMap
  <2> DEFINE n == FindInMap(num, r, 0) + 1
  <2> HIDE DEF n, num
  <2> QED BY <1>2, <2>1, <2>2, <2>3 DEF Assign, n
<1>3. Seen(pp)' = Seen(pp) \cup {r, e} /\ WellFormed(pp')
  BY DEF LineRead, Seen
<1>4. \A f : Direct(pp', f) = IF f = r THEN Direct(pp, f) \cup {e} ELSE Direct(pp, f)
  BY DEF LineRead
<1>5. \A f : f \notin Seen(pp) => Direct(pp, f) = {} /\ Associated(pp, f) = {}
  BY DEF Direct, Associated
<1>6. \A f \in Seen(pp') : Direct(pp', f) \subseteq Files /\ Direct(pp', f) \subseteq Seen(pp')
  BY <1>3, <1>4, <1>5 DEF InfoInv, InfoTypeOK
<1>7. \A f \in Seen(pp') : /\ Associated(pp', f) \subseteq Files
                           /\ Associated(pp', f) \subseteq Reported(pp')
  BY <1>3, <1>5 DEF LineRead, InfoInv, InfoTypeOK, AssociatedReported
<1>8. Seen(pp') \subseteq Paths
  BY <1>3 DEF InfoInv, InfoTypeOK, Paths
<1>9. InfoTypeOK'
  BY <1>1, <1>2, <1>3, <1>6, <1>7, <1>8 DEF InfoTypeOK
<1> QED BY <1>6, <1>7, <1>9 DEF InfoInv, AssociatedReported

SameKnowledge(p, q) ==
  /\ WellFormed(q) /\ Seen(q) = Seen(p) /\ SameInfos(p, q)
  /\ q.main_file = p.main_file
  /\ q.num_includes_seen = p.num_includes_seen
  /\ Reported(q) = Reported(p)

LEMMA KnowledgePreserves ==
  ASSUME InfoInv, SameKnowledge(pp, pp'),
         Exports' \in Seq(Paths), Keeps' \in Seq(Paths)
  PROVE  InfoInv'
BY DEF InfoInv, InfoTypeOK, AssociatedReported, SameKnowledge, SameInfos

LEMMA CommentKeeps ==
  ASSUME NEW p, WellFormed(p), NEW q, NEW file, Commenting(p, q, file)
  PROVE  SameKnowledge(p, q)
<1>1. /\ q.iwyu_file_info_map = p.iwyu_file_info_map
      /\ q.main_file = p.main_file
      /\ q.num_includes_seen = p.num_includes_seen
      /\ Reported(q) = Reported(p)
  BY DEF Commenting, SameOutside, PragmaFields, ScopeFields, Fields, Reported
<1> QED BY <1>1, SameInfoMap DEF Commenting, SameKnowledge

LEMMA UsesKeep ==
  ASSUME NEW p, NEW q, SameButUses(p, q)
  PROVE  /\ SameKnowledge(p, q)
         /\ q.begin_exports_location_stack = p.begin_exports_location_stack
         /\ q.begin_keep_location_stack = p.begin_keep_location_stack
BY DEF SameButUses, SameOutside, SameKnowledge, Fields, Reported

LEMMA ExitKeeps ==
  ASSUME NEW p, WellFormed(p), NEW file
  PROVE  LET q == FileChanged_ExitToFile(p, file)
         IN  SameKnowledge(p, q) /\ ScopesLeft(p, q, file)
<1> DEFINE q == FileChanged_ExitToFile(p, file)
<1>1. Left(p, q, file) /\ WellFormed(q) /\ Seen(q) = Seen(p) /\ SameInfos(p, q)
  BY ExitInfo
<1> HIDE DEF q
<1>2. /\ q.main_file = p.main_file
      /\ q.num_includes_seen = p.num_includes_seen
      /\ Reported(q) = Reported(p)
  BY <1>1 DEF Left, SameOutside, ScopeFields, Fields, Reported
<1> QED BY <1>1, <1>2 DEF SameKnowledge, Left, q

LEMMA LeftTyped ==
  ASSUME Exports \in Seq(Paths), Keeps \in Seq(Paths), NEW file,
         ScopesLeft(pp, pp', file)
  PROVE  Exports' \in Seq(Paths) /\ Keeps' \in Seq(Paths)
<1>1. HasOpenBeginExports(pp, file) => Front(Exports) \in Seq(Paths)
  BY FrontFacts DEF HasOpenBeginExports, Exports
<1>2. HasOpenBeginKeep(pp, file) => Front(Keeps) \in Seq(Paths)
  BY FrontFacts DEF HasOpenBeginKeep, Keeps
<1> QED BY <1>1, <1>2 DEF ScopesLeft, Exports, Keeps

-----------------------------------------------------------------------------
(* What each action does. *)
LEMMA NowIsState ==
  ASSUME IInv
  PROVE  IsState(Now) /\ Now.pp = pp
BY DEF IInv, TypeOK, InfoTypeOK, IsState, Now

LEMMA EnterMainStep ==
  ASSUME IInv, EnterMain
  PROVE  /\ include_stack = <<>> /\ IsSpecialFilename(pp.main_file)
         /\ include_stack' =
              << [file |-> MainFile, exports |-> FALSE, live |-> TRUE],
                 [file |-> SpecialFilename, exports |-> FALSE, live |-> TRUE] >>
         /\ LineRead(pp, pp', SpecialFilename, MainFile)
         /\ pp'.main_file = MainFile
         /\ \A f : IsPrefixHeader(pp', f) => IsPrefixHeader(pp, f)
<1> DEFINE line == [includer |-> SpecialFilename, includee |-> MainFile,
                    as_written |-> Picker!NotWritten, pragma |-> NoEffect]
           q == FileChanged_EnterFile(Now, line).pp
<1>1. pp' = q
  BY DEF EnterMain, Read
<1>2. IsState(Now) /\ Now.pp = pp /\ WellFormed(pp)
  BY NowIsState DEF IInv, TypeOK, InfoTypeOK
<1>3. line.includer = SpecialFilename /\ line.includee = MainFile
  OBVIOUS
<1> HIDE DEF line
<1>4. Commenting(pp, Now.pp, line.includer)
  BY <1>2 DEF Commenting, SameOutside, ScopesAfterComment, WellFormed
<1>5. IsSpecialFilename(pp.main_file)
  BY DEF EnterMain
<1>6. /\ LineRead(pp, q, line.includer, line.includee)
      /\ q.main_file = IF IsSpecialFilename(pp.main_file) THEN line.includee
                       ELSE pp.main_file
      /\ \A f : IsPrefixHeader(q, f) =>
           \/ IsPrefixHeader(pp, f)
           \/ /\ f = line.includee
              /\ \/ FirstInCode(pp, line.includer)
                 \/ IsSpecialFilename(line.includer) /\ line.includee # q.main_file
                 \/ ~IsSpecialFilename(line.includer) /\ IsPrefixHeader(pp, line.includer)
  BY <1>2, <1>4, EnterStep
<1> HIDE DEF q
<1>7. q.main_file = MainFile /\ \A f : IsPrefixHeader(q, f) => IsPrefixHeader(pp, f)
  BY <1>3, <1>5, <1>6 DEF IsSpecialFilename, FirstInCode
<1> QED BY <1>1, <1>3, <1>5, <1>6, <1>7 DEF EnterMain

LEMMA CommentedIsState ==
  ASSUME IInv, NEW line
  PROVE  IsState(Commented(line)) /\ Commenting(pp, Commented(line).pp, line.includer)
BY NowIsState, CommentInfo DEF Commented

LEMMA TopType ==
  ASSUME StackTypeOK, Reading
  PROVE  /\ include_stack # <<>>
         /\ Len(include_stack) \in DOMAIN include_stack
         /\ Top = include_stack[Len(include_stack)]
         /\ Top.live /\ Top.file \in Paths
<1> DEFINE Frames == [file : Paths, exports : BOOLEAN, live : BOOLEAN]
<1>1. include_stack \in Seq(Frames) /\ include_stack # <<>> /\ Top.live
  BY DEF StackTypeOK, Reading
<1> HIDE DEF Frames
<1>2. /\ Top = include_stack[Len(include_stack)]
      /\ Len(include_stack) \in DOMAIN include_stack
      /\ Top \in Frames
  BY <1>1, LastIsElement DEF Top
<1> QED BY <1>1, <1>2 DEF Frames

LEMMA IncluderNotSpecialMain ==
  ASSUME IInv, include_stack # <<>>
  PROVE  pp.main_file = MainFile /\ ~IsSpecialFilename(pp.main_file)
BY FilesAssumption DEF IInv, MainFileFirst, IsSpecialFilename

LEMMA EnterFileStep ==
  ASSUME IInv, NEW line \in Lines, EnterFile(line)
  PROVE  LET r == line.includer
             e == line.includee
         IN  /\ r = Top.file /\ e \in Files /\ ~MustSkip(e)
             /\ include_stack' = Push(Scoped(line.pragma), e)
             /\ LineRead(pp, pp', r, e)
             /\ pp'.main_file = pp.main_file
             /\ \A f : IsPrefixHeader(pp, f) => IsPrefixHeader(pp', f)
             /\ \A f : IsPrefixHeader(pp', f) =>
                  \/ IsPrefixHeader(pp, f)
                  \/ /\ f = e
                     /\ \/ FirstInCode(pp, r)
                        \/ IsSpecialFilename(r) /\ e # pp.main_file
                        \/ ~IsSpecialFilename(r) /\ IsPrefixHeader(pp, r)
             /\ IsSpecialFilename(r) /\ e # pp.main_file => IsPrefixHeader(pp', e)
             /\ ~IsSpecialFilename(r) /\ IsPrefixHeader(pp, r) => IsPrefixHeader(pp', e)
<1> DEFINE q == FileChanged_EnterFile(Commented(line), line).pp
           r == line.includer
           e == line.includee
<1>1. pp' = q
  BY DEF EnterFile, Read
<1>2. ~IsSpecialFilename(pp.main_file)
  BY IncluderNotSpecialMain DEF EnterFile, Reading
<1>3. WellFormed(pp)
  BY DEF IInv, TypeOK, InfoTypeOK
<1>4. /\ LineRead(pp, q, r, e)
      /\ q.main_file = IF IsSpecialFilename(pp.main_file) THEN e ELSE pp.main_file
      /\ \A f : IsPrefixHeader(pp, f) => IsPrefixHeader(q, f)
      /\ \A f : IsPrefixHeader(q, f) =>
           \/ IsPrefixHeader(pp, f)
           \/ /\ f = e
              /\ \/ FirstInCode(pp, r)
                 \/ IsSpecialFilename(r) /\ e # q.main_file
                 \/ ~IsSpecialFilename(r) /\ IsPrefixHeader(pp, r)
      /\ IsSpecialFilename(r) /\ e # q.main_file => IsPrefixHeader(q, e)
      /\ ~IsSpecialFilename(r) /\ IsPrefixHeader(pp, r) => IsPrefixHeader(q, e)
  BY <1>3, CommentedIsState, EnterStep
<1>5. e \in Files
  BY FilesAssumption
<1>6. r = Top.file /\ ~MustSkip(e) /\ include_stack' = Push(Scoped(line.pragma), e)
  BY DEF EnterFile
<1> HIDE DEF q, r, e
<1> QED BY <1>1, <1>2, <1>4, <1>5, <1>6 DEF r, e

LEMMA SkipFileStep ==
  ASSUME IInv, NEW line \in Lines, SkipFile(line)
  PROVE  LET r == line.includer
             e == line.includee
         IN  /\ r = Top.file /\ e \in Files /\ MustSkip(e)
             /\ include_stack' = Scoped(line.pragma)
             /\ LineRead(pp, pp', r, e)
             /\ pp'.main_file = pp.main_file
             /\ \A f : IsPrefixHeader(pp, f) => IsPrefixHeader(pp', f)
             /\ \A f : IsPrefixHeader(pp', f) =>
                  IsPrefixHeader(pp, f) \/ (f = e /\ FirstInCode(pp, r))
<1> DEFINE q == FileSkipped(Commented(line), line).pp
           r == line.includer
           e == line.includee
<1>1. pp' = q
  BY DEF SkipFile, Read
<1>2. WellFormed(pp)
  BY DEF IInv, TypeOK, InfoTypeOK
<1>3. /\ LineRead(pp, q, r, e)
      /\ q.main_file = pp.main_file
      /\ \A f : IsPrefixHeader(q, f) =>
           IsPrefixHeader(pp, f) \/ (f = e /\ FirstInCode(pp, r))
      /\ \A f : IsPrefixHeader(pp, f) => IsPrefixHeader(q, f)
  BY <1>2, CommentedIsState, SkipStep
<1>4. e \in Files
  BY FilesAssumption
<1>5. r = Top.file /\ MustSkip(e) /\ include_stack' = Scoped(line.pragma)
  BY DEF SkipFile
<1> HIDE DEF q, r, e
<1> QED BY <1>1, <1>3, <1>4, <1>5 DEF r, e

LEMMA HandleCommentStep ==
  ASSUME IInv, NEW c \in Comments, HandleComment(c)
  PROVE  /\ c.file = Top.file
         /\ Commenting(pp, pp', c.file) /\ SameKnowledge(pp, pp')
<1> DEFINE q == HandlePragmaComment(Now, c.file, c.pragma).pp
<1>1. pp' = q /\ c.file = Top.file
  BY DEF HandleComment, Read
<1>2. WellFormed(pp)
  BY DEF IInv, TypeOK, InfoTypeOK
<1>3. Commenting(pp, q, c.file)
  BY NowIsState, CommentInfo
<1> QED BY <1>1, <1>2, <1>3, CommentKeeps

LEMMA UseMacroStep ==
  ASSUME IInv, NEW u \in MacroUses, UseMacro(u)
  PROVE  /\ SameKnowledge(pp, pp')
         /\ pp'.begin_exports_location_stack = pp.begin_exports_location_stack
         /\ pp'.begin_keep_location_stack = pp.begin_keep_location_stack
<1>1. u.file \in Seen(pp)
  BY TopType DEF UseMacro, IInv, TypeOK, FilesSeen
<1>2. u.defined_in \in Seen(pp) /\ WellFormed(pp)
  BY DEF UseMacro, IInv, TypeOK, InfoTypeOK, Seen
<1>3. SameButUses(pp, ReportMacroUse(pp, u.file, u.defined_in))
  BY <1>1, <1>2, MacroUseInfo
<1> QED BY <1>3, UsesKeep DEF UseMacro

LEMMA ExitFileStep ==
  ASSUME IInv, ExitFile
  PROVE  SameKnowledge(pp, pp') /\ ScopesLeft(pp, pp', Top.file)
<1>1. WellFormed(pp)
  BY DEF IInv, TypeOK, InfoTypeOK
<1> QED BY <1>1, ExitKeeps DEF ExitFile

LEMMA EndMainStep ==
  ASSUME IInv, EndMain
  PROVE  SameKnowledge(pp, pp') /\ ScopesLeft(pp, pp', MainFile)
<1> DEFINE left == FileChanged_ExitToFile(pp, pp.main_file)
<1>1. WellFormed(pp)
  BY DEF IInv, TypeOK, InfoTypeOK
<1>2. SameKnowledge(pp, left) /\ ScopesLeft(pp, left, pp.main_file)
  BY <1>1, ExitKeeps
<1>3. SameButUses(left, pp')
  BY NowIsState, EndInfo DEF EndMain
<1> HIDE DEF left
<1>4. /\ SameKnowledge(left, pp')
      /\ pp'.begin_exports_location_stack = left.begin_exports_location_stack
      /\ pp'.begin_keep_location_stack = left.begin_keep_location_stack
  BY <1>3, UsesKeep
<1>5. pp.main_file = MainFile
  BY IncluderNotSpecialMain DEF EndMain
<1>6. SameKnowledge(pp, pp')
  BY <1>2, <1>4 DEF SameKnowledge, SameInfos
<1> QED BY <1>2, <1>4, <1>5, <1>6 DEF ScopesLeft

LEMMA PopulateStep ==
  ASSUME IInv, PopulateMaps
  PROVE  /\ SameKnowledge(pp, pp')
         /\ pp'.begin_exports_location_stack = pp.begin_exports_location_stack
         /\ pp'.begin_keep_location_stack = pp.begin_keep_location_stack
<1>1. WellFormed(pp)
  BY DEF IInv, TypeOK, InfoTypeOK
<1>2. /\ WellFormed(pp')
      /\ Seen(pp') = Seen(pp)
      /\ SameInfos(pp, pp')
      /\ SameOutside(pp, pp', DerivedFields)
  BY <1>1, PopulateInfo DEF PopulateMaps
<1> QED BY <1>2 DEF SameOutside, DerivedFields, Fields, SameKnowledge, Reported

-----------------------------------------------------------------------------
LEMMA InitIInv == Init => IInv
<1> SUFFICES ASSUME Init PROVE IInv
  OBVIOUS
<1>1. PICK pch_in_code \in BOOLEAN : pp = EmptyInfo(pch_in_code)
  BY DEF Init
<1>2. include_stack = <<>>
  BY DEF Init
<1>3. /\ DOMAIN pp = Fields
      /\ pp.main_file = SpecialFilename
      /\ pp.iwyu_file_info_map = <<>>
      /\ pp.num_includes_seen = <<>>
      /\ Exports = <<>> /\ Keeps = <<>>
  BY <1>1 DEF EmptyInfo, Fields, Exports, Keeps
<1>4. Seen(pp) = {} /\ WellFormed(pp) /\ DOMAIN pp.num_includes_seen = {}
  BY <1>3 DEF Seen, WellFormed
<1>5. StackTypeOK
  BY <1>2 DEF StackTypeOK
<1>6. InfoTypeOK
  BY <1>3, <1>4 DEF InfoTypeOK, Paths
<1>7. MainFileFirst
  BY <1>2, <1>3, <1>4 DEF MainFileFirst
<1>8. FilesSeen /\ AssociatedReported
  BY <1>2, <1>4 DEF FilesSeen, AssociatedReported
<1> QED BY <1>5, <1>6, <1>7, <1>8 DEF IInv, TypeOK

(* Two stacks of the same files, whatever scopes are open.                 *)
SameFiles(stack, other) ==
  /\ DOMAIN other = DOMAIN stack
  /\ \A i \in DOMAIN stack : /\ other[i].file = stack[i].file
                              /\ other[i].live = stack[i].live

ScopedFrames(pragma) ==
  LET n == Len(include_stack)
      stack == Scoped(pragma)
  IN  /\ stack \in Seq([file : Paths, exports : BOOLEAN, live : BOOLEAN])
      /\ n \in Nat \ {0} /\ DOMAIN include_stack = 1..n /\ Len(stack) = n
      /\ SameFiles(include_stack, stack)
      /\ \A i \in 1..n : i # n => stack[i] = include_stack[i]
      /\ Last(stack) = stack[n]
      /\ stack[n].exports =
            IF pragma.kind = "begin_exports" THEN ~HasOpenBeginKeep(pp, Top.file)
            ELSE Top.exports /\ pragma.kind # "end_exports"

LEMMA ScopedFacts ==
  ASSUME StackTypeOK, Reading, NEW pragma
  PROVE  ScopedFrames(pragma)
<1> DEFINE Frames == [file : Paths, exports : BOOLEAN, live : BOOLEAN]
           n == Len(include_stack)
           now == IF pragma.kind = "begin_exports" THEN ~HasOpenBeginKeep(pp, Top.file)
                  ELSE Top.exports /\ pragma.kind # "end_exports"
           frame == [include_stack[n] EXCEPT !.exports = now]
           stack == Scoped(pragma)
<1>1. include_stack \in Seq(Frames) /\ Top = include_stack[n] /\ n \in DOMAIN include_stack
  BY TopType DEF StackTypeOK
<1>2. now \in BOOLEAN
  <2>1. Top.exports \in BOOLEAN
    <3> HIDE DEF Frames
    <3>1. Top \in Frames
      BY <1>1
    <3> QED BY <3>1 DEF Frames
  <2> QED BY <2>1
<1>3. stack = [include_stack EXCEPT ![n] = frame]
  BY <1>1 DEF Scoped
<1> HIDE DEF now, stack
<1>4. include_stack[n] \in Frames
  <2> HIDE DEF Frames
  <2> QED BY <1>1
<1>5. /\ frame \in Frames
      /\ frame.file = include_stack[n].file
      /\ frame.live = include_stack[n].live
      /\ frame.exports = now
  BY <1>2, <1>4
<1> HIDE DEF frame, Frames, n
<1>6. stack \in Seq(Frames)
  BY <1>1, <1>3, <1>5, SeqExcept
<1>7. n \in Nat \ {0} /\ DOMAIN include_stack = 1..n
  BY <1>1 DEF n
<1>8. DOMAIN stack = DOMAIN include_stack /\ Len(stack) = n
  BY <1>1, <1>3, <1>6, <1>7 DEF n
<1>9. /\ stack[n] = frame
      /\ \A i \in 1..n : i # n => stack[i] = include_stack[i]
  BY <1>1, <1>3, <1>7
<1>10. Last(stack) = stack[n]
  BY <1>8 DEF Last
<1>11. SameFiles(include_stack, stack)
  BY <1>5, <1>7, <1>8, <1>9 DEF SameFiles
<1> QED BY <1>5, <1>6, <1>7, <1>8, <1>9, <1>10, <1>11
        DEF ScopedFrames, Frames, n, now, stack

LEMMA PushFacts ==
  ASSUME NEW stack \in Seq([file : Paths, exports : BOOLEAN, live : BOOLEAN]),
         NEW file \in Paths
  PROVE  LET n == Len(stack)
             pushed == Push(stack, file)
         IN  /\ pushed \in Seq([file : Paths, exports : BOOLEAN, live : BOOLEAN])
             /\ DOMAIN pushed = 1 .. n + 1
             /\ \A i \in 1..n : pushed[i] = stack[i]
             /\ pushed[n + 1].file = file
             /\ ~pushed[n + 1].exports
             /\ pushed[n + 1].live => ~(Guard[file] = "ifndef" /\ Open(file))
<1> DEFINE Frames == [file : Paths, exports : BOOLEAN, live : BOOLEAN]
           live == ~(Guard[file] = "ifndef" /\ Open(file))
           frame == [file |-> file, exports |-> FALSE, live |-> live]
<1>1. frame \in Frames
  <2> HIDE DEF live
  <2>1. live \in BOOLEAN
    BY DEF live
  <2> QED BY <2>1
<1>2. frame.file = file /\ frame.live = live /\ ~frame.exports
  OBVIOUS
<1>3. stack \in Seq(Frames) /\ Push(stack, file) = Append(stack, frame)
  BY DEF Push
<1> HIDE DEF Frames, frame, live
<1>4. /\ Push(stack, file) \in Seq(Frames)
      /\ DOMAIN Push(stack, file) = 1 .. Len(stack) + 1
      /\ \A i \in 1..Len(stack) : Push(stack, file)[i] = stack[i]
      /\ Push(stack, file)[Len(stack) + 1] = frame
  BY <1>1, <1>3
<1> QED BY <1>2, <1>4 DEF Frames, live

(* The include stack that a file is entered with. *)
EnteredStack(pragma, file, stack) ==
  LET n == Len(include_stack)
  IN  /\ stack \in Seq([file : Paths, exports : BOOLEAN, live : BOOLEAN])
      /\ n \in Nat \ {0} /\ DOMAIN include_stack = 1..n
      /\ DOMAIN stack = 1 .. n + 1
      /\ \A i \in 1..n : /\ stack[i] = Scoped(pragma)[i]
                          /\ stack[i].file = include_stack[i].file
                          /\ stack[i].live = include_stack[i].live
      /\ stack[n + 1].file = file
      /\ ~stack[n + 1].exports
      /\ stack[n + 1].live => ~(Guard[file] = "ifndef" /\ Open(file))

LEMMA EnteredFrames ==
  ASSUME StackTypeOK, Reading, NEW pragma, NEW file \in Paths
  PROVE  EnteredStack(pragma, file, Push(Scoped(pragma), file))
<1> DEFINE n == Len(include_stack)
           scoped == Scoped(pragma)
<1>1. /\ scoped \in Seq([file : Paths, exports : BOOLEAN, live : BOOLEAN])
      /\ n \in Nat \ {0} /\ DOMAIN include_stack = 1..n /\ Len(scoped) = n
      /\ SameFiles(include_stack, scoped)
  BY ScopedFacts DEF ScopedFrames
<1> DEFINE pushed == Push(scoped, file)
<1> HIDE DEF scoped
<1>2. /\ pushed \in Seq([file : Paths, exports : BOOLEAN, live : BOOLEAN])
      /\ DOMAIN pushed = 1 .. n + 1
      /\ \A i \in 1..n : pushed[i] = scoped[i]
      /\ pushed[n + 1].file = file
      /\ ~pushed[n + 1].exports
      /\ pushed[n + 1].live => ~(Guard[file] = "ifndef" /\ Open(file))
  <2> DEFINE m == Len(scoped)
  <2>1. /\ pushed \in Seq([file : Paths, exports : BOOLEAN, live : BOOLEAN])
        /\ DOMAIN pushed = 1 .. m + 1
        /\ \A i \in 1..m : pushed[i] = scoped[i]
        /\ pushed[m + 1].file = file
        /\ ~pushed[m + 1].exports
        /\ pushed[m + 1].live => ~(Guard[file] = "ifndef" /\ Open(file))
    BY <1>1, PushFacts, Zenon
  <2>2. m = n
    BY <1>1
  <2> HIDE DEF m, n, pushed
  <2> QED BY <2>1, <2>2
<1> HIDE DEF pushed, n
<1>3. \A i \in 1..n : /\ pushed[i].file = include_stack[i].file
                      /\ pushed[i].live = include_stack[i].live
  BY <1>1, <1>2 DEF SameFiles
<1> QED BY <1>1, <1>2, <1>3 DEF EnteredStack, scoped, pushed, n

StackSeen == \A i \in DOMAIN include_stack : include_stack[i].file \in Seen(pp)

LEMMA IInvParts ==
  IInv <=> StackTypeOK /\ InfoInv /\ MainFileFirst /\ StackSeen
BY DEF IInv, TypeOK, InfoInv, FilesSeen, StackSeen

LEMMA IInvPartsPrime ==
  IInv' <=> StackTypeOK' /\ InfoInv' /\ MainFileFirst' /\ StackSeen'
BY DEF IInv, TypeOK, InfoInv, FilesSeen, StackSeen

LEMMA EnterMainPreserves == ASSUME IInv, EnterMain PROVE IInv'
<1>1. /\ LineRead(pp, pp', SpecialFilename, MainFile)
      /\ pp'.main_file = MainFile
      /\ include_stack' =
           << [file |-> MainFile, exports |-> FALSE, live |-> TRUE],
              [file |-> SpecialFilename, exports |-> FALSE, live |-> TRUE] >>
  BY EnterMainStep
<1>2. MainFile \in Paths /\ SpecialFilename \in Paths /\ MainFile \in Files
      /\ MainFile # SpecialFilename
  BY FilesAssumption DEF Paths
<1>3. InfoInv'
  BY <1>1, <1>2, LinePreserves, IInvParts
<1>4. StackTypeOK'
  BY <1>1, <1>2 DEF StackTypeOK
<1>5. MainFileFirst'
  BY <1>1, <1>2 DEF MainFileFirst, IsSpecialFilename
<1>6. StackSeen'
  <2>1. Seen(pp') = Seen(pp) \cup {SpecialFilename, MainFile}
    BY <1>1 DEF LineRead
  <2>2. /\ DOMAIN include_stack' = 1..2
        /\ include_stack'[1].file = MainFile
        /\ include_stack'[2].file = SpecialFilename
    BY <1>1
  <2> QED BY <2>1, <2>2 DEF StackSeen
<1> QED BY <1>3, <1>4, <1>5, <1>6, IInvPartsPrime

LEMMA EnterFilePreserves ==
  ASSUME IInv, NEW line \in Lines, EnterFile(line) PROVE IInv'
<1> DEFINE r == line.includer
           e == line.includee
<1>1. /\ r = Top.file /\ e \in Files
      /\ include_stack' = Push(Scoped(line.pragma), e)
      /\ LineRead(pp, pp', r, e)
      /\ pp'.main_file = pp.main_file
  BY EnterFileStep
<1> HIDE DEF r, e
<1>2. StackTypeOK /\ InfoInv /\ MainFileFirst /\ StackSeen
  BY IInvParts
<1>3. /\ include_stack # <<>> /\ Reading
      /\ Top.file \in Paths
      /\ Len(include_stack) \in DOMAIN include_stack
  BY <1>2, TopType DEF EnterFile
<1>4. e \in Paths /\ pp'.main_file \in Paths
  BY <1>1, <1>2 DEF Paths, InfoInv, InfoTypeOK
<1>5. InfoInv'
  BY <1>1, <1>2, <1>3, <1>4, LinePreserves
<1> DEFINE n == Len(include_stack)
<1>6. /\ include_stack' \in Seq([file : Paths, exports : BOOLEAN, live : BOOLEAN])
      /\ DOMAIN include_stack = 1..n /\ n \in Nat
      /\ DOMAIN include_stack' = 1 .. n + 1
      /\ \A i \in 1..n : include_stack'[i].file = include_stack[i].file
      /\ include_stack'[n + 1].file = e
  <2>1. include_stack' = Push(Scoped(line.pragma), e)
    BY <1>1
  <2>2. EnteredStack(line.pragma, e, include_stack')
    BY <1>2, <1>3, <1>4, <2>1, EnteredFrames
  <2> QED BY <2>2 DEF EnteredStack
<1>7. pp.main_file = MainFile /\ ~IsSpecialFilename(pp.main_file)
  BY <1>3, IncluderNotSpecialMain
<1> HIDE DEF n
<1>8. StackTypeOK'
  BY <1>6 DEF StackTypeOK
<1>9. MainFileFirst'
  <2>1. 1 \in 1..n
    BY <1>3, <1>6 DEF n
  <2>2. include_stack'[1].file = MainFile
    BY <1>2, <1>3, <1>6, <2>1 DEF MainFileFirst
  <2> QED BY <1>1, <1>7, <2>2 DEF MainFileFirst
<1>10. StackSeen'
  <2>1. Seen(pp') = Seen(pp) \cup {r, e}
    BY <1>1 DEF LineRead
  <2>2. \A i \in 1..n : include_stack[i].file \in Seen(pp)
    BY <1>2, <1>6 DEF StackSeen
  <2> QED BY <1>6, <2>1, <2>2 DEF StackSeen
<1> QED BY <1>5, <1>8, <1>9, <1>10, IInvPartsPrime

LEMMA SkipFilePreserves ==
  ASSUME IInv, NEW line \in Lines, SkipFile(line) PROVE IInv'
<1> DEFINE r == line.includer
           e == line.includee
<1>1. /\ r = Top.file /\ e \in Files
      /\ include_stack' = Scoped(line.pragma)
      /\ LineRead(pp, pp', r, e)
      /\ pp'.main_file = pp.main_file
  BY SkipFileStep
<1> HIDE DEF r, e
<1>2. StackTypeOK /\ InfoInv /\ MainFileFirst /\ StackSeen
  BY IInvParts
<1>3. include_stack # <<>> /\ Top.file \in Paths /\ Reading
  BY <1>2, TopType DEF SkipFile
<1>4. pp'.main_file \in Paths
  BY <1>1, <1>2 DEF InfoInv, InfoTypeOK
<1>5. InfoInv'
  BY <1>1, <1>2, <1>3, <1>4, LinePreserves
<1>6. pp.main_file = MainFile /\ ~IsSpecialFilename(pp.main_file)
  BY <1>3, IncluderNotSpecialMain
<1>7. /\ StackTypeOK' /\ include_stack' # <<>> /\ 1 \in DOMAIN include_stack
      /\ SameFiles(include_stack, include_stack')
  BY <1>1, <1>2, <1>3, ScopedFacts DEF ScopedFrames, StackTypeOK
<1>8. MainFileFirst'
  BY <1>1, <1>2, <1>3, <1>6, <1>7 DEF SameFiles, MainFileFirst
<1>9. StackSeen'
  BY <1>1, <1>2, <1>7 DEF SameFiles, StackSeen, LineRead
<1> QED BY <1>5, <1>7, <1>8, <1>9, IInvPartsPrime

(* A step that keeps the files of the include stack, or some of its bottom. *)
LEMMA SameStackPreserves ==
  ASSUME IInv, include_stack # <<>> \/ UNCHANGED include_stack,
         SameKnowledge(pp, pp'), Exports' \in Seq(Paths), Keeps' \in Seq(Paths),
         include_stack = <<>> => Exports' = Exports /\ Keeps' = Keeps,
         StackTypeOK',
         \A i \in DOMAIN include_stack' :
            i \in DOMAIN include_stack /\ include_stack'[i].file = include_stack[i].file
  PROVE  IInv'
<1>1. StackTypeOK /\ InfoInv /\ MainFileFirst /\ StackSeen
  BY IInvParts
<1>2. InfoInv'
  BY <1>1, KnowledgePreserves
<1>3. StackSeen'
  BY <1>1 DEF StackSeen, SameKnowledge
<1>4. MainFileFirst'
  <2>1. CASE include_stack = <<>>
    <3>1. UNCHANGED include_stack
      BY <2>1
    <3> QED BY <1>1, <2>1, <3>1 DEF MainFileFirst, SameKnowledge
  <2>2. CASE include_stack # <<>>
    <3>1. pp'.main_file = MainFile /\ ~IsSpecialFilename(pp'.main_file)
      BY <2>2, IncluderNotSpecialMain DEF SameKnowledge
    <3>2. include_stack' # <<>> => 1 \in DOMAIN include_stack'
      BY DEF StackTypeOK
    <3> QED BY <1>1, <2>2, <3>1, <3>2 DEF MainFileFirst
  <2> QED BY <2>1, <2>2
<1> QED BY <1>2, <1>3, <1>4, IInvPartsPrime

LEMMA CommentFrames ==
  ASSUME StackTypeOK, NEW c \in Comments, HandleComment(c)
  PROVE  /\ include_stack # <<>> /\ Reading /\ StackTypeOK'
         /\ include_stack' = Scoped(c.pragma)
         /\ DOMAIN include_stack' = DOMAIN include_stack
         /\ \A i \in DOMAIN include_stack :
               /\ include_stack'[i].file = include_stack[i].file
               /\ include_stack'[i].live = include_stack[i].live
<1>1. include_stack' = Scoped(c.pragma) /\ Reading /\ include_stack # <<>>
  BY DEF HandleComment, Reading
<1> QED BY <1>1, ScopedFacts DEF ScopedFrames, SameFiles, StackTypeOK

LEMMA HandleCommentPreserves ==
  ASSUME IInv, NEW c \in Comments, HandleComment(c) PROVE IInv'
<1>1. c.file = Top.file /\ Commenting(pp, pp', c.file) /\ SameKnowledge(pp, pp')
  BY HandleCommentStep
<1>2. StackTypeOK /\ InfoInv
  BY IInvParts
<1>3. Top.file \in Paths
  BY <1>2, CommentFrames, TopType
<1>4. Exports' \in Seq(Paths) /\ Keeps' \in Seq(Paths)
  BY <1>1, <1>2, <1>3, ScopesTyped DEF Commenting, InfoInv, InfoTypeOK
<1> QED BY <1>1, <1>2, <1>4, CommentFrames, SameStackPreserves

LEMMA StackUnchangedPreserves ==
  ASSUME IInv, UNCHANGED include_stack, SameKnowledge(pp, pp'),
         Exports' = Exports, Keeps' = Keeps
  PROVE  IInv'
<1>1. StackTypeOK' /\ Exports' \in Seq(Paths) /\ Keeps' \in Seq(Paths)
  BY DEF StackTypeOK, IInv, TypeOK, InfoTypeOK
<1> QED BY <1>1, SameStackPreserves

LEMMA UseMacroPreserves ==
  ASSUME IInv, NEW u \in MacroUses, UseMacro(u) PROVE IInv'
BY UseMacroStep, StackUnchangedPreserves DEF UseMacro, Exports, Keeps

LEMMA PopulateMapsPreserves == ASSUME IInv, PopulateMaps PROVE IInv'
BY PopulateStep, StackUnchangedPreserves DEF PopulateMaps, Exports, Keeps

LEMMA ExitFrames ==
  ASSUME StackTypeOK, ExitFile
  PROVE  /\ StackTypeOK'
         /\ Len(include_stack) \in Nat /\ Len(include_stack) > 1
         /\ DOMAIN include_stack = 1..Len(include_stack)
         /\ DOMAIN include_stack' = 1 .. Len(include_stack) - 1
         /\ \A i \in DOMAIN include_stack' :
               /\ include_stack'[i].file = include_stack[i].file
               /\ include_stack'[i].live = include_stack[i].live
<1> DEFINE Frames == [file : Paths, exports : BOOLEAN, live : BOOLEAN]
           n == Len(include_stack)
           frame(i) == [include_stack[i] EXCEPT
                          !.exports = @ /\ include_stack[i].file # Top.file]
<1>1. include_stack \in Seq(Frames) /\ n > 1 /\ n \in Nat /\ DOMAIN include_stack = 1..n
  BY DEF StackTypeOK, ExitFile
<1>2. include_stack' = [i \in 1 .. n - 1 |-> frame(i)]
  BY DEF ExitFile
<1>3. \A i \in 1..n : include_stack[i] \in Frames
  <2> HIDE DEF Frames
  <2> QED BY <1>1
<1>4. \A i \in 1..n : /\ frame(i) \in Frames
                      /\ frame(i).file = include_stack[i].file
                      /\ frame(i).live = include_stack[i].live
  <2> TAKE i \in 1..n
  <2> DEFINE f == include_stack[i]
             v == f.exports /\ f.file # Top.file
  <2>1. f \in Frames /\ v \in BOOLEAN
    BY <1>3
  <2>2. frame(i) = [f EXCEPT !.exports = v]
    OBVIOUS
  <2> HIDE DEF f, v, frame
  <2> QED BY <2>1, <2>2 DEF f
<1> HIDE DEF Frames, frame, n
<1>5. PICK m \in Nat : n = m + 1
  BY <1>1
<1>6. /\ include_stack' \in Seq(Frames)
      /\ DOMAIN include_stack' = 1 .. n - 1
      /\ \A i \in 1 .. n - 1 : include_stack'[i] = frame(i)
  BY <1>1, <1>2, <1>4, <1>5
<1>7. \A i \in 1 .. n - 1 : i \in 1..n
  BY <1>1
<1>8. \A i \in DOMAIN include_stack' :
               /\ include_stack'[i].file = include_stack[i].file
               /\ include_stack'[i].live = include_stack[i].live
  BY <1>4, <1>6, <1>7
<1> QED BY <1>1, <1>6, <1>8 DEF StackTypeOK, Frames, n

LEMMA ExitFilePreserves == ASSUME IInv, ExitFile PROVE IInv'
<1>1. SameKnowledge(pp, pp') /\ ScopesLeft(pp, pp', Top.file)
  BY ExitFileStep
<1>2. StackTypeOK /\ InfoInv
  BY IInvParts
<1>3. Exports' \in Seq(Paths) /\ Keeps' \in Seq(Paths)
  BY <1>1, <1>2, LeftTyped DEF InfoInv, InfoTypeOK
<1>4. /\ StackTypeOK'
      /\ include_stack # <<>>
      /\ \A i \in DOMAIN include_stack' :
           i \in DOMAIN include_stack /\ include_stack'[i].file = include_stack[i].file
  BY <1>2, ExitFrames
<1> QED BY <1>1, <1>3, <1>4, SameStackPreserves

LEMMA EndMainPreserves == ASSUME IInv, EndMain PROVE IInv'
<1>1. SameKnowledge(pp, pp') /\ ScopesLeft(pp, pp', MainFile)
  BY EndMainStep
<1>2. StackTypeOK /\ InfoInv
  BY IInvParts
<1>3. Exports' \in Seq(Paths) /\ Keeps' \in Seq(Paths)
  BY <1>1, <1>2, LeftTyped DEF InfoInv, InfoTypeOK
<1>4. include_stack' = <<>> /\ include_stack # <<>>
  BY DEF EndMain
<1>5. StackTypeOK'
  BY <1>4 DEF StackTypeOK
<1>6. DOMAIN include_stack' = {}
  BY <1>4
<1> QED BY <1>1, <1>3, <1>4, <1>5, <1>6, SameStackPreserves

LEMMA UnchangedPreserves == ASSUME IInv, UNCHANGED <<include_stack, pp>> PROVE IInv'
BY DEF IInv, TypeOK, StackTypeOK, InfoTypeOK, MainFileFirst, FilesSeen,
       AssociatedReported, Exports, Keeps

LEMMA NextPreservesIInv == ASSUME IInv, [Next]_vars PROVE IInv'
<1>1. CASE EnterMain
  BY <1>1, EnterMainPreserves
<1>2. ASSUME NEW line \in Lines, EnterFile(line) PROVE IInv'
  BY <1>2, EnterFilePreserves
<1>3. ASSUME NEW line \in Lines, SkipFile(line) PROVE IInv'
  BY <1>3, SkipFilePreserves
<1>4. ASSUME NEW c \in Comments, HandleComment(c) PROVE IInv'
  BY <1>4, HandleCommentPreserves
<1>5. ASSUME NEW u \in MacroUses, UseMacro(u) PROVE IInv'
  BY <1>5, UseMacroPreserves
<1>6. CASE ExitFile
  BY <1>6, ExitFilePreserves
<1>7. CASE EndMain
  BY <1>7, EndMainPreserves
<1>8. CASE FinalizeAddedIncludes
  BY <1>8, UnchangedPreserves DEF FinalizeAddedIncludes, pp_vars
<1>9. CASE PopulateMaps
  BY <1>9, PopulateMapsPreserves
<1>10. CASE UNCHANGED vars
  BY <1>10, UnchangedPreserves DEF vars, pp_vars
<1> QED BY <1>1, <1>2, <1>3, <1>4, <1>5, <1>6, <1>7, <1>8, <1>9, <1>10 DEF Next

THEOREM InductiveInvariant == Spec => []IInv
<1>1. IInv /\ [Next]_vars => IInv'
  BY NextPreservesIInv
<1> QED BY InitIInv, <1>1, PTL DEF Spec

(* The information about every file, and the include stack, stay in their  *)
(* types, and nothing is known before the main file is read.               *)
THEOREM TypeCorrect == Spec => []TypeOK
<1>1. IInv => TypeOK
  BY DEF IInv
<1> QED BY <1>1, InductiveInvariant, PTL

(* AddDirectInclude: an associated header is analyzed, wherever it was     *)
(* first read, and whether its name or a pragma associates it.             *)
THEOREM AssociatedHeadersAnalyzedAlways == Spec => []AssociatedHeadersAnalyzed
<1>1. IInv => AssociatedHeadersAnalyzed
  BY DEF IInv, AssociatedReported, AssociatedHeadersAnalyzed, Associated, Seen,
         Reported, Info
<1> QED BY <1>1, InductiveInvariant, PTL

-----------------------------------------------------------------------------
(* Every file that is included is guarded. *)
IncludesGuarded == \A l \in Lines : Guard[l.includee] \in {"once", "ifndef"}

(* Scopes and an include stack that changes. *)
LEMMA NestedPush ==
  ASSUME NEW scopes, NEW stack, NEW grown, NEW n \in Nat,
         DOMAIN stack = 1..n, DOMAIN grown = 1 .. n + 1,
         \A i \in 1..n : /\ grown[i].file = stack[i].file
                         /\ grown[i].live = stack[i].live,
         grown[n + 1].live => \A i \in 1..n : stack[i].file # grown[n + 1].file,
         Nested(scopes, stack)
  PROVE  Nested(scopes, grown)
<1>1. ASSUME NEW i \in DOMAIN scopes
      PROVE  \E a \in DOMAIN grown : grown[a].live /\ grown[a].file = scopes[i]
  <2>1. PICK a \in 1..n : stack[a].live /\ stack[a].file = scopes[i]
    BY DEF Nested
  <2>2. a \in 1 .. n + 1
    BY <2>1
  <2> QED BY <2>1, <2>2
<1>2. ASSUME NEW i \in DOMAIN scopes, NEW a \in 1 .. n + 1,
             grown[a].live, grown[a].file = scopes[i]
      PROVE  a \in 1..n
  <2>1. PICK b \in 1..n : stack[b].file = scopes[i]
    BY DEF Nested
  <2>2. a # n + 1
    BY <1>2, <2>1
  <2>3. a \in 1..n
    BY <2>2
  <2> QED BY <2>3
<1>3. ASSUME NEW i \in DOMAIN scopes, NEW j \in DOMAIN scopes, i < j,
             NEW a \in DOMAIN grown, grown[a].live, grown[a].file = scopes[i],
             NEW b \in DOMAIN grown, grown[b].live, grown[b].file = scopes[j]
      PROVE  a < b
  <2>1. a \in 1..n /\ b \in 1..n
    BY <1>2, <1>3
  <2> QED BY <1>3, <2>1 DEF Nested
<1> QED BY <1>1, <1>3 DEF Nested

LEMMA NestedPop ==
  ASSUME NEW scopes, NEW stack, NEW shrunk, NEW n \in Nat \ {0},
         DOMAIN stack = 1..n, DOMAIN shrunk = 1 .. n - 1,
         \A i \in 1 .. n - 1 : shrunk[i].file = stack[i].file /\ shrunk[i].live = stack[i].live,
         stack[n].live => \A i \in DOMAIN scopes : scopes[i] # stack[n].file,
         Nested(scopes, stack)
  PROVE  Nested(scopes, shrunk)
<1>1. ASSUME NEW i \in DOMAIN scopes
      PROVE  \E a \in DOMAIN shrunk : shrunk[a].live /\ shrunk[a].file = scopes[i]
  <2>1. PICK a \in 1..n : stack[a].live /\ stack[a].file = scopes[i]
    BY DEF Nested
  <2>2. a # n
    BY <2>1
  <2>3. a \in 1 .. n - 1
    BY <2>2
  <2> QED BY <2>1, <2>3
<1>2. \A a \in 1 .. n - 1 : a \in 1..n
  OBVIOUS
<1>3. ASSUME NEW i \in DOMAIN scopes, NEW j \in DOMAIN scopes, i < j,
             NEW a \in DOMAIN shrunk, shrunk[a].live, shrunk[a].file = scopes[i],
             NEW b \in DOMAIN shrunk, shrunk[b].live, shrunk[b].file = scopes[j]
      PROVE  a < b
  <2>1. /\ a \in 1..n /\ stack[a].live /\ stack[a].file = scopes[i]
        /\ b \in 1..n /\ stack[b].live /\ stack[b].file = scopes[j]
    BY <1>2, <1>3
  <2> QED BY <1>3, <2>1 DEF Nested
<1> QED BY <1>1, <1>3 DEF Nested

LEMMA NestedAppend ==
  ASSUME NEW S, NEW scopes \in Seq(S), NEW stack, NEW n \in Nat \ {0},
         DOMAIN stack = 1..n, stack[n].live, LiveOnce(stack),
         stack[n].file \in S,
         \A i \in DOMAIN scopes : scopes[i] # stack[n].file,
         Nested(scopes, stack)
  PROVE  Nested(Append(scopes, stack[n].file), stack)
<1> DEFINE m == Len(scopes)
           file == stack[n].file
           longer == Append(scopes, file)
<1>1. /\ m \in Nat /\ DOMAIN scopes = 1..m /\ DOMAIN longer = 1 .. m + 1
      /\ \A i \in 1..m : longer[i] = scopes[i]
      /\ longer[m + 1] = file
  OBVIOUS
<1> HIDE DEF m, longer
<1>2. ASSUME NEW i \in DOMAIN longer
      PROVE  \E a \in DOMAIN stack : stack[a].live /\ stack[a].file = longer[i]
  <2>1. CASE i = m + 1
    BY <1>1, <2>1
  <2>2. CASE i # m + 1
    <3>1. i \in 1..m
      BY <1>1, <2>2
    <3> QED BY <1>1, <3>1 DEF Nested
  <2> QED BY <2>1, <2>2
<1>3. ASSUME NEW i \in DOMAIN longer, NEW j \in DOMAIN longer, i < j,
             NEW a \in DOMAIN stack, stack[a].live, stack[a].file = longer[i],
             NEW b \in DOMAIN stack, stack[b].live, stack[b].file = longer[j]
      PROVE  a < b
  <2>1. i \in 1..m /\ longer[i] = scopes[i]
    BY <1>1, <1>3
  <2>2. CASE j = m + 1
    <3>1. b = n
      <4>1. stack[b].file = stack[n].file /\ n \in DOMAIN stack
        BY <1>1, <1>3, <2>2
      <4> QED BY <1>3, <4>1 DEF LiveOnce
    <3>2. a # n
      BY <1>1, <1>3, <2>1
    <3> QED BY <3>1, <3>2
  <2>3. CASE j # m + 1
    <3>1. j \in 1..m /\ longer[j] = scopes[j]
      BY <1>1, <2>3
    <3> QED BY <1>1, <1>3, <2>1, <3>1 DEF Nested
  <2> QED BY <2>2, <2>3
<1>4. Nested(longer, stack)
  BY <1>2, <1>3 DEF Nested
<1> QED BY <1>4 DEF longer, file

LEMMA NestedFront ==
  ASSUME NEW S, NEW scopes \in Seq(S), scopes # <<>>, NEW stack, Nested(scopes, stack)
  PROVE  Nested(Front(scopes), stack)
<1>1. /\ DOMAIN Front(scopes) = 1 .. Len(scopes) - 1
      /\ DOMAIN scopes = 1..Len(scopes) /\ Len(scopes) \in Nat
      /\ \A i \in 1 .. Len(scopes) - 1 : Front(scopes)[i] = scopes[i]
  BY FrontFacts
<1> DEFINE shorter == Front(scopes)
<1>2. \A i \in DOMAIN shorter : i \in DOMAIN scopes /\ shorter[i] = scopes[i]
  BY <1>1
<1> HIDE DEF shorter
<1>3. Nested(shorter, stack)
  BY <1>2 DEF Nested
<1> QED BY <1>3 DEF shorter

(* Only the innermost scope can be one of the file that is being read.     *)
LEMMA TopIsLast ==
  ASSUME NEW S, NEW scopes \in Seq(S), NEW stack, NEW n \in Nat \ {0},
         DOMAIN stack = 1..n, stack[n].live, Nested(scopes, stack),
         NEW i \in DOMAIN scopes, scopes[i] = stack[n].file
  PROVE  scopes # <<>> /\ i = Len(scopes) /\ Last(scopes) = stack[n].file
<1>1. DOMAIN scopes = 1..Len(scopes) /\ Len(scopes) \in Nat /\ n \in DOMAIN stack
  OBVIOUS
<1>2. scopes # <<>> /\ Len(scopes) \in DOMAIN scopes
  BY <1>1
<1>3. i = Len(scopes)
  <2> SUFFICES ASSUME i # Len(scopes) PROVE FALSE
    OBVIOUS
  <2>1. i < Len(scopes)
    BY <1>1
  <2>2. PICK a \in DOMAIN stack : stack[a].live /\ stack[a].file = scopes[Len(scopes)]
    BY <1>2 DEF Nested
  <2>3. n < a
    BY <1>1, <1>2, <2>1, <2>2 DEF Nested
  <2> QED BY <2>2, <2>3
<1> QED BY <1>2, <1>3 DEF Last

IsOpen(scopes, file) == scopes # <<>> /\ Last(scopes) = file

(* A file is left, and with it its scope. *)
LEMMA NestedLeave ==
  ASSUME NEW S, NEW scopes \in Seq(S), NEW stack, NEW shrunk, NEW n \in Nat \ {0},
         DOMAIN stack = 1..n, DOMAIN shrunk = 1 .. n - 1,
         \A i \in 1 .. n - 1 : shrunk[i].file = stack[i].file /\ shrunk[i].live = stack[i].live,
         Nested(scopes, stack), NEW fewer,
         fewer = IF IsOpen(scopes, stack[n].file) THEN Front(scopes) ELSE scopes
  PROVE  Nested(fewer, shrunk)
<1>1. Nested(fewer, stack)
  BY NestedFront DEF IsOpen
<1>2. ASSUME stack[n].live, NEW i \in DOMAIN fewer, fewer[i] = stack[n].file
      PROVE  FALSE
  <2>1. CASE IsOpen(scopes, stack[n].file)
    <3>1. /\ DOMAIN fewer = 1 .. Len(scopes) - 1
          /\ \A j \in 1 .. Len(scopes) - 1 : fewer[j] = scopes[j]
      BY <2>1, FrontFacts DEF IsOpen
    <3>2. i \in 1 .. Len(scopes) - 1 /\ i \in DOMAIN scopes /\ scopes[i] = stack[n].file
      BY <1>2, <3>1
    <3>3. i = Len(scopes)
      BY <1>2, <3>2, TopIsLast
    <3> QED BY <3>2, <3>3
  <2>2. CASE ~IsOpen(scopes, stack[n].file)
    BY <1>2, <2>2, TopIsLast DEF IsOpen
  <2> QED BY <2>1, <2>2
<1> QED BY <1>1, <1>2, NestedPop

LEMMA DisjointFewer ==
  ASSUME NEW S, NEW exports \in Seq(S), NEW keeps \in Seq(S), NEW file,
         Disjoint(exports, keeps), NEW fewer_exports, NEW fewer_keeps,
         fewer_exports = IF IsOpen(exports, file) THEN Front(exports) ELSE exports,
         fewer_keeps = IF IsOpen(keeps, file) THEN Front(keeps) ELSE keeps
  PROVE  Disjoint(fewer_exports, fewer_keeps)
<1>1. \A i \in DOMAIN fewer_exports :
         i \in DOMAIN exports /\ fewer_exports[i] = exports[i]
  BY FrontFacts DEF IsOpen
<1>2. \A i \in DOMAIN fewer_keeps : i \in DOMAIN keeps /\ fewer_keeps[i] = keeps[i]
  BY FrontFacts DEF IsOpen
<1> QED BY <1>1, <1>2 DEF Disjoint

-----------------------------------------------------------------------------
(* ScopesInv is inductive, given IInv. *)

LEMMA StackFacts ==
  ASSUME StackTypeOK
  PROVE  Len(include_stack) \in Nat /\ DOMAIN include_stack = 1..Len(include_stack)
BY DEF StackTypeOK

(* A comment in the file that is read, before another file is entered. *)
LEMMA CommentScopes ==
  ASSUME IInv, ScopesInv, Reading, ScopesAfterComment(pp, pp', Top.file)
  PROVE  /\ Nested(Exports', include_stack) /\ Nested(Keeps', include_stack)
         /\ Disjoint(Exports', Keeps')
<1> DEFINE n == Len(include_stack)
           file == Top.file
<1>1. /\ n \in Nat \ {0} /\ DOMAIN include_stack = 1..n
      /\ Top = include_stack[n]
      /\ include_stack[n].live /\ include_stack[n].file = file /\ file \in Paths
  BY TopType, StackFacts DEF IInv, TypeOK
<1>2. Exports \in Seq(Paths) /\ Keeps \in Seq(Paths)
  BY DEF IInv, TypeOK, InfoTypeOK
<1>3. /\ LiveOnce(include_stack)
      /\ Nested(Exports, include_stack) /\ Nested(Keeps, include_stack)
      /\ Disjoint(Exports, Keeps)
  BY DEF ScopesInv
<1>4. /\ HasOpenBeginExports(pp, file) <=> IsOpen(Exports, file)
      /\ HasOpenBeginKeep(pp, file) <=> IsOpen(Keeps, file)
  BY DEF HasOpenBeginExports, HasOpenBeginKeep, IsOpen, Exports, Keeps
<1> DEFINE stack == include_stack
<1> HIDE DEF n, file, stack
<1>5. /\ ~IsOpen(Exports, file) => \A i \in DOMAIN Exports : Exports[i] # file
      /\ ~IsOpen(Keeps, file) => \A i \in DOMAIN Keeps : Keeps[i] # file
  BY <1>1, <1>2, <1>3, TopIsLast DEF IsOpen
<1>6. CASE Exports' = Exports /\ Keeps' = Keeps
  BY <1>3, <1>6
<1>7. CASE /\ ~IsOpen(Exports, file) /\ ~IsOpen(Keeps, file)
           /\ Exports' = Append(Exports, file) /\ Keeps' = Keeps
  <2>1. Nested(Append(Exports, include_stack[n].file), include_stack)
    BY <1>1, <1>2, <1>3, <1>5, <1>7, NestedAppend
  <2>2. Disjoint(Append(Exports, file), Keeps)
    <3>1. \A i \in DOMAIN Append(Exports, file) :
             \/ Append(Exports, file)[i] = file
             \/ i \in DOMAIN Exports /\ Append(Exports, file)[i] = Exports[i]
      BY <1>1, <1>2
    <3> QED BY <1>3, <1>5, <1>7, <3>1 DEF Disjoint
  <2> QED BY <1>1, <1>3, <1>7, <2>1, <2>2
<1>8. CASE /\ ~IsOpen(Exports, file) /\ ~IsOpen(Keeps, file)
           /\ Exports' = Exports /\ Keeps' = Append(Keeps, file)
  <2>1. Nested(Append(Keeps, include_stack[n].file), include_stack)
    BY <1>1, <1>2, <1>3, <1>5, <1>8, NestedAppend
  <2>2. Disjoint(Exports, Append(Keeps, file))
    <3>1. \A i \in DOMAIN Append(Keeps, file) :
             \/ Append(Keeps, file)[i] = file
             \/ i \in DOMAIN Keeps /\ Append(Keeps, file)[i] = Keeps[i]
      BY <1>1, <1>2
    <3> QED BY <1>3, <1>5, <1>8, <3>1 DEF Disjoint
  <2> QED BY <1>1, <1>3, <1>8, <2>1, <2>2
<1>9. CASE IsOpen(Exports, file) /\ Exports' = Front(Exports) /\ Keeps' = Keeps
  <2>1. Nested(Front(Exports), include_stack)
    BY <1>2, <1>3, <1>9, NestedFront DEF IsOpen
  <2>2. \A i \in DOMAIN Front(Exports) :
           i \in DOMAIN Exports /\ Front(Exports)[i] = Exports[i]
    BY <1>2, <1>9, FrontFacts DEF IsOpen
  <2> QED BY <1>3, <1>9, <2>1, <2>2 DEF Disjoint
<1>10. CASE IsOpen(Keeps, file) /\ Exports' = Exports /\ Keeps' = Front(Keeps)
  <2>1. Nested(Front(Keeps), include_stack)
    BY <1>2, <1>3, <1>10, NestedFront DEF IsOpen
  <2>2. \A i \in DOMAIN Front(Keeps) :
           i \in DOMAIN Keeps /\ Front(Keeps)[i] = Keeps[i]
    BY <1>2, <1>10, FrontFacts DEF IsOpen
  <2> QED BY <1>3, <1>10, <2>1, <2>2 DEF Disjoint
<1>11. ScopesAfterComment(pp, pp', file)
  BY DEF file
<1>12. \/ Exports' = Exports /\ Keeps' = Keeps
       \/ /\ ~IsOpen(Exports, file) /\ ~IsOpen(Keeps, file)
          /\ Exports' = Append(Exports, file) /\ Keeps' = Keeps
       \/ /\ ~IsOpen(Exports, file) /\ ~IsOpen(Keeps, file)
          /\ Exports' = Exports /\ Keeps' = Append(Keeps, file)
       \/ IsOpen(Exports, file) /\ Exports' = Front(Exports) /\ Keeps' = Keeps
       \/ IsOpen(Keeps, file) /\ Exports' = Exports /\ Keeps' = Front(Keeps)
  BY <1>4, <1>11 DEF ScopesAfterComment, Exports, Keeps
<1> QED BY <1>6, <1>7, <1>8, <1>9, <1>10, <1>12

(* What is entered and live has not been seen before. *)
LEMMA LiveIsNew ==
  ASSUME IInv, IncludesGuarded, NEW line \in Lines, EnterFile(line),
         include_stack'[Len(include_stack) + 1].live
  PROVE  line.includee \notin Seen(pp)
<1>1. /\ line.includee \in Files /\ ~MustSkip(line.includee)
      /\ include_stack' = Push(Scoped(line.pragma), line.includee)
      /\ StackTypeOK /\ Reading
  BY EnterFileStep DEF EnterFile, IInv, TypeOK
<1>2. ~(Guard[line.includee] = "ifndef" /\ Open(line.includee))
  <2>1. line.includee \in Paths
    BY <1>1 DEF Paths
  <2> QED BY <1>1, <2>1, EnteredFrames DEF EnteredStack
<1> QED BY <1>1, <1>2 DEF MustSkip, IncludesGuarded, Seen

LEMMA EnterMainScopes == ASSUME IInv, EnterMain PROVE ScopesInv'
<1> DEFINE bottom == [file |-> MainFile, exports |-> FALSE, live |-> TRUE]
           built_in == [file |-> SpecialFilename, exports |-> FALSE, live |-> TRUE]
<1>1. /\ include_stack = <<>> /\ IsSpecialFilename(pp.main_file)
      /\ include_stack' = << bottom, built_in >>
      /\ ScopesAfterComment(pp, pp', SpecialFilename)
  BY EnterMainStep DEF LineRead
<1>2. /\ DOMAIN include_stack' = 1..2
      /\ include_stack'[1].file = MainFile
      /\ include_stack'[2].file = SpecialFilename
      /\ include_stack'[2].live
      /\ MainFile # SpecialFilename
  BY <1>1, FilesAssumption
<1> HIDE DEF bottom, built_in
<1>3. LiveOnce(include_stack')
  BY <1>2 DEF LiveOnce
<1>4. Exports = <<>> /\ Keeps = <<>>
  BY <1>1 DEF IInv, MainFileFirst
<1>5. /\ ~HasOpenBeginExports(pp, SpecialFilename)
      /\ ~HasOpenBeginKeep(pp, SpecialFilename)
  BY <1>4 DEF HasOpenBeginExports, HasOpenBeginKeep, Exports, Keeps
<1>6. \/ Exports' = <<>> /\ Keeps' = <<>>
      \/ Exports' = <<SpecialFilename>> /\ Keeps' = <<>>
      \/ Exports' = <<>> /\ Keeps' = <<SpecialFilename>>
  <2>1. \/ Exports' = Exports /\ Keeps' = Keeps
        \/ Exports' = Append(Exports, SpecialFilename) /\ Keeps' = Keeps
        \/ Exports' = Exports /\ Keeps' = Append(Keeps, SpecialFilename)
    BY <1>1, <1>5 DEF ScopesAfterComment, Exports, Keeps
  <2>2. Append(<<>>, SpecialFilename) = <<SpecialFilename>>
    OBVIOUS
  <2> QED BY <1>4, <2>1, <2>2, Zenon
<1>7. Nested(<<>>, include_stack')
  BY DEF Nested
<1>8. Nested(<<SpecialFilename>>, include_stack')
  <2> DEFINE one == <<SpecialFilename>>
  <2>1. DOMAIN one = {1} /\ one[1] = SpecialFilename
    OBVIOUS
  <2> HIDE DEF one
  <2>2. Nested(one, include_stack')
    BY <1>2, <2>1 DEF Nested
  <2> QED BY <2>2 DEF one
<1>9. \A scopes : Disjoint(<<>>, scopes) /\ Disjoint(scopes, <<>>)
  BY DEF Disjoint
<1>10. /\ Nested(Exports', include_stack') /\ Nested(Keeps', include_stack')
       /\ Disjoint(Exports', Keeps')
  BY <1>6, <1>7, <1>8, <1>9, Zenon
<1> QED BY <1>3, <1>10 DEF ScopesInv

LEMMA EnterFileScopes ==
  ASSUME IInv, ScopesInv, IncludesGuarded, NEW line \in Lines, EnterFile(line)
  PROVE  ScopesInv'
<1> DEFINE e == line.includee
           n == Len(include_stack)
<1>1. /\ e \in Files /\ line.includer = Top.file
      /\ include_stack' = Push(Scoped(line.pragma), e)
      /\ ScopesAfterComment(pp, pp', Top.file)
  BY EnterFileStep DEF LineRead
<1>3. Reading
  BY DEF EnterFile
<1>2. /\ DOMAIN include_stack = 1..n /\ n \in Nat
      /\ DOMAIN include_stack' = 1 .. n + 1
      /\ \A i \in 1..n : /\ include_stack'[i].file = include_stack[i].file
                          /\ include_stack'[i].live = include_stack[i].live
      /\ include_stack'[n + 1].file = e
  <2>1. e \in Paths
    BY <1>1 DEF Paths
  <2>2. EnteredStack(line.pragma, e, include_stack')
    BY <1>1, <1>3, <2>1, EnteredFrames DEF IInv, TypeOK
  <2> QED BY <2>2 DEF EnteredStack
<1>4. /\ Nested(Exports', include_stack) /\ Nested(Keeps', include_stack)
      /\ Disjoint(Exports', Keeps')
  BY <1>1, <1>3, CommentScopes
<1>5. include_stack'[n + 1].live =>
        \A i \in 1..n : include_stack[i].file # include_stack'[n + 1].file
  <2>1. \A i \in 1..n : include_stack[i].file \in Seen(pp)
    BY <1>2 DEF IInv, FilesSeen
  <2> QED BY <1>2, <2>1, LiveIsNew
<1> HIDE DEF e, n
<1>6. Nested(Exports', include_stack') /\ Nested(Keeps', include_stack')
  BY <1>2, <1>4, <1>5, NestedPush
<1>7. LiveOnce(include_stack')
  <2>1. LiveOnce(include_stack)
    BY DEF ScopesInv
  <2>2. \A i \in 1 .. n + 1 : i \in 1..n \/ i = n + 1
    BY <1>2
  <2> QED BY <1>2, <1>5, <2>1, <2>2 DEF LiveOnce
<1> QED BY <1>4, <1>6, <1>7 DEF ScopesInv

LEMMA SameFilesScopes ==
  ASSUME SameFiles(include_stack, include_stack'), LiveOnce(include_stack),
         Nested(Exports', include_stack), Nested(Keeps', include_stack),
         Disjoint(Exports', Keeps')
  PROVE  ScopesInv'
<1>1. LiveOnce(include_stack')
  BY DEF LiveOnce, SameFiles
<1>2. Nested(Exports', include_stack') /\ Nested(Keeps', include_stack')
  BY DEF Nested, SameFiles
<1> QED BY <1>1, <1>2 DEF ScopesInv

LEMMA SkipFileScopes ==
  ASSUME IInv, ScopesInv, NEW line \in Lines, SkipFile(line)
  PROVE  ScopesInv'
<1>1. /\ include_stack' = Scoped(line.pragma) /\ ScopesAfterComment(pp, pp', Top.file)
  BY SkipFileStep DEF LineRead
<1>2. Reading /\ StackTypeOK
  BY DEF SkipFile, IInv, TypeOK
<1>3. SameFiles(include_stack, include_stack')
  BY <1>1, <1>2, ScopedFacts DEF ScopedFrames
<1> QED BY <1>1, <1>2, <1>3, CommentScopes, SameFilesScopes DEF ScopesInv

LEMMA HandleCommentScopes ==
  ASSUME IInv, ScopesInv, NEW c \in Comments, HandleComment(c)
  PROVE  ScopesInv'
<1>1. ScopesAfterComment(pp, pp', Top.file) /\ Reading
  BY HandleCommentStep DEF Commenting, HandleComment
<1>2. SameFiles(include_stack, include_stack')
  BY CommentFrames DEF SameFiles, IInv, TypeOK
<1> QED BY <1>1, <1>2, CommentScopes, SameFilesScopes DEF ScopesInv

LEMMA LeaveScopes ==
  ASSUME IInv, ScopesInv, include_stack # <<>>,
         ScopesLeft(pp, pp', include_stack[Len(include_stack)].file),
         DOMAIN include_stack' = 1 .. Len(include_stack) - 1,
         \A i \in DOMAIN include_stack' :
            /\ include_stack'[i].file = include_stack[i].file
            /\ include_stack'[i].live = include_stack[i].live
  PROVE  ScopesInv'
<1> DEFINE n == Len(include_stack)
           file == include_stack[n].file
<1>1. n \in Nat \ {0} /\ DOMAIN include_stack = 1..n
  BY StackFacts DEF IInv, TypeOK, StackTypeOK
<1>2. Exports \in Seq(Paths) /\ Keeps \in Seq(Paths)
  BY DEF IInv, TypeOK, InfoTypeOK
<1>3. /\ LiveOnce(include_stack)
      /\ Nested(Exports, include_stack) /\ Nested(Keeps, include_stack)
      /\ Disjoint(Exports, Keeps)
  BY DEF ScopesInv
<1>4. /\ Exports' = IF IsOpen(Exports, file) THEN Front(Exports) ELSE Exports
      /\ Keeps' = IF IsOpen(Keeps, file) THEN Front(Keeps) ELSE Keeps
  BY DEF ScopesLeft, HasOpenBeginExports, HasOpenBeginKeep, IsOpen, Exports, Keeps
<1>5. /\ DOMAIN include_stack' = 1 .. n - 1
      /\ \A i \in 1 .. n - 1 : /\ include_stack'[i].file = include_stack[i].file
                               /\ include_stack'[i].live = include_stack[i].live
  OBVIOUS
<1>6. LiveOnce(include_stack')
  <2>1. \A i \in 1 .. n - 1 : i \in DOMAIN include_stack
    BY <1>1
  <2> QED BY <1>3, <1>5, <2>1 DEF LiveOnce
<1>7. Disjoint(Exports', Keeps')
  <2> HIDE DEF file
  <2> QED BY <1>2, <1>3, <1>4, DisjointFewer
<1> HIDE DEF n
<1>8. Nested(Exports', include_stack') /\ Nested(Keeps', include_stack')
  BY <1>1, <1>2, <1>3, <1>4, <1>5, NestedLeave
<1> QED BY <1>6, <1>7, <1>8 DEF ScopesInv

LEMMA ExitFileScopes == ASSUME IInv, ScopesInv, ExitFile PROVE ScopesInv'
<1>1. StackTypeOK
  BY DEF IInv, TypeOK
<1>2. /\ Len(include_stack) > 1 /\ include_stack # <<>>
      /\ DOMAIN include_stack' = 1 .. Len(include_stack) - 1
      /\ \A i \in DOMAIN include_stack' :
               /\ include_stack'[i].file = include_stack[i].file
               /\ include_stack'[i].live = include_stack[i].live
  BY <1>1, ExitFrames
<1>3. Top = include_stack[Len(include_stack)]
  BY DEF Top, Last
<1> QED BY <1>2, <1>3, ExitFileStep, LeaveScopes

LEMMA EndMainScopes == ASSUME IInv, ScopesInv, EndMain PROVE ScopesInv'
<1>1. Len(include_stack) = 1 /\ include_stack' = <<>> /\ include_stack # <<>>
  <2>1. Len(include_stack) = 1 /\ include_stack' = <<>>
    BY DEF EndMain
  <2> QED BY <2>1
<1>2. include_stack[Len(include_stack)].file = MainFile
  BY <1>1 DEF IInv, MainFileFirst
<1>3. DOMAIN include_stack' = {} /\ 1 .. Len(include_stack) - 1 = {}
  BY <1>1
<1> QED BY <1>1, <1>2, <1>3, EndMainStep, LeaveScopes

LEMMA SameScopes ==
  ASSUME ScopesInv, UNCHANGED include_stack, Exports' = Exports, Keeps' = Keeps
  PROVE  ScopesInv'
BY DEF ScopesInv

LEMMA NextPreservesScopes ==
  ASSUME IncludesGuarded, IInv, ScopesInv, [Next]_vars PROVE ScopesInv'
<1>1. CASE EnterMain
  BY <1>1, EnterMainScopes
<1>2. ASSUME NEW line \in Lines, EnterFile(line) PROVE ScopesInv'
  BY <1>2, EnterFileScopes
<1>3. ASSUME NEW line \in Lines, SkipFile(line) PROVE ScopesInv'
  BY <1>3, SkipFileScopes
<1>4. ASSUME NEW c \in Comments, HandleComment(c) PROVE ScopesInv'
  BY <1>4, HandleCommentScopes
<1>5. ASSUME NEW u \in MacroUses, UseMacro(u) PROVE ScopesInv'
  BY <1>5, UseMacroStep, SameScopes DEF UseMacro, Exports, Keeps
<1>6. CASE ExitFile
  BY <1>6, ExitFileScopes
<1>7. CASE EndMain
  BY <1>7, EndMainScopes
<1>8. CASE FinalizeAddedIncludes
  BY <1>8, SameScopes DEF FinalizeAddedIncludes, pp_vars, Exports, Keeps
<1>9. CASE PopulateMaps
  BY <1>9, PopulateStep, SameScopes DEF PopulateMaps, Exports, Keeps
<1>10. CASE UNCHANGED vars
  BY <1>10, SameScopes DEF vars, pp_vars, Exports, Keeps
<1> QED BY <1>1, <1>2, <1>3, <1>4, <1>5, <1>6, <1>7, <1>8, <1>9, <1>10 DEF Next

LEMMA InitScopes == Init => ScopesInv
<1> SUFFICES ASSUME Init PROVE ScopesInv
  OBVIOUS
<1>1. include_stack = <<>> /\ Exports = <<>> /\ Keeps = <<>>
  BY DEF Init, EmptyInfo, Exports, Keeps
<1>2. LiveOnce(<<>>) /\ Nested(<<>>, <<>>) /\ Disjoint(<<>>, <<>>)
  BY DEF LiveOnce, Nested, Disjoint
<1> QED BY <1>1, <1>2, Zenon DEF ScopesInv

LEMMA ScopesAreOne == ASSUME IInv, ScopesInv PROVE OneScopePerFile
<1> DEFINE IsOne(scopes) ==
      /\ IsInjective(scopes)
      /\ \A f \in Range(scopes) : Open(f)
<1>1. ASSUME NEW scopes \in Seq(Paths), Nested(scopes, include_stack)
      PROVE  IsOne(scopes)
  <2>1. DOMAIN scopes = 1..Len(scopes) /\ Len(scopes) \in Nat
    OBVIOUS
  <2>2. ASSUME NEW i \in DOMAIN scopes, NEW j \in DOMAIN scopes, i < j
        PROVE  scopes[i] # scopes[j]
    <3> SUFFICES ASSUME scopes[i] = scopes[j] PROVE FALSE
      OBVIOUS
    <3>1. PICK a \in DOMAIN include_stack :
             include_stack[a].live /\ include_stack[a].file = scopes[i]
      BY <1>1 DEF Nested
    <3>2. a < a
      BY <1>1, <2>2, <3>1 DEF Nested
    <3>3. a \in Nat
      BY StackFacts DEF IInv, TypeOK
    <3> QED BY <3>2, <3>3
  <2>3. IsInjective(scopes)
    BY <2>1, <2>2 DEF IsInjective
  <2>4. ASSUME NEW f \in Range(scopes) PROVE Open(f)
    BY <1>1, <2>4 DEF Nested, Range, Open
  <2> QED BY <2>3, <2>4
<1>2. IsOne(Exports) /\ IsOne(Keeps)
  BY <1>1 DEF ScopesInv, IInv, TypeOK, InfoTypeOK
<1>3. Range(Exports) \cap Range(Keeps) = {}
  BY DEF ScopesInv, Disjoint, Range
<1> QED BY <1>2, <1>3 DEF OneScopePerFile, Exports, Keeps

(* begin_exports and begin_keep: a file has at most one open scope, and    *)
(* only the files that are being read have one, when every file that is    *)
(* included has an include guard or #pragma once.                          *)
THEOREM OneScopePerFileAlways ==
  ASSUME IncludesGuarded PROVE Spec => []OneScopePerFile
<1> DEFINE Inv == IInv /\ ScopesInv
<1>1. Init => Inv
  BY InitIInv, InitScopes
<1>2. Inv /\ [Next]_vars => Inv'
  BY NextPreservesIInv, NextPreservesScopes
<1>3. Inv => OneScopePerFile
  BY ScopesAreOne
<1> QED BY <1>1, <1>2, <1>3, PTL DEF Spec

-----------------------------------------------------------------------------
(* PrefixInv is inductive, given IInv, when no file includes the main file. *)

MainNotIncluded == \A l \in Lines : l.includee # MainFile

LEMMA EnterMainPrefix == ASSUME IInv, EnterMain PROVE PrefixInv'
<1>1. /\ include_stack = <<>> /\ IsSpecialFilename(pp.main_file)
      /\ include_stack' =
           << [file |-> MainFile, exports |-> FALSE, live |-> TRUE],
              [file |-> SpecialFilename, exports |-> FALSE, live |-> TRUE] >>
      /\ Seen(pp') = Seen(pp) \cup {SpecialFilename, MainFile}
      /\ \A f : IsPrefixHeader(pp', f) => IsPrefixHeader(pp, f)
  BY EnterMainStep DEF LineRead
<1>2. Seen(pp) = {}
  BY <1>1 DEF IInv, MainFileFirst
<1>3. \A f : ~IsPrefixHeader(pp', f)
  BY <1>1, <1>2 DEF IsPrefixHeader
<1>4. AllPrefix'
  BY <1>1, <1>2 DEF AllPrefix, Ordinary
<1>5. MainFileOnce'
  BY <1>1, FilesAssumption DEF MainFileOnce
<1> QED BY <1>3, <1>4, <1>5 DEF PrefixInv, PrefixFirst, PrefixAllTheWay, OthersAreNot, Closed

(* A file that is read, being a prefix header or the built-in one.         *)
LEMMA TopIsPrefix ==
  ASSUME IInv, PrefixInv, Reading,
         IsSpecialFilename(Top.file) \/ IsPrefixHeader(pp, Top.file)
  PROVE  AllPrefix
BY TopType DEF IInv, TypeOK, PrefixInv, PrefixAllTheWay

LEMMA CountedDomain ==
  ASSUME NEW p, NEW r
  PROVE  /\ DOMAIN Counted(p, r) = DOMAIN p.num_includes_seen \cup {r}
         /\ Counted(p, r)[r] = FindInMap(p.num_includes_seen, r, 0) + 1
BY DEF Counted, Assign

LEMMA FirstInCodePrefix ==
  ASSUME IInv, PrefixInv, Reading, FirstInCode(pp, Top.file)
  PROVE  AllPrefix
<1>1. include_stack # <<>> /\ Top.file = MainFile
  BY IncluderNotSpecialMain DEF Reading, FirstInCode
<1>2. FindInMap(pp.num_includes_seen, MainFile, 0) + 1 = 1
  BY <1>1, CountedDomain DEF FirstInCode
<1>3. \A f \in DOMAIN pp.num_includes_seen : pp.num_includes_seen[f] \in Nat \ {0}
  BY DEF IInv, TypeOK, InfoTypeOK
<1>4. MainFile \notin DOMAIN pp.num_includes_seen
  BY <1>2, <1>3 DEF FindInMap
<1> QED BY <1>1, <1>4 DEF PrefixInv, PrefixFirst

LEMMA EnterFilePrefix ==
  ASSUME IInv, PrefixInv, IncludesGuarded, MainNotIncluded,
         NEW line \in Lines, EnterFile(line)
  PROVE  PrefixInv'
<1> DEFINE r == Top.file
           e == line.includee
           n == Len(include_stack)
           makes_prefix == \/ FirstInCode(pp, r)
                           \/ IsSpecialFilename(r)
                           \/ IsPrefixHeader(pp, r)
<1>1. Reading
  BY DEF EnterFile
<1>2. pp.main_file = MainFile
  BY <1>1, IncluderNotSpecialMain DEF Reading
<1>3. e \in Files /\ e # MainFile /\ e # SpecialFilename /\ e \in Paths
  BY FilesAssumption DEF MainNotIncluded, Paths
<1>4. /\ include_stack' = Push(Scoped(line.pragma), e)
      /\ LineRead(pp, pp', r, e)
      /\ \A f : IsPrefixHeader(pp, f) => IsPrefixHeader(pp', f)
      /\ \A f : IsPrefixHeader(pp', f) => IsPrefixHeader(pp, f) \/ (f = e /\ makes_prefix)
      /\ IsSpecialFilename(r) => IsPrefixHeader(pp', e)
      /\ ~IsSpecialFilename(r) /\ IsPrefixHeader(pp, r) => IsPrefixHeader(pp', e)
  BY <1>2, <1>3, EnterFileStep
<1>5. /\ DOMAIN include_stack = 1..n /\ n \in Nat \ {0}
      /\ Top = include_stack[n] /\ include_stack[n].live
      /\ DOMAIN include_stack' = 1 .. n + 1
      /\ \A i \in 1..n : /\ include_stack'[i].file = include_stack[i].file
                          /\ include_stack'[i].live = include_stack[i].live
      /\ include_stack'[n + 1].file = e
  <2>1. StackTypeOK
    BY DEF IInv, TypeOK
  <2>2. EnteredStack(line.pragma, e, include_stack')
    BY <1>1, <1>3, <1>4, <2>1, EnteredFrames
  <2> QED BY <1>1, <2>1, <2>2, TopType DEF EnteredStack
<1>6. r \in Seen(pp) /\ Seen(pp') = Seen(pp) \cup {e}
  <2>1. r \in Seen(pp)
    BY <1>5 DEF IInv, FilesSeen
  <2> QED BY <1>4, <2>1 DEF LineRead
<1>7. include_stack'[n + 1].live => e \notin Seen(pp)
  BY LiveIsNew
<1>8. makes_prefix => AllPrefix
  BY <1>1, TopIsPrefix, FirstInCodePrefix
<1>9. /\ MainFileOnce /\ PrefixFirst /\ PrefixAllTheWay /\ OthersAreNot /\ Closed
  BY DEF PrefixInv
<1> HIDE DEF r, e, n, makes_prefix
<1>10. AllPrefix /\ IsPrefixHeader(pp', e) => AllPrefix'
  BY <1>4, <1>6 DEF AllPrefix, Ordinary
<1>11. e \in Seen(pp) => \A f : IsPrefixHeader(pp', f) <=> IsPrefixHeader(pp, f)
  BY <1>3, <1>4, <1>8 DEF AllPrefix, Ordinary
<1>12. AllPrefix /\ r # MainFile => IsPrefixHeader(pp', e)
  BY <1>4, <1>6 DEF AllPrefix, Ordinary, IsSpecialFilename
<1>13. MainFileOnce'
  <2>1. \A i \in 1 .. n + 1 : i \in 1..n \/ i = n + 1
    BY <1>5
  <2> QED BY <1>3, <1>5, <1>9, <2>1 DEF MainFileOnce
<1>14. PrefixFirst'
  <2> SUFFICES ASSUME MainFile \notin DOMAIN pp'.num_includes_seen PROVE AllPrefix'
    BY DEF PrefixFirst
  <2>1. DOMAIN pp'.num_includes_seen = DOMAIN pp.num_includes_seen \cup {r}
    BY <1>4, CountedDomain DEF LineRead
  <2>2. AllPrefix
    BY <1>1, <1>9, <2>1 DEF PrefixFirst, Reading
  <2> QED BY <1>10, <1>12, <2>1, <2>2
<1>15. ASSUME NEW i \in 1..n, include_stack[i].live,
              \/ IsSpecialFilename(include_stack[i].file)
              \/ IsPrefixHeader(pp, include_stack[i].file)
       PROVE  AllPrefix'
  <2>1. AllPrefix
    BY <1>5, <1>9, <1>15 DEF PrefixAllTheWay
  <2>2. r # MainFile
    <3> SUFFICES ASSUME r = MainFile PROVE FALSE
      OBVIOUS
    <3>1. n = 1
      BY <1>5, <1>9 DEF MainFileOnce, r
    <3>2. include_stack[i].file = MainFile
      BY <1>5, <3>1 DEF r
    <3> QED BY <1>9, <1>15, <3>2, FilesAssumption DEF OthersAreNot, IsSpecialFilename
  <2> QED BY <1>10, <1>12, <2>1, <2>2
<1>16. PrefixAllTheWay'
  <2> SUFFICES ASSUME NEW i \in 1 .. n + 1, include_stack'[i].live,
                      \/ IsSpecialFilename(include_stack'[i].file)
                      \/ IsPrefixHeader(pp', include_stack'[i].file)
               PROVE  AllPrefix'
    BY <1>5 DEF PrefixAllTheWay
  <2>1. CASE i = n + 1
    <3>1. IsPrefixHeader(pp', e) /\ e \notin Seen(pp)
      BY <1>3, <1>5, <1>7, <2>1 DEF IsSpecialFilename
    <3>2. makes_prefix
      BY <1>4, <3>1 DEF IsPrefixHeader
    <3> QED BY <1>8, <1>10, <3>1, <3>2
  <2>2. CASE i \in 1..n
    <3>1. /\ include_stack'[i].file = include_stack[i].file
          /\ include_stack'[i].live = include_stack[i].live
          /\ include_stack[i].file \in Seen(pp)
      BY <1>5, <2>2 DEF IInv, FilesSeen
    <3>2. IsPrefixHeader(pp', include_stack[i].file)
            => IsPrefixHeader(pp, include_stack[i].file)
      BY <1>4, <1>11, <3>1
    <3> QED BY <1>15, <2>2, <3>1, <3>2
  <2>3. i = n + 1 \/ i \in 1..n
    BY <1>5
  <2> QED BY <2>1, <2>2, <2>3
<1>17. OthersAreNot'
  BY <1>3, <1>4, <1>9 DEF OthersAreNot
<1>18. Closed'
  <2> SUFFICES ASSUME NEW f \in Seen(pp'), IsPrefixHeader(pp', f), NEW i \in Direct(pp', f)
               PROVE  IsPrefixHeader(pp', i)
    BY DEF Closed
  <2>1. CASE i \in Direct(pp, f)
    <3>1. f \in Seen(pp)
      BY <2>1 DEF Direct
    <3>2. IsPrefixHeader(pp, f)
      BY <1>4, <1>11, <3>1
    <3> QED BY <1>4, <1>9, <2>1, <3>1, <3>2 DEF Closed
  <2>2. CASE f = r /\ i = e
    <3>1. IsPrefixHeader(pp, r)
      BY <1>4, <1>6, <1>11, <2>2
    <3>2. ~IsSpecialFilename(r)
      BY <1>9, <3>1 DEF OthersAreNot, IsSpecialFilename
    <3> QED BY <1>4, <2>2, <3>1, <3>2
  <2>3. i \in Direct(pp, f) \/ (f = r /\ i = e)
    BY <1>4 DEF LineRead
  <2> QED BY <2>1, <2>2, <2>3
<1> QED BY <1>13, <1>14, <1>16, <1>17, <1>18 DEF PrefixInv

LEMMA SkipFilePrefix ==
  ASSUME IInv, PrefixInv, MainNotIncluded, NEW line \in Lines, SkipFile(line)
  PROVE  PrefixInv'
<1> DEFINE r == Top.file
           e == line.includee
<1>1. Reading
  BY DEF SkipFile
<1>2. e \in Files /\ e # MainFile /\ e # SpecialFilename
  BY FilesAssumption DEF MainNotIncluded
<1>3. /\ include_stack' = Scoped(line.pragma) /\ MustSkip(e)
      /\ LineRead(pp, pp', r, e)
      /\ \A f : IsPrefixHeader(pp, f) => IsPrefixHeader(pp', f)
      /\ \A f : IsPrefixHeader(pp', f) =>
           IsPrefixHeader(pp, f) \/ (f = e /\ FirstInCode(pp, r))
  BY SkipFileStep
<1>4. e \in Seen(pp) /\ r \in Seen(pp)
  BY <1>1, <1>3, TopType DEF MustSkip, Seen, IInv, TypeOK, FilesSeen
<1>5. Seen(pp') = Seen(pp)
  BY <1>3, <1>4 DEF LineRead
<1>6. /\ MainFileOnce /\ PrefixFirst /\ PrefixAllTheWay /\ OthersAreNot /\ Closed
  BY DEF PrefixInv
<1>7. AllPrefix => IsPrefixHeader(pp, e)
  BY <1>2, <1>4 DEF AllPrefix, Ordinary
<1>8. \A f : IsPrefixHeader(pp', f) <=> IsPrefixHeader(pp, f)
  BY <1>1, <1>3, <1>7, FirstInCodePrefix
<1>9. AllPrefix' <=> AllPrefix
  BY <1>5, <1>8 DEF AllPrefix, Ordinary
<1>10. IsPrefixHeader(pp, r) => IsPrefixHeader(pp, e)
  BY <1>1, <1>7, TopIsPrefix
<1> HIDE DEF r, e
<1>11. DOMAIN pp.num_includes_seen \subseteq DOMAIN pp'.num_includes_seen
  <2>1. pp'.num_includes_seen = Counted(pp, r)
    BY <1>3 DEF LineRead
  <2>2. DOMAIN Counted(pp, r) = DOMAIN pp.num_includes_seen \cup {r}
    BY CountedDomain
  <2> QED BY <2>1, <2>2
<1>15. SameFiles(include_stack, include_stack') /\ include_stack # <<>>
  BY <1>1, <1>3, ScopedFacts DEF ScopedFrames, IInv, TypeOK, Reading
<1>12. MainFileOnce' /\ OthersAreNot'
  BY <1>6, <1>8, <1>15 DEF MainFileOnce, OthersAreNot, SameFiles
<1>13. PrefixFirst' /\ PrefixAllTheWay'
  BY <1>6, <1>8, <1>9, <1>11, <1>15 DEF PrefixFirst, PrefixAllTheWay, SameFiles
<1>14. Closed'
  BY <1>3, <1>5, <1>6, <1>8, <1>10 DEF Closed, LineRead
<1> QED BY <1>12, <1>13, <1>14 DEF PrefixInv

LEMMA SamePrefix ==
  ASSUME PrefixInv, SameKnowledge(pp, pp'),
         include_stack' # <<>> => include_stack # <<>>,
         \A i \in DOMAIN include_stack' :
            /\ i \in DOMAIN include_stack
            /\ include_stack'[i].file = include_stack[i].file
            /\ include_stack'[i].live => include_stack[i].live
  PROVE  PrefixInv'
<1>1. /\ Seen(pp') = Seen(pp)
      /\ \A f : IsPrefixHeader(pp', f) <=> IsPrefixHeader(pp, f)
      /\ \A f : Direct(pp', f) = Direct(pp, f)
      /\ pp'.num_includes_seen = pp.num_includes_seen
  BY DEF SameKnowledge, SameInfos
<1>2. AllPrefix' <=> AllPrefix
  BY <1>1 DEF AllPrefix, Ordinary
<1>3. MainFileOnce' /\ OthersAreNot'
  BY <1>1 DEF MainFileOnce, OthersAreNot, PrefixInv
<1>4. PrefixFirst' /\ PrefixAllTheWay'
  BY <1>1, <1>2 DEF PrefixFirst, PrefixAllTheWay, PrefixInv
<1>5. Closed'
  BY <1>1 DEF Closed, PrefixInv
<1> QED BY <1>3, <1>4, <1>5 DEF PrefixInv

LEMMA HandleCommentPrefix ==
  ASSUME IInv, PrefixInv, NEW c \in Comments, HandleComment(c)
  PROVE  PrefixInv'
<1>1. SameKnowledge(pp, pp')
  BY HandleCommentStep
<1>2. /\ include_stack # <<>>
      /\ DOMAIN include_stack' = DOMAIN include_stack
      /\ \A i \in DOMAIN include_stack :
            /\ include_stack'[i].file = include_stack[i].file
            /\ include_stack'[i].live = include_stack[i].live
  BY CommentFrames DEF IInv, TypeOK
<1> QED BY <1>1, <1>2, SamePrefix

LEMMA ExitFilePrefix == ASSUME IInv, PrefixInv, ExitFile PROVE PrefixInv'
<1>1. SameKnowledge(pp, pp')
  BY ExitFileStep
<1>2. /\ DOMAIN include_stack = 1..Len(include_stack)
      /\ Len(include_stack) \in Nat /\ Len(include_stack) > 1
      /\ DOMAIN include_stack' = 1 .. Len(include_stack) - 1
      /\ \A i \in DOMAIN include_stack' :
               /\ include_stack'[i].file = include_stack[i].file
               /\ include_stack'[i].live = include_stack[i].live
  BY ExitFrames DEF IInv, TypeOK
<1>3. include_stack # <<>> /\ DOMAIN include_stack' \subseteq DOMAIN include_stack
  BY <1>2
<1> QED BY <1>1, <1>2, <1>3, SamePrefix

LEMMA EndMainPrefix == ASSUME IInv, PrefixInv, EndMain PROVE PrefixInv'
<1>1. SameKnowledge(pp, pp') /\ include_stack' = <<>>
  BY EndMainStep DEF EndMain
<1>2. DOMAIN include_stack' = {}
  BY <1>1
<1> QED BY <1>1, <1>2, SamePrefix

LEMMA UnchangedPrefix ==
  ASSUME PrefixInv, UNCHANGED <<include_stack, pp>> PROVE PrefixInv'
BY DEF PrefixInv, MainFileOnce, PrefixFirst, PrefixAllTheWay, OthersAreNot, Closed,
       AllPrefix

LEMMA NextPreservesPrefix ==
  ASSUME IncludesGuarded, MainNotIncluded, IInv, PrefixInv, [Next]_vars
  PROVE  PrefixInv'
<1>1. CASE EnterMain
  BY <1>1, EnterMainPrefix
<1>2. ASSUME NEW line \in Lines, EnterFile(line) PROVE PrefixInv'
  BY <1>2, EnterFilePrefix
<1>3. ASSUME NEW line \in Lines, SkipFile(line) PROVE PrefixInv'
  BY <1>3, SkipFilePrefix
<1>4. ASSUME NEW c \in Comments, HandleComment(c) PROVE PrefixInv'
  BY <1>4, HandleCommentPrefix
<1>5. ASSUME NEW u \in MacroUses, UseMacro(u) PROVE PrefixInv'
  BY <1>5, UseMacroStep, SamePrefix DEF UseMacro
<1>6. CASE ExitFile
  BY <1>6, ExitFilePrefix
<1>7. CASE EndMain
  BY <1>7, EndMainPrefix
<1>8. CASE FinalizeAddedIncludes
  BY <1>8, UnchangedPrefix DEF FinalizeAddedIncludes, pp_vars
<1>9. CASE PopulateMaps
  BY <1>9, PopulateStep, SamePrefix DEF PopulateMaps
<1>10. CASE UNCHANGED vars
  BY <1>10, UnchangedPrefix DEF vars, pp_vars
<1> QED BY <1>1, <1>2, <1>3, <1>4, <1>5, <1>6, <1>7, <1>8, <1>9, <1>10 DEF Next

LEMMA InitPrefix == Init => PrefixInv
<1> SUFFICES ASSUME Init PROVE PrefixInv
  OBVIOUS
<1>1. include_stack = <<>> /\ pp.main_file = SpecialFilename
  BY DEF Init, EmptyInfo
<1>2. Seen(pp) = {}
  BY <1>1, InitIInv DEF IInv, MainFileFirst, IsSpecialFilename
<1>3. \A f : ~IsPrefixHeader(pp, f)
  BY <1>2 DEF IsPrefixHeader
<1> QED BY <1>1, <1>3 DEF PrefixInv, MainFileOnce, PrefixFirst, PrefixAllTheWay,
                          OthersAreNot, Closed

(* FileChanged_EnterFile: what a prefix header includes is a prefix header *)
(* too, when every file that is included is guarded and the main file is   *)
(* included by none.  Both are needed: a header that is read again after   *)
(* the prefix headers may include others that are none.                    *)
THEOREM PrefixHeadersClosedAlways ==
  ASSUME IncludesGuarded, MainNotIncluded PROVE Spec => []PrefixHeadersClosed
<1> DEFINE Inv == IInv /\ PrefixInv
<1>1. Init => Inv
  BY InitIInv, InitPrefix
<1>2. Inv /\ [Next]_vars => Inv'
  BY NextPreservesIInv, NextPreservesPrefix
<1>3. Inv => PrefixHeadersClosed
  <2> SUFFICES ASSUME IInv, PrefixInv, NEW f \in DOMAIN pp.iwyu_file_info_map,
                      Info(f).is_prefix_header, NEW i \in Info(f).direct_includes
               PROVE  Info(i).is_prefix_header
    BY DEF PrefixHeadersClosed
  <2>1. f \in Seen(pp) /\ IsPrefixHeader(pp, f) /\ i \in Direct(pp, f)
    BY DEF Seen, IsPrefixHeader, Direct, Info
  <2>2. i \in Seen(pp) /\ IsPrefixHeader(pp, i)
    BY <2>1 DEF IInv, FilesSeen, PrefixInv, Closed
  <2> QED BY <2>2 DEF IsPrefixHeader, Info
<1> QED BY <1>1, <1>2, <1>3, PTL DEF Spec

-----------------------------------------------------------------------------
(* The global include picker is the IncludePicker whose calls are those of  *)
(* the preprocessing: what is proved of it holds here.                      *)

Told == [includer : Paths, includee : Paths, as_written : Keys, export : {TRUE}]
PrivateTold == [path : Paths, suggested : Keys]

PickerProofs == INSTANCE IncludePickerProofs WITH
  CHeaders <- {}, IncludeMappings <- {}, SymbolMappings <- {},
  DirectIncludes <- Told, PrivateIncludes <- PrivateTold, PrivatePaths <- {},
  Friends <- {}, MaxCalls <- MaxLines

(* The names of the instances mean the same. *)
LEMMA SameNames ==
  \A path : /\ PickerProofs!ConvertToQuotedInclude(path, <<>>)
                 = ConvertToQuotedInclude(path, <<>>)
            /\ Picker!ConvertToQuotedInclude(path, <<>>)
                 = ConvertToQuotedInclude(path, <<>>)
            /\ PickerProofs!NameOf(path) = ConvertToQuotedInclude(path, <<>>)
<1> TAKE path
<1>1. PickerProofs!ConvertToQuotedInclude(path, <<>>) = ConvertToQuotedInclude(path, <<>>)
BY DEF PickerProofs!ConvertToQuotedInclude, ConvertToQuotedInclude,
   PickerProofs!IsInside, IsInside, PickerProofs!StripPathPrefix, StripPathPrefix,
   PickerProofs!IsStrictPrefix, IsStrictPrefix, PickerProofs!IsPrefix, IsPrefix,
   PickerProofs!Quoted, Quoted, PickerProofs!Angled, Angled,
   PickerProofs!IsSpecialFilename, IsSpecialFilename, PickerProofs!SpecialFilename,
   SpecialFilename
<1>2. Picker!ConvertToQuotedInclude(path, <<>>) = ConvertToQuotedInclude(path, <<>>)
BY DEF Picker!ConvertToQuotedInclude, ConvertToQuotedInclude, Picker!IsInside,
   IsInside, Picker!StripPathPrefix, StripPathPrefix, Picker!IsStrictPrefix,
   IsStrictPrefix, Picker!IsPrefix, IsPrefix, Picker!Quoted, Quoted, Picker!Angled,
   Angled, Picker!IsSpecialFilename, IsSpecialFilename, Picker!SpecialFilename,
   SpecialFilename
<1> QED BY <1>1, <1>2 DEF PickerProofs!NameOf

LEMMA SamePatterns ==
  /\ \A key : PickerProofs!IsPattern(key) <=> Picker!IsPattern(key)
  /\ \A key, pattern : PickerProofs!RegexMatch(key, pattern) <=> Picker!RegexMatch(key, pattern)
  /\ \A key, pattern, target :
        PickerProofs!RegexReplace(key, pattern, target) = Picker!RegexReplace(key, pattern, target)
  /\ \A key : PickerProofs!IsAsmHeader(key) <=> Picker!IsAsmHeader(key)
  /\ \A key : PickerProofs!AsmName(key) = Picker!AsmName(key)
<1>1. \A key : PickerProofs!IsPattern(key) <=> Picker!IsPattern(key)
 BY DEF PickerProofs!IsPattern, Picker!IsPattern, PickerProofs!PatternForms,
    Picker!PatternForms
<1>2. \A key, pattern : PickerProofs!RegexMatch(key, pattern) <=> Picker!RegexMatch(key, pattern)
 BY DEF PickerProofs!RegexMatch, Picker!RegexMatch, PickerProofs!PatternForms,
    Picker!PatternForms, PickerProofs!IsPrefix, Picker!IsPrefix
<1>3. \A key, pattern, target :
        PickerProofs!RegexReplace(key, pattern, target) = Picker!RegexReplace(key, pattern, target)
 BY DEF PickerProofs!RegexReplace, Picker!RegexReplace, PickerProofs!BackReference,
    Picker!BackReference, PickerProofs!StripPathPrefix, Picker!StripPathPrefix,
    PickerProofs!Last, Picker!Last, PickerProofs!Front, Picker!Front
<1>4. \A key : PickerProofs!IsAsmHeader(key) <=> Picker!IsAsmHeader(key)
BY DEF PickerProofs!IsAsmHeader, Picker!IsAsmHeader
<1>5. \A key : PickerProofs!AsmName(key) = Picker!AsmName(key)
BY DEF PickerProofs!AsmName, Picker!AsmName, PickerProofs!Angled, Picker!Angled
<1> QED BY <1>1, <1>2, <1>3, <1>4, <1>5

(* What IncludePickerProofs assumes of the calls that the picker may get.  *)
LEMMA CallsHaveKeys ==
  /\ \A f \in {} : PickerProofs!IsPattern(f.pattern)
  /\ PickerProofs!IsFiniteSet(Keys)
  /\ InternalMappings \in Seq(PickerProofs!Range(InternalMappings))
  /\ \A m \in PickerProofs!Range(InternalMappings) \cup {} :
        m.from \in Keys /\ m.to \in Keys
  /\ \A m \in {} : m.to \in Keys
  /\ \A i \in PrivateTold : PickerProofs!NameOf(i.path) \in Keys /\ i.suggested \in Keys
  /\ \A i \in Told :
        /\ PickerProofs!NameOf(i.includer) \in Keys /\ PickerProofs!NameOf(i.includee) \in Keys
        /\ i.export => i.as_written \in Keys
        /\ PickerProofs!IsAsmHeader(PickerProofs!NameOf(i.includee))
             => PickerProofs!AsmName(PickerProofs!NameOf(i.includee)) \in Keys
        /\ \A pattern \in {k \in Keys : PickerProofs!IsPattern(k)}, target \in Keys :
              PickerProofs!RegexMatch(PickerProofs!NameOf(i.includee), pattern) =>
                 PickerProofs!RegexReplace(PickerProofs!NameOf(i.includee), pattern, target)
                   \in Keys
<1>1. PickerProofs!IsFiniteSet(Keys)
  BY KeysAssumption DEF PickerProofs!IsFiniteSet, IsFiniteSet
<1>2. PickerProofs!Range(InternalMappings) = Range(InternalMappings)
  BY DEF PickerProofs!Range, Range
<1>3. \A f \in Paths :
        LET name == ConvertToQuotedInclude(f, <<>>)
        IN  /\ name \in Keys
            /\ PickerProofs!IsAsmHeader(name) => PickerProofs!AsmName(name) \in Keys
            /\ \A pattern \in {k \in Keys : PickerProofs!IsPattern(k)}, target \in Keys :
                  PickerProofs!RegexMatch(name, pattern) =>
                     PickerProofs!RegexReplace(name, pattern, target) \in Keys
  BY KeysAssumption, SamePatterns DEF Paths
<1>4. \A i \in PrivateTold : PickerProofs!NameOf(i.path) \in Keys /\ i.suggested \in Keys
  BY <1>3, SameNames DEF PrivateTold
<1>5. \A i \in Told :
        /\ PickerProofs!NameOf(i.includer) \in Keys /\ PickerProofs!NameOf(i.includee) \in Keys
        /\ i.as_written \in Keys
        /\ PickerProofs!IsAsmHeader(PickerProofs!NameOf(i.includee))
             => PickerProofs!AsmName(PickerProofs!NameOf(i.includee)) \in Keys
        /\ \A pattern \in {k \in Keys : PickerProofs!IsPattern(k)}, target \in Keys :
              PickerProofs!RegexMatch(PickerProofs!NameOf(i.includee), pattern) =>
                 PickerProofs!RegexReplace(PickerProofs!NameOf(i.includee), pattern, target)
                   \in Keys
  <2> TAKE i \in Told
  <2>1. i.includer \in Paths /\ i.includee \in Paths /\ i.as_written \in Keys
    BY DEF Told
  <2> QED BY <1>3, <2>1, SameNames
<1> QED BY <1>1, <1>2, <1>4, <1>5, KeysAssumption

-----------------------------------------------------------------------------
(* Both instances of the picker take the same steps.                        *)

LEMMA SameExpanding ==
  /\ \A hdr, pattern : PickerProofs!ExpandIncludeRegex(picker, hdr, pattern)
        = GlobalIncludePicker!ExpandIncludeRegex(picker, hdr, pattern)
  /\ \A hdr, pattern : PickerProofs!ExpandFriendRegex(picker, hdr, pattern)
        = GlobalIncludePicker!ExpandFriendRegex(picker, hdr, pattern)
<1>1. \A hdr, pattern : PickerProofs!RegexMatch(hdr, pattern)
         <=> GlobalIncludePicker!RegexMatch(hdr, pattern)
  BY DEF PickerProofs!RegexMatch, GlobalIncludePicker!RegexMatch,
         PickerProofs!PatternForms, GlobalIncludePicker!PatternForms,
         PickerProofs!IsPrefix, GlobalIncludePicker!IsPrefix
<1>2. \A hdr, pattern, target :
        PickerProofs!RegexReplace(hdr, pattern, target)
          = GlobalIncludePicker!RegexReplace(hdr, pattern, target)
  BY DEF PickerProofs!RegexReplace, GlobalIncludePicker!RegexReplace,
         PickerProofs!BackReference, GlobalIncludePicker!BackReference,
         PickerProofs!StripPathPrefix, GlobalIncludePicker!StripPathPrefix,
         PickerProofs!Last, GlobalIncludePicker!Last,
         PickerProofs!Front, GlobalIncludePicker!Front
<1>3. \A m, key, values :
        PickerProofs!WithValues(m, key, values) = GlobalIncludePicker!WithValues(m, key, values)
  BY DEF PickerProofs!WithValues, GlobalIncludePicker!WithValues,
         PickerProofs!ValuesOf, GlobalIncludePicker!ValuesOf,
         PickerProofs!FindInMap, GlobalIncludePicker!FindInMap,
         PickerProofs!Assign, GlobalIncludePicker!Assign
<1>4. \A p, key, visibility :
        PickerProofs!MarkVisibility(p, key, visibility)
          = GlobalIncludePicker!MarkVisibility(p, key, visibility)
  BY DEF PickerProofs!MarkVisibility, GlobalIncludePicker!MarkVisibility,
         PickerProofs!FindInMap, GlobalIncludePicker!FindInMap,
         PickerProofs!Assign, GlobalIncludePicker!Assign
<1>5. ASSUME NEW hdr, NEW pattern
      PROVE  PickerProofs!ExpandIncludeRegex(picker, hdr, pattern)
               = GlobalIncludePicker!ExpandIncludeRegex(picker, hdr, pattern)
  <2> DEFINE map_to == picker.filepath_include_map[pattern]
             there == [i \in DOMAIN map_to |->
               PickerProofs!MappedInclude(
                 PickerProofs!RegexReplace(hdr, pattern, map_to[i].quoted_include),
                 PickerProofs!NoPath)]
             here == [i \in DOMAIN map_to |->
               GlobalIncludePicker!MappedInclude(
                 GlobalIncludePicker!RegexReplace(hdr, pattern, map_to[i].quoted_include),
                 GlobalIncludePicker!NoPath)]
  <2>1. there = here
    <3>1. \A i : PickerProofs!MappedInclude(
                 PickerProofs!RegexReplace(hdr, pattern, map_to[i].quoted_include),
                 PickerProofs!NoPath) =
               GlobalIncludePicker!MappedInclude(
                 GlobalIncludePicker!RegexReplace(hdr, pattern, map_to[i].quoted_include),
                 GlobalIncludePicker!NoPath)
      BY <1>2 DEF PickerProofs!MappedInclude, GlobalIncludePicker!MappedInclude,
                  PickerProofs!NoPath, GlobalIncludePicker!NoPath
    <3> QED BY <3>1
  <2>2. PickerProofs!ContainsQuotedInclude(map_to, hdr)
          <=> GlobalIncludePicker!ContainsQuotedInclude(map_to, hdr)
    BY DEF PickerProofs!ContainsQuotedInclude, GlobalIncludePicker!ContainsQuotedInclude
  <2>3. PickerProofs!ExpandIncludeRegex(picker, hdr, pattern) =
          IF PickerProofs!RegexMatch(hdr, pattern)
             /\ ~PickerProofs!ContainsQuotedInclude(map_to, hdr)
          THEN PickerProofs!MarkVisibility(
                 [picker EXCEPT !.filepath_include_map =
                    PickerProofs!WithValues(@, hdr, there)],
                 hdr, picker.include_visibility_map[pattern])
          ELSE picker
    BY DEF PickerProofs!ExpandIncludeRegex
  <2>4. GlobalIncludePicker!ExpandIncludeRegex(picker, hdr, pattern) =
          IF GlobalIncludePicker!RegexMatch(hdr, pattern)
             /\ ~GlobalIncludePicker!ContainsQuotedInclude(map_to, hdr)
          THEN GlobalIncludePicker!MarkVisibility(
                 [picker EXCEPT !.filepath_include_map =
                    GlobalIncludePicker!WithValues(@, hdr, here)],
                 hdr, picker.include_visibility_map[pattern])
          ELSE picker
    BY DEF GlobalIncludePicker!ExpandIncludeRegex
  <2> HIDE DEF here, there, map_to
  <2> QED BY <1>1, <1>3, <1>4, <2>1, <2>2, <2>3, <2>4
<1>6. ASSUME NEW hdr, NEW pattern
      PROVE  PickerProofs!ExpandFriendRegex(picker, hdr, pattern)
               = GlobalIncludePicker!ExpandFriendRegex(picker, hdr, pattern)
  BY <1>1 DEF PickerProofs!ExpandFriendRegex, GlobalIncludePicker!ExpandFriendRegex,
      PickerProofs!FindInMap, GlobalIncludePicker!FindInMap,
      PickerProofs!Assign, GlobalIncludePicker!Assign
<1> QED BY <1>5, <1>6

LEMMA SameExpandOnce ==
  \A m, nodes : PickerProofs!ExpandOnce(m, nodes) = GlobalIncludePicker!ExpandOnce(m, nodes)
BY DEF PickerProofs!ExpandOnce, GlobalIncludePicker!ExpandOnce,
      PickerProofs!FirstOfEach, GlobalIncludePicker!FirstOfEach,
      PickerProofs!FlattenSeq, GlobalIncludePicker!FlattenSeq,
      PickerProofs!ValuesOf, GlobalIncludePicker!ValuesOf,
      PickerProofs!FindInMap, GlobalIncludePicker!FindInMap

LEMMA SameFinalization ==
  GlobalIncludePicker!FinalizeAddedIncludes => PickerProofs!FinalizeAddedIncludes
<1>1. PickerProofs!include_map = GlobalIncludePicker!include_map
  BY DEF PickerProofs!include_map, GlobalIncludePicker!include_map
<1>2. GlobalIncludePicker!StartExpanding => PickerProofs!StartExpanding
  BY <1>1 DEF PickerProofs!StartExpanding, GlobalIncludePicker!StartExpanding,
      PickerProofs!IsPattern, GlobalIncludePicker!IsPattern,
      PickerProofs!PatternForms, GlobalIncludePicker!PatternForms,
      PickerProofs!closing_vars, GlobalIncludePicker!closing_vars
<1>3. ASSUME NEW e \in to_expand, GlobalIncludePicker!ExpandRegex(e[1], e[2][1], e[2][2])
      PROVE  PickerProofs!ExpandRegex(e[1], e[2][1], e[2][2])
  BY <1>3, SameExpanding DEF PickerProofs!ExpandRegex, GlobalIncludePicker!ExpandRegex,
      PickerProofs!closing_vars, GlobalIncludePicker!closing_vars
<1>4. GlobalIncludePicker!StartClosing => PickerProofs!StartClosing
  BY DEF PickerProofs!StartClosing, GlobalIncludePicker!StartClosing,
      PickerProofs!closing_vars, GlobalIncludePicker!closing_vars
<1>5. \A key : PickerProofs!StatusOf(key) = GlobalIncludePicker!StatusOf(key)
  BY DEF PickerProofs!StatusOf, GlobalIncludePicker!StatusOf,
      PickerProofs!FindInMap, GlobalIncludePicker!FindInMap
<1>6. \A key : GlobalIncludePicker!Enter(key) => PickerProofs!Enter(key)
  BY <1>1, <1>5 DEF PickerProofs!Enter, GlobalIncludePicker!Enter,
      PickerProofs!Assign, GlobalIncludePicker!Assign
<1>7. GlobalIncludePicker!EnterRoot => PickerProofs!EnterRoot
  BY <1>1, <1>6 DEF PickerProofs!EnterRoot, GlobalIncludePicker!EnterRoot
<1>8. PickerProofs!Active = GlobalIncludePicker!Active
  BY DEF PickerProofs!Active, GlobalIncludePicker!Active,
      PickerProofs!Last, GlobalIncludePicker!Last
<1>9. /\ PickerProofs!Looping <=> GlobalIncludePicker!Looping
      /\ PickerProofs!ActiveValues = GlobalIncludePicker!ActiveValues
      /\ PickerProofs!NextChild = GlobalIncludePicker!NextChild
  BY <1>1, <1>8 DEF PickerProofs!Looping, GlobalIncludePicker!Looping,
      PickerProofs!ActiveValues, GlobalIncludePicker!ActiveValues,
      PickerProofs!NextChild, GlobalIncludePicker!NextChild
<1>10. GlobalIncludePicker!EnterChild => PickerProofs!EnterChild
  BY <1>6, <1>8, <1>9 DEF PickerProofs!EnterChild, GlobalIncludePicker!EnterChild
<1>11. GlobalIncludePicker!PassChild => PickerProofs!PassChild
  BY <1>5, <1>8, <1>9 DEF PickerProofs!PassChild, GlobalIncludePicker!PassChild
<1>12. GlobalIncludePicker!Leave => PickerProofs!Leave
  BY <1>1, <1>8, <1>9, SameExpandOnce DEF PickerProofs!Leave, GlobalIncludePicker!Leave,
      PickerProofs!Front, GlobalIncludePicker!Front
<1>13. GlobalIncludePicker!Finish => PickerProofs!Finish
  BY <1>1, <1>5, SameExpandOnce DEF PickerProofs!Finish, GlobalIncludePicker!Finish,
      PickerProofs!closing_vars, GlobalIncludePicker!closing_vars
<1> QED BY <1>2, <1>3, <1>4, <1>7, <1>10, <1>11, <1>12, <1>13
  DEF PickerProofs!FinalizeAddedIncludes, GlobalIncludePicker!FinalizeAddedIncludes

LEMMA SameTargets ==
  \A m, key : PickerProofs!Targets(m, key) = GlobalIncludePicker!Targets(m, key)
BY DEF PickerProofs!Targets, GlobalIncludePicker!Targets, PickerProofs!Range,
   GlobalIncludePicker!Range,
      PickerProofs!ValuesOf, GlobalIncludePicker!ValuesOf,
      PickerProofs!FindInMap, GlobalIncludePicker!FindInMap
LEMMA SameLeadsTo ==
  /\ \A key : PickerProofs!LeadsTo(key) = GlobalIncludePicker!LeadsTo(key)
  /\ \A key : PickerProofs!AwayFromCycles(key) <=> GlobalIncludePicker!AwayFromCycles(key)
<1>1. \A key : PickerProofs!LeadsTo(key) = GlobalIncludePicker!LeadsTo(key)
BY DEF PickerProofs!LeadsTo, GlobalIncludePicker!LeadsTo, PickerProofs!Cardinality,
   GlobalIncludePicker!Cardinality, PickerProofs!IsFiniteSet,
   GlobalIncludePicker!IsFiniteSet, PickerProofs!Targets,
   GlobalIncludePicker!Targets, PickerProofs!Range, GlobalIncludePicker!Range,
      PickerProofs!ValuesOf, GlobalIncludePicker!ValuesOf,
      PickerProofs!FindInMap, GlobalIncludePicker!FindInMap
<1> QED BY <1>1 DEF PickerProofs!AwayFromCycles, GlobalIncludePicker!AwayFromCycles

-----------------------------------------------------------------------------
(* The picker's methods under both names.                                   *)

LEMMA SameMarks ==
  /\ \A p, key, visibility :
        PickerProofs!MarkVisibility(p, key, visibility)
          = Picker!MarkVisibility(p, key, visibility)
  /\ \A p, key : PickerProofs!MarkIncludeAsPrivate(p, key)
                   = Picker!MarkIncludeAsPrivate(p, key)
  /\ \A p, path : PickerProofs!MarkPathAsPrivate(p, path)
                    = Picker!MarkPathAsPrivate(p, path)
<1>1. \A p, key, visibility :
        PickerProofs!MarkVisibility(p, key, visibility)
          = Picker!MarkVisibility(p, key, visibility)
  BY DEF PickerProofs!MarkVisibility, Picker!MarkVisibility,
         PickerProofs!FindInMap, Picker!FindInMap,
         PickerProofs!Assign, Picker!Assign
<1>2. \A p, key : PickerProofs!MarkIncludeAsPrivate(p, key)
                   = Picker!MarkIncludeAsPrivate(p, key)
  BY <1>1 DEF PickerProofs!MarkIncludeAsPrivate, Picker!MarkIncludeAsPrivate
<1>3. \A p, path : PickerProofs!MarkPathAsPrivate(p, path)
                    = Picker!MarkPathAsPrivate(p, path)
  BY DEF PickerProofs!MarkPathAsPrivate, Picker!MarkPathAsPrivate
<1> QED BY <1>1, <1>2, <1>3

LEMMA SameAdding ==
  /\ \A name, path : PickerProofs!MappedInclude(name, path)
                       = Picker!MappedInclude(name, path)
  /\ \A p, map_from, map_to : PickerProofs!AddMapping(p, map_from, map_to)
                                = Picker!AddMapping(p, map_from, map_to)
  /\ \A p, includee, pattern : PickerProofs!AddFriendRegex(p, includee, pattern)
                                 = Picker!AddFriendRegex(p, includee, pattern)
  /\ PickerProofs!NoPath = Picker!NoPath
  /\ PickerProofs!EmptyPicker = Picker!EmptyPicker
<1>1. \A name, path : PickerProofs!MappedInclude(name, path)
                       = Picker!MappedInclude(name, path)
  BY DEF PickerProofs!MappedInclude, Picker!MappedInclude
<1>2. \A p, map_from, map_to : PickerProofs!AddMapping(p, map_from, map_to)
                                = Picker!AddMapping(p, map_from, map_to)
  BY DEF PickerProofs!AddMapping, Picker!AddMapping,
         PickerProofs!WithValues, Picker!WithValues,
         PickerProofs!ValuesOf, Picker!ValuesOf,
         PickerProofs!FindInMap, Picker!FindInMap,
         PickerProofs!Assign, Picker!Assign
<1>3. \A p, includee, pattern : PickerProofs!AddFriendRegex(p, includee, pattern)
                                 = Picker!AddFriendRegex(p, includee, pattern)
  BY DEF PickerProofs!AddFriendRegex, Picker!AddFriendRegex,
         PickerProofs!FindInMap, Picker!FindInMap,
         PickerProofs!Assign, Picker!Assign
<1>4. PickerProofs!NoPath = Picker!NoPath
  BY DEF PickerProofs!NoPath, Picker!NoPath
<1>5. PickerProofs!EmptyPicker = Picker!EmptyPicker
  BY DEF PickerProofs!EmptyPicker, Picker!EmptyPicker
<1> QED BY <1>1, <1>2, <1>3, <1>4, <1>5

LEMMA SameMapping ==
  \A p, m : PickerProofs!AddIncludeMapping(p, m) = Picker!AddIncludeMapping(p, m)
BY SameMarks, SameAdding DEF PickerProofs!AddIncludeMapping, Picker!AddIncludeMapping

LEMMA SamePragmas ==
  /\ \A p, includer, includee, as_written :
        PickerProofs!ExportInclude(p, includer, includee, as_written)
          = Picker!ExportInclude(p, includer, includee, as_written)
  /\ \A p, path, suggested : PickerProofs!PrivateInclude(p, path, suggested)
                               = Picker!PrivateInclude(p, path, suggested)
<1>1. \A p, includer, includee, as_written :
        PickerProofs!ExportInclude(p, includer, includee, as_written)
          = Picker!ExportInclude(p, includer, includee, as_written)
  BY SameNames, SameAdding DEF PickerProofs!ExportInclude, Picker!ExportInclude
<1>2. \A p, path, suggested : PickerProofs!PrivateInclude(p, path, suggested)
                               = Picker!PrivateInclude(p, path, suggested)
  BY SameNames, SameAdding, SameMarks DEF PickerProofs!PrivateInclude, Picker!PrivateInclude
<1> QED BY <1>1, <1>2

LEMMA SameInternal ==
  \A p, includee, quoted_includee, mapped :
     PickerProofs!AddInternalHeader(p, includee, quoted_includee, mapped)
       = Picker!AddInternalHeader(p, includee, quoted_includee, mapped)
<1>1. \A name : PickerProofs!InternalAt(name) = Picker!InternalAt(name)
  BY DEF PickerProofs!InternalAt, Picker!InternalAt,
         PickerProofs!EndingInInternal, Picker!EndingInInternal
<1>2. \A form, prefix : PickerProofs!Below(form, prefix) = Picker!Below(form, prefix)
  BY DEF PickerProofs!Below, Picker!Below
<1> TAKE p, includee, quoted_includee, mapped
<1> DEFINE pos == CHOOSE i \in Picker!InternalAt(quoted_includee) : TRUE
           project == Picker!Below(quoted_includee.form,
                                   SubSeq(quoted_includee.parts, 1, pos - 1))
           private == Picker!MarkIncludeAsPrivate(p, quoted_includee)
           befriended == Picker!AddFriendRegex(private, includee, project)
           added == Picker!AddMapping(befriended, quoted_includee, mapped)
<1>3. Picker!AddInternalHeader(p, includee, quoted_includee, mapped)
        = IF Picker!InternalAt(quoted_includee) = {} THEN p ELSE added
  BY DEF Picker!AddInternalHeader
<1>4. PickerProofs!AddInternalHeader(p, includee, quoted_includee, mapped)
        = IF Picker!InternalAt(quoted_includee) = {} THEN p ELSE added
  <2> DEFINE pos2 == CHOOSE i \in PickerProofs!InternalAt(quoted_includee) : TRUE
             project2 == PickerProofs!Below(quoted_includee.form,
                                   SubSeq(quoted_includee.parts, 1, pos2 - 1))
             private2 == PickerProofs!MarkIncludeAsPrivate(p, quoted_includee)
             befriended2 == PickerProofs!AddFriendRegex(private2, includee, project2)
             added2 == PickerProofs!AddMapping(befriended2, quoted_includee, mapped)
  <2>1. PickerProofs!AddInternalHeader(p, includee, quoted_includee, mapped)
        = IF PickerProofs!InternalAt(quoted_includee) = {} THEN p ELSE added2
    BY DEF PickerProofs!AddInternalHeader
  <2>2. PickerProofs!InternalAt(quoted_includee) = Picker!InternalAt(quoted_includee)
    BY <1>1
  <2>3. pos2 = pos
    BY <2>2
  <2>4. private2 = private
    BY SameMarks
  <2> HIDE DEF pos, pos2, private, private2
  <2>5. project2 = project
    BY <1>2, <2>3
  <2> HIDE DEF project, project2
  <2>6. befriended2 = befriended
    BY <2>4, <2>5, SameAdding
  <2> HIDE DEF befriended, befriended2
  <2>7. added2 = added
    BY <2>6, SameAdding
  <2> HIDE DEF added, added2
  <2> QED BY <2>1, <2>2, <2>7
<1> HIDE DEF added
<1> QED BY <1>3, <1>4

LEMMA SameAsm ==
  \A p, quoted_includee :
     PickerProofs!AddAsmHeader(p, quoted_includee) = Picker!AddAsmHeader(p, quoted_includee)
BY SamePatterns, SameMarks, SameAdding DEF PickerProofs!AddAsmHeader, Picker!AddAsmHeader

LEMMA SameDirect ==
  \A p, includer, includee, as_written :
     PickerProofs!AddDirectInclude(p, includer, includee, as_written)
       = Picker!AddDirectInclude(p, includer, includee, as_written)
<1>1. \A m, key, value : PickerProofs!Assign(m, key, value) = Picker!Assign(m, key, value)
  BY DEF PickerProofs!Assign, Picker!Assign
<1>2. PickerProofs!QuotedBuiltIn = Picker!QuotedBuiltIn
  BY DEF PickerProofs!QuotedBuiltIn, Picker!QuotedBuiltIn, PickerProofs!Quoted,
     Picker!Quoted,
         PickerProofs!SpecialFilename, Picker!SpecialFilename
<1>3. \A path : PickerProofs!IsSpecialFilename(path) <=> Picker!IsSpecialFilename(path)
  BY DEF PickerProofs!IsSpecialFilename, Picker!IsSpecialFilename,
         PickerProofs!SpecialFilename, Picker!SpecialFilename
<1> TAKE p, includer, includee, as_written
<1> DEFINE from == ConvertToQuotedInclude(includer, <<>>)
           to == ConvertToQuotedInclude(includee, <<>>)
           seen == [p EXCEPT
                      !.quoted_includes = @ \cup {to},
                      !.include_as_written =
                         Picker!Assign(@, <<includer, includee>>, as_written)]
           marked == IF Picker!IsSpecialFilename(includer)
                     THEN Picker!MarkIncludeAsPrivate(seen, Picker!QuotedBuiltIn)
                     ELSE seen
           internal == Picker!AddInternalHeader(marked, includee, to,
                                                Picker!MappedInclude(from, includer))
           added == Picker!AddAsmHeader(internal, to)
<1>4. Picker!AddDirectInclude(p, includer, includee, as_written)
        = IF p.aborted THEN p ELSE added
  BY SameNames DEF Picker!AddDirectInclude
<1> DEFINE seen2 == [p EXCEPT
                       !.quoted_includes = @ \cup {to},
                       !.include_as_written =
                          PickerProofs!Assign(@, <<includer, includee>>, as_written)]
           marked2 == IF PickerProofs!IsSpecialFilename(includer)
                     THEN PickerProofs!MarkIncludeAsPrivate(seen2, PickerProofs!QuotedBuiltIn)
                     ELSE seen2
           internal2 == PickerProofs!AddInternalHeader(marked2, includee, to,
                                                PickerProofs!MappedInclude(from, includer))
           added2 == PickerProofs!AddAsmHeader(internal2, to)
<1>5. PickerProofs!AddDirectInclude(p, includer, includee, as_written)
        = IF p.aborted THEN p ELSE added2
  BY SameNames DEF PickerProofs!AddDirectInclude
<1>6. seen2 = seen
  BY <1>1
<1> HIDE DEF seen, seen2
<1>7. marked2 = marked
  BY <1>2, <1>3, <1>6, SameMarks
<1> HIDE DEF marked, marked2
<1>8. internal2 = internal
  BY <1>7, SameAdding, SameInternal
<1> HIDE DEF internal, internal2
<1>9. added2 = added
  BY <1>8, SameAsm
<1> HIDE DEF added, added2
<1> QED BY <1>4, <1>5, <1>9

-----------------------------------------------------------------------------
(* Whatever the picker is told, its mappings grow.                          *)

OK(p) == PickerProofs!PickerOK(p)

Gives(p, key) == PickerProofs!Targets(p.filepath_include_map, key)

(* More mappings, and a program that has ended stays so.                   *)
Extends(p, q) == PickerProofs!Grows(p, q) /\ (p.aborted => q.aborted)

LEMMA ExtendsFacts ==
  ASSUME NEW p, NEW q, Extends(p, q)
  PROVE  OK(q) /\ \A k \in Keys : Gives(p, k) \subseteq Gives(q, k)
BY DEF Extends, OK, Gives, PickerProofs!Grows, PickerProofs!MapGrows

LEMMA ExtendsTwice ==
  ASSUME NEW p, NEW q, NEW r, Extends(p, q), Extends(q, r)
  PROVE  Extends(p, r)
<1>1. PickerProofs!Grows(p, r)
  BY CallsHaveKeys, PickerProofs!GrowsTwice DEF Extends
<1> QED BY <1>1 DEF Extends

LEMMA ExtendsNot == ASSUME NEW p, OK(p) PROVE Extends(p, p)
<1>1. PickerProofs!Grows(p, p)
  BY CallsHaveKeys, PickerProofs!GrowsNot DEF OK
<1> QED BY <1>1 DEF Extends

LEMMA MappedOK ==
  ASSUME NEW name \in Keys, NEW path \in Paths \cup {Picker!NoPath}
  PROVE  Picker!MappedInclude(name, path) \in PickerProofs!Mapped
<1>1. path \in PickerProofs!Paths
  <2>1. CASE path = Picker!NoPath
    BY <2>1, SameAdding DEF PickerProofs!Paths
  <2>2. CASE path \in Paths
    <3> DEFINE i == [includer |-> path, includee |-> path,
                     as_written |-> name, export |-> TRUE]
    <3>1. i \in Told /\ i.includer = path
      BY <2>2 DEF Told
    <3> HIDE DEF i
    <3> QED BY <3>1 DEF PickerProofs!Paths
  <2> QED BY <2>1, <2>2
<1>2. PickerProofs!MappedInclude(name, path) \in PickerProofs!Mapped
  BY <1>1, CallsHaveKeys, PickerProofs!MappedIncludeOK
<1> QED BY <1>2, SameAdding

LEMMA MarkIncludeExtends ==
  ASSUME NEW p, OK(p), NEW key
  PROVE  Extends(p, Picker!MarkIncludeAsPrivate(p, key))
<1>1. PickerProofs!Grows(p, PickerProofs!MarkVisibility(p, key, "private"))
  BY CallsHaveKeys, PickerProofs!MarkVisibilityGrows DEF OK
<1>2. PickerProofs!MarkVisibility(p, key, "private") = Picker!MarkIncludeAsPrivate(p, key)
  BY SameMarks DEF Picker!MarkIncludeAsPrivate
<1>3. p.aborted => Picker!MarkIncludeAsPrivate(p, key) = p
  BY DEF Picker!MarkIncludeAsPrivate, Picker!MarkVisibility
<1> QED BY <1>1, <1>2, <1>3 DEF Extends

LEMMA MarkPathExtends ==
  ASSUME NEW p, OK(p), NEW path
  PROVE  Extends(p, Picker!MarkPathAsPrivate(p, path))
<1>1. PickerProofs!Grows(p, PickerProofs!MarkPathAsPrivate(p, path))
  BY CallsHaveKeys, PickerProofs!MarkPathAsPrivateGrows DEF OK
<1>2. PickerProofs!MarkPathAsPrivate(p, path) = Picker!MarkPathAsPrivate(p, path)
  BY SameMarks
<1>3. p.aborted => Picker!MarkPathAsPrivate(p, path) = p
  BY DEF Picker!MarkPathAsPrivate
<1> QED BY <1>1, <1>2, <1>3 DEF Extends

LEMMA AddFriendExtends ==
  ASSUME NEW p, OK(p), NEW includee, NEW pattern
  PROVE  Extends(p, Picker!AddFriendRegex(p, includee, pattern))
<1>1. PickerProofs!Grows(p, PickerProofs!AddFriendRegex(p, includee, pattern))
  BY CallsHaveKeys, PickerProofs!AddFriendRegexGrows DEF OK
<1>2. PickerProofs!AddFriendRegex(p, includee, pattern) = Picker!AddFriendRegex(p, includee, pattern)
  BY SameAdding
<1>3. p.aborted => Picker!AddFriendRegex(p, includee, pattern) = p
  BY DEF Picker!AddFriendRegex
<1> QED BY <1>1, <1>2, <1>3 DEF Extends

LEMMA AddMappingExtends ==
  ASSUME NEW p, OK(p), NEW key \in Keys, NEW name \in Keys,
         NEW path \in Paths \cup {Picker!NoPath}
  PROVE  Extends(p, Picker!AddMapping(p, key, Picker!MappedInclude(name, path)))
<1> DEFINE value == Picker!MappedInclude(name, path)
<1>0. value \in PickerProofs!Mapped
  BY MappedOK
<1> HIDE DEF value
<1>1. PickerProofs!Grows(p, PickerProofs!AddMapping(p, key, value))
  BY <1>0, CallsHaveKeys, PickerProofs!AddMappingGrows DEF OK
<1>2. PickerProofs!AddMapping(p, key, value) = Picker!AddMapping(p, key, value)
  BY SameAdding
<1>3. p.aborted => Picker!AddMapping(p, key, value) = p
  BY DEF Picker!AddMapping
<1>4. Extends(p, Picker!AddMapping(p, key, value))
  BY <1>1, <1>2, <1>3 DEF Extends
<1> QED BY <1>4 DEF value

LEMMA AddIncludeMappingExtends ==
  ASSUME NEW p, OK(p), NEW m, m.from \in Keys, m.to \in Keys
  PROVE  Extends(p, Picker!AddIncludeMapping(p, m))
<1>1. PickerProofs!Grows(p, PickerProofs!AddIncludeMapping(p, m))
  BY CallsHaveKeys, PickerProofs!AddIncludeMappingGrows DEF OK
<1>2. PickerProofs!AddIncludeMapping(p, m) = Picker!AddIncludeMapping(p, m)
  BY SameMapping
<1>3. p.aborted => Picker!AddIncludeMapping(p, m) = p
  BY DEF Picker!AddIncludeMapping, Picker!AddMapping, Picker!MarkVisibility
<1> QED BY <1>1, <1>2, <1>3 DEF Extends

LEMMA AddDirectIncludeExtends ==
  ASSUME NEW p, OK(p), NEW includer \in Paths, NEW includee \in Paths, NEW as_written \in Keys
  PROVE  Extends(p, Picker!AddDirectInclude(p, includer, includee, as_written))
<1> DEFINE i == [includer |-> includer, includee |-> includee,
                 as_written |-> as_written, export |-> TRUE]
<1>1. i \in Told /\ i.includer = includer /\ i.includee = includee /\ i.as_written = as_written
  BY DEF Told
<1> HIDE DEF i
<1>2. PickerProofs!Grows(p, PickerProofs!AddDirectInclude(p, i.includer, i.includee, i.as_written))
  BY <1>1, CallsHaveKeys, PickerProofs!AddDirectIncludeGrows DEF OK
<1>3. PickerProofs!Grows(p, Picker!AddDirectInclude(p, includer, includee, as_written))
  BY <1>1, <1>2, SameDirect
<1>4. p.aborted => Picker!AddDirectInclude(p, includer, includee, as_written) = p
  BY DEF Picker!AddDirectInclude
<1> QED BY <1>3, <1>4 DEF Extends

LEMMA PrivateIncludeExtends ==
  ASSUME NEW p, OK(p), NEW path \in Paths, NEW suggested \in Keys
  PROVE  Extends(p, Picker!PrivateInclude(p, path, suggested))
<1> DEFINE i == [path |-> path, suggested |-> suggested]
<1>1. i \in PrivateTold /\ i.path = path /\ i.suggested = suggested
  BY DEF PrivateTold
<1> HIDE DEF i
<1>2. PickerProofs!Grows(p, PickerProofs!PrivateInclude(p, i.path, i.suggested))
  BY <1>1, CallsHaveKeys, PickerProofs!PrivateIncludeGrows DEF OK
<1>3. PickerProofs!Grows(p, Picker!PrivateInclude(p, path, suggested))
  BY <1>1, <1>2, SamePragmas
<1>4. p.aborted => Picker!PrivateInclude(p, path, suggested) = p
  BY DEF Picker!PrivateInclude, Picker!MarkIncludeAsPrivate, Picker!MarkVisibility,
     Picker!AddMapping
<1> QED BY <1>3, <1>4 DEF Extends

LEMMA KeysOfPaths ==
  \A f \in Paths : ConvertToQuotedInclude(f, <<>>) \in Keys
BY KeysAssumption DEF Paths

(* A mapping that is added is there.                                       *)
LEMMA AddMappingGives ==
  ASSUME NEW p, OK(p), ~p.aborted, NEW key \in Keys, NEW name \in Keys,
         NEW path \in Paths \cup {Picker!NoPath}
  PROVE  name \in Gives(Picker!AddMapping(p, key, Picker!MappedInclude(name, path)), key)
<1> DEFINE value == Picker!MappedInclude(name, path)
           m == p.filepath_include_map
           old == Picker!ValuesOf(m, key)
           more == Picker!WithValues(m, key, <<value>>)
<1>0. value \in PickerProofs!Mapped /\ value.quoted_include = name
  BY MappedOK DEF Picker!MappedInclude
<1>1. old \in Seq(PickerProofs!Mapped)
  BY DEF OK, PickerProofs!PickerOK, PickerProofs!MapOK, Picker!ValuesOf, Picker!FindInMap
<1>2. DOMAIN more = DOMAIN m \cup {key} /\ more[key] = old \o <<value>>
  BY DEF Picker!WithValues, Picker!Assign
<1>3. Picker!AddMapping(p, key, value).filepath_include_map = more
  BY DEF Picker!AddMapping, OK, PickerProofs!PickerOK, PickerProofs!PickerFields
<1> HIDE DEF value, old, more
<1>4. value \in {(old \o <<value>>)[i] : i \in DOMAIN (old \o <<value>>)}
  <2>1. (old \o <<value>>)[Len(old) + 1] = value /\ Len(old) + 1 \in DOMAIN (old \o <<value>>)
    BY <1>0, <1>1
  <2> QED BY <2>1
<1>5. PickerProofs!Targets(more, key) = {v.quoted_include : v \in {(old \o <<value>>)[i] : i \in DOMAIN (old \o <<value>>)}}
  BY <1>2 DEF PickerProofs!Targets, PickerProofs!ValuesOf, PickerProofs!FindInMap,
     PickerProofs!Range
<1>6. name \in PickerProofs!Targets(more, key)
  BY <1>0, <1>4, <1>5
<1> QED BY <1>3, <1>6 DEF Gives, value

LEMMA ExportIncludeExtends ==
  ASSUME NEW p, OK(p), NEW includer \in Paths, NEW includee \in Paths, NEW as_written \in Keys
  PROVE  /\ Extends(p, Picker!ExportInclude(p, includer, includee, as_written))
         /\ ~p.aborted => ConvertToQuotedInclude(includer, <<>>) \in
              Gives(Picker!ExportInclude(p, includer, includee, as_written),
                    ConvertToQuotedInclude(includee, <<>>))
<1> DEFINE from == ConvertToQuotedInclude(includer, <<>>)
           to == ConvertToQuotedInclude(includee, <<>>)
           value == Picker!MappedInclude(from, includer)
           written == Picker!AddMapping(p, as_written, value)
           both == Picker!AddMapping(written, to, value)
<1>1. from \in Keys /\ to \in Keys
  BY KeysOfPaths
<1>2. Picker!ExportInclude(p, includer, includee, as_written)
        = IF to = as_written THEN written ELSE both
  BY SameNames DEF Picker!ExportInclude
<1> HIDE DEF from, to
<1>3. Extends(p, written)
  BY <1>1, AddMappingExtends
<1>4. Extends(written, both)
  BY <1>1, <1>3, AddMappingExtends, ExtendsFacts
<1>5. ~p.aborted => from \in Gives(written, as_written)
  BY <1>1, AddMappingGives
<1>6. ~p.aborted => ~written.aborted
  BY DEF Picker!AddMapping, OK, PickerProofs!PickerOK, PickerProofs!PickerFields
<1>7. ~p.aborted => from \in Gives(both, to)
  BY <1>1, <1>3, <1>6, AddMappingGives, ExtendsFacts
<1> HIDE DEF written, both
<1>8. Extends(p, both)
  BY <1>3, <1>4, ExtendsTwice
<1> QED BY <1>2, <1>3, <1>5, <1>7, <1>8 DEF from, to

-----------------------------------------------------------------------------
(* Loops of calls.                                                          *)

(* What the loops over a sequence do with the picker and an element.       *)
Step(kind, a, b, c, p, x) ==
  CASE kind = "internal" -> Picker!AddIncludeMapping(p, x)
    [] kind = "headername" ->
         Picker!MarkIncludeAsPrivate(
           Picker!AddMapping(p, a, Picker!MappedInclude(x, Picker!NoPath)), a)
    [] kind = "mark" -> MarkMacroUser(a, p, b, x)
    [] kind = "finish" ->
         FoldLeft(LAMBDA q, includee : MarkMacroUser(a, q, x, includee), p,
                  InOrder(UsersOfOwnMacros(a, x)))

LEMMA MaxIs ==
  ASSUME NEW k \in Nat, NEW s, s \subseteq 1..(k + 1), k + 1 \in s
  PROVE  Max(s) = k + 1
<1>1. \A y \in s : k + 1 >= y
  OBVIOUS
<1>2. \A x \in s : (\A y \in s : x >= y) => x = k + 1
  OBVIOUS
<1> QED BY <1>1, <1>2 DEF Max

Iterates(it, k, kind, a, b, c, base, seq) ==
  it = [s \in SUBSET (1..k) |->
          IF s = {} THEN base
          ELSE Step(kind, a, b, c, it[s \ {Max(s)}], seq[Max(s)])]

LEMMA IterExists ==
  ASSUME NEW kind, NEW a, NEW b, NEW c, NEW base, NEW seq
  PROVE  \A k \in Nat : \E it : Iterates(it, k, kind, a, b, c, base, seq)
<1> DEFINE holds == {k \in Nat : \E it : Iterates(it, k, kind, a, b, c, base, seq)}
<1>1. 0 \in holds
  <2> DEFINE it == [s \in SUBSET (1..0) |-> base]
  <2>1. \A s \in SUBSET (1..0) : s = {}
    OBVIOUS
  <2>2. Iterates(it, 0, kind, a, b, c, base, seq)
    BY <2>1 DEF Iterates
  <2> QED BY <2>2
<1>2. ASSUME NEW k \in holds PROVE k + 1 \in holds
  <2>1. PICK it : Iterates(it, k, kind, a, b, c, base, seq)
    OBVIOUS
  <2> DEFINE more == [s \in SUBSET (1..(k + 1)) |->
                        IF k + 1 \in s THEN Step(kind, a, b, c, it[s \ {k + 1}], seq[k + 1])
                        ELSE it[s]]
  <2>2. ASSUME NEW s \in SUBSET (1..(k + 1))
        PROVE  more[s] = IF s = {} THEN base
                         ELSE Step(kind, a, b, c, more[s \ {Max(s)}], seq[Max(s)])
    <3>1. CASE k + 1 \in s
      <4>1. Max(s) = k + 1
        BY <3>1, MaxIs
      <4>2. s \ {k + 1} \in SUBSET (1..(k + 1)) /\ k + 1 \notin s \ {k + 1}
        OBVIOUS
      <4>3. more[s \ {k + 1}] = it[s \ {k + 1}]
        BY <4>2
      <4>4. more[s] = Step(kind, a, b, c, it[s \ {k + 1}], seq[k + 1])
        BY <3>1
      <4> QED BY <3>1, <4>1, <4>3, <4>4
    <3>2. CASE k + 1 \notin s
      <4>1. s \in SUBSET (1..k)
        <5>1. \A i \in s : i \in 1..k
          BY <3>2
        <5> QED BY <5>1
      <4>2. more[s] = it[s]
        BY <3>2
      <4>3. it[s] = IF s = {} THEN base
                    ELSE Step(kind, a, b, c, it[s \ {Max(s)}], seq[Max(s)])
        BY <2>1, <4>1 DEF Iterates
      <4>4. more[s \ {Max(s)}] = it[s \ {Max(s)}]
        BY <3>2
      <4> QED BY <4>2, <4>3, <4>4
    <3> QED BY <3>1, <3>2
  <2>3. Iterates(more, k + 1, kind, a, b, c, base, seq)
    BY <2>2 DEF Iterates
  <2> HIDE DEF more
  <2> QED BY <2>3
<1>3. holds = Nat
  <2> HIDE DEF holds
  <2>1. holds \in SUBSET Nat
    BY DEF holds
  <2> QED BY <1>1, <1>2, <2>1, Induction
<1> QED BY <1>3

StepsExtend(kind, a, b, c, seq) ==
  \A p : OK(p) => \A i \in DOMAIN seq : Extends(p, Step(kind, a, b, c, p, seq[i]))

Fold(kind, a, b, c, base, seq) ==
  FoldLeft(LAMBDA p, x : Step(kind, a, b, c, p, x), base, seq)

LEMMA FoldExtends ==
  ASSUME NEW kind, NEW a, NEW b, NEW c, NEW base, OK(base), NEW S, NEW seq \in Seq(S),
         StepsExtend(kind, a, b, c, seq)
  PROVE  Extends(base, Fold(kind, a, b, c, base, seq))
<1> DEFINE n == Len(seq)
           iter == CHOOSE it : Iterates(it, n, kind, a, b, c, base, seq)
<1>1. n \in Nat /\ DOMAIN seq = 1..n
  OBVIOUS
<1>2. Iterates(iter, n, kind, a, b, c, base, seq)
  BY <1>1, IterExists
<1>3. Fold(kind, a, b, c, base, seq) = iter[1..n]
  BY <1>1 DEF Fold, FoldLeft, MapThenFoldSet, Iterates
<1> HIDE DEF iter, n
<1> DEFINE holds == {k \in Nat : k <= n => Extends(base, iter[1..k])}
<1>4. 0 \in holds
  <2>1. 1..0 = {} /\ {} \in SUBSET (1..n)
    OBVIOUS
  <2>2. iter[{}] = base
    BY <1>2, <2>1 DEF Iterates
  <2> QED BY <2>1, <2>2, ExtendsNot
<1>5. ASSUME NEW k \in holds PROVE k + 1 \in holds
  <2> SUFFICES ASSUME k + 1 <= n PROVE Extends(base, iter[1..(k + 1)])
    OBVIOUS
  <2>1. k \in Nat /\ k <= n /\ k + 1 \in 1..n
    BY <1>1
  <2>2. Extends(base, iter[1..k])
    BY <2>1
  <2> DEFINE s == 1..(k + 1)
  <2>3. s \in SUBSET (1..n) /\ s # {} /\ k + 1 \in s /\ s \ {k + 1} = 1..k
    <3> HIDE DEF holds
    <3>1. \A j : j \in s => j \in 1..n
      BY <1>1, <2>1
    <3>2. \A j : j \in s \ {k + 1} <=> j \in 1..k
      BY <2>1
    <3> QED BY <2>1, <3>1, <3>2
  <2>4. Max(s) = k + 1
    BY <2>1, <2>3, MaxIs
  <2> HIDE DEF s
  <2>5. iter[s] = Step(kind, a, b, c, iter[1..k], seq[k + 1])
    BY <1>2, <2>3, <2>4 DEF Iterates
  <2>6. Extends(iter[1..k], iter[s])
    BY <1>1, <2>1, <2>2, <2>5, ExtendsFacts DEF StepsExtend
  <2> QED BY <2>2, <2>6, ExtendsTwice DEF s
<1>6. holds = Nat
  <2> HIDE DEF holds
  <2>1. holds \in SUBSET Nat
    BY DEF holds
  <2> QED BY <1>4, <1>5, <2>1, Induction
<1>7. Extends(base, iter[1..n])
  <2>1. n \in holds
    <3> HIDE DEF holds
    <3> QED BY <1>1, <1>6
  <2> QED BY <1>1, <2>1
<1> QED BY <1>3, <1>7

-----------------------------------------------------------------------------
(* The loops over files and names tell the picker more.                     *)

LEMMA InOrderIs ==
  ASSUME NEW files
  PROVE  /\ InOrder(files) \in Seq(Files)
         /\ \A i \in DOMAIN InOrder(files) : InOrder(files)[i] \in files
<1> DEFINE One(i) == IF FileOrder[i] \in files THEN <<FileOrder[i]>> ELSE <<>>
           each == [i \in DOMAIN FileOrder |-> One(i)]
           S == Files \cap files
<1>1. FileOrder \in Seq(Files) /\ DOMAIN FileOrder = 1..Len(FileOrder) /\ Len(FileOrder) \in Nat
  BY FilesAssumption
<1>2. ASSUME NEW i \in DOMAIN FileOrder PROVE One(i) \in Seq(S)
  <2>1. CASE FileOrder[i] \in files
    <3>1. FileOrder[i] \in S
      BY <1>1, <2>1
    <3> HIDE DEF S
    <3> QED BY <2>1, <3>1
  <2>2. CASE FileOrder[i] \notin files
    BY <2>2
  <2> QED BY <2>1, <2>2
<1>3. each \in Seq(Seq(S))
  <2> DEFINE T == Seq(S)
             n == Len(FileOrder)
  <2>1. each = [i \in 1..n |-> One(i)] /\ n \in Nat
    BY <1>1
  <2>2. \A i \in 1..n : One(i) \in T
    BY <1>1, <1>2
  <2> HIDE DEF T, One, each, n
  <2>3. each \in Seq(T)
    BY <2>1, <2>2
  <2> QED BY <2>3 DEF T
<1>4. InOrder(files) = FlattenSeq(each)
  BY DEF InOrder
<1> HIDE DEF each
<1>5. InOrder(files) \in Seq(S)
  BY <1>3, <1>4, FlattenSeqType
<1> QED BY <1>5

LEMMA InternalFold ==
  ASSUME NEW base, OK(base)
  PROVE  Extends(base, FoldLeft(Picker!AddIncludeMapping, base, InternalMappings))
<1> DEFINE S == Range(InternalMappings)
<1>1. StepsExtend("internal", 0, 0, 0, InternalMappings)
  <2> SUFFICES ASSUME NEW p, OK(p), NEW i \in DOMAIN InternalMappings
               PROVE  Extends(p, Step("internal", 0, 0, 0, p, InternalMappings[i]))
    BY DEF StepsExtend
  <2>1. InternalMappings[i].from \in Keys /\ InternalMappings[i].to \in Keys
    BY KeysAssumption DEF Range
  <2>2. Extends(p, Picker!AddIncludeMapping(p, InternalMappings[i]))
    BY <2>1, AddIncludeMappingExtends
  <2> QED BY <2>2 DEF Step
<1>2. InternalMappings \in Seq(S)
  BY KeysAssumption
<1> HIDE DEF S
<1>3. Extends(base, Fold("internal", 0, 0, 0, base, InternalMappings))
  BY <1>1, <1>2, FoldExtends
<1>4. Fold("internal", 0, 0, 0, base, InternalMappings)
        = FoldLeft(Picker!AddIncludeMapping, base, InternalMappings)
  BY DEF Fold, FoldLeft, MapThenFoldSet, Step
<1> QED BY <1>3, <1>4

LEMMA HeadernameFold ==
  ASSUME NEW s, OK(s.picker), "picker" \in DOMAIN s, NEW file, NEW quoted \in Keys
  PROVE  Extends(s.picker, ProcessHeadernameDirectivesInFile(s, file, quoted).picker)
<1>1. CASE quoted = Picker!NotWritten \/ file \notin DOMAIN Headernames
  BY <1>1, ExtendsNot DEF ProcessHeadernameDirectivesInFile
<1>2. CASE ~(quoted = Picker!NotWritten \/ file \notin DOMAIN Headernames)
  <2> DEFINE names == Headernames[file]
             base == s.picker
  <2>1. names \in Seq(Keys)
    BY <1>2, KeysAssumption
  <2>2. StepsExtend("headername", quoted, 0, 0, names)
    <3> SUFFICES ASSUME NEW p, OK(p), NEW i \in DOMAIN names
                 PROVE  Extends(p, Step("headername", quoted, 0, 0, p, names[i]))
      BY DEF StepsExtend
    <3> DEFINE mapped == Picker!AddMapping(p, quoted, Picker!MappedInclude(names[i],
       Picker!NoPath))
    <3>1. names[i] \in Keys
      BY <2>1
    <3> HIDE DEF names
    <3>2. Extends(p, mapped)
      BY <3>1, AddMappingExtends
    <3>3. Step("headername", quoted, 0, 0, p, names[i]) = Picker!MarkIncludeAsPrivate(mapped, quoted)
      BY DEF Step
    <3> HIDE DEF mapped
    <3>4. Extends(mapped, Picker!MarkIncludeAsPrivate(mapped, quoted))
      BY <3>2, ExtendsFacts, MarkIncludeExtends
    <3> QED BY <3>2, <3>3, <3>4, ExtendsTwice
  <2> HIDE DEF names
  <2>3. Extends(base, Fold("headername", quoted, 0, 0, base, names))
    BY <2>1, <2>2, FoldExtends
  <2>4. ProcessHeadernameDirectivesInFile(s, file, quoted).picker
          = Fold("headername", quoted, 0, 0, base, names)
    BY <1>2 DEF ProcessHeadernameDirectivesInFile, Fold, FoldLeft, MapThenFoldSet,
       Step, names
  <2> QED BY <2>3, <2>4
<1> QED BY <1>1, <1>2

-----------------------------------------------------------------------------
(* What HandlePreprocessingDone tells the picker.                           *)

QuotedOK(p) == \A f \in Seen(p) : p.iwyu_file_info_map[f].quoted_file \in Keys

LEMMA MarkMacroUserExtends ==
  ASSUME NEW info, QuotedOK(info), NEW file \in Paths \cap Seen(info),
         NEW p, OK(p), NEW includee \in Paths
  PROVE  Extends(p, MarkMacroUser(info, p, file, includee))
<1> DEFINE private_include == ConvertToQuotedInclude(includee, <<>>)
           quoted_file == info.iwyu_file_info_map[file].quoted_file
           mapped == Picker!AddMapping(p, private_include, Picker!MappedInclude(quoted_file, file))
<1>1. private_include \in Keys /\ quoted_file \in Keys
  BY KeysOfPaths DEF QuotedOK
<1>2. MarkMacroUser(info, p, file, includee)
        = IF Picker!IsPublic(p, includee) \/ file = includee THEN p
          ELSE Picker!MarkIncludeAsPrivate(mapped, private_include)
  BY DEF MarkMacroUser
<1> HIDE DEF private_include, quoted_file
<1>3. Extends(p, mapped)
  BY <1>1, AddMappingExtends
<1> HIDE DEF mapped
<1>4. Extends(mapped, Picker!MarkIncludeAsPrivate(mapped, private_include))
  BY <1>3, ExtendsFacts, MarkIncludeExtends
<1>5. Extends(p, p)
  BY ExtendsNot
<1> QED BY <1>2, <1>3, <1>4, <1>5, ExtendsTwice

LEMMA MarkFold ==
  ASSUME NEW info, QuotedOK(info), NEW file \in Paths \cap Seen(info),
         NEW p, OK(p), NEW files
  PROVE  /\ Extends(p, Fold("mark", info, file, 0, p, InOrder(files)))
         /\ FoldLeft(LAMBDA q, includee : MarkMacroUser(info, q, file, includee), p, InOrder(files))
              = Fold("mark", info, file, 0, p, InOrder(files))
<1> DEFINE seq == InOrder(files)
<1>1. seq \in Seq(Files) /\ \A i \in DOMAIN seq : seq[i] \in Paths
  BY InOrderIs DEF Paths
<1> HIDE DEF seq
<1>2. StepsExtend("mark", info, file, 0, seq)
  <2> SUFFICES ASSUME NEW r, OK(r), NEW i \in DOMAIN seq
               PROVE  Extends(r, Step("mark", info, file, 0, r, seq[i]))
    BY DEF StepsExtend
  <2>1. Extends(r, MarkMacroUser(info, r, file, seq[i]))
    BY <1>1, MarkMacroUserExtends
  <2> QED BY <2>1 DEF Step
<1>3. Extends(p, Fold("mark", info, file, 0, p, seq))
  BY <1>1, <1>2, FoldExtends
<1>4. FoldLeft(LAMBDA q, includee : MarkMacroUser(info, q, file, includee), p, seq)
              = Fold("mark", info, file, 0, p, seq)
  BY DEF Fold, FoldLeft, MapThenFoldSet, Step
<1> QED BY <1>3, <1>4 DEF seq

LEMMA FinishFold ==
  ASSUME NEW info, QuotedOK(info), Seen(info) \subseteq Paths,
         NEW p, OK(p), NEW files, files \subseteq Seen(info)
  PROVE  Extends(p, Fold("finish", info, 0, 0, p, InOrder(files)))
<1> DEFINE seq == InOrder(files)
<1>1. seq \in Seq(Files) /\ \A i \in DOMAIN seq : seq[i] \in Paths \cap Seen(info)
  BY InOrderIs
<1> HIDE DEF seq
<1>2. ASSUME NEW r, OK(r), NEW f \in Paths \cap Seen(info)
      PROVE  Extends(r, Step("finish", info, 0, 0, r, f))
  <2> DEFINE users == UsersOfOwnMacros(info, f)
  <2>1. Step("finish", info, 0, 0, r, f)
          = FoldLeft(LAMBDA q, includee : MarkMacroUser(info, q, f, includee), r,
                     InOrder(users))
    BY DEF Step
  <2> HIDE DEF users
  <2>2. /\ Extends(r, Fold("mark", info, f, 0, r, InOrder(users)))
        /\ FoldLeft(LAMBDA q, includee : MarkMacroUser(info, q, f, includee), r, InOrder(users))
             = Fold("mark", info, f, 0, r, InOrder(users))
    BY <1>2, MarkFold
  <2> QED BY <2>1, <2>2
<1>21. StepsExtend("finish", info, 0, 0, seq)
  <2> SUFFICES ASSUME NEW r, OK(r), NEW i \in DOMAIN seq
               PROVE  Extends(r, Step("finish", info, 0, 0, r, seq[i]))
    BY DEF StepsExtend
  <2> QED BY <1>1, <1>2
<1>3. Extends(p, Fold("finish", info, 0, 0, p, seq))
  BY <1>1, <1>21, FoldExtends
<1> QED BY <1>3 DEF seq

LEMMA DoneExtends ==
  ASSUME NEW s, IsState(s), QuotedOK(s.pp), Seen(s.pp) \subseteq Paths, OK(s.picker)
  PROVE  Extends(s.picker, HandlePreprocessingDone(s).picker)
<1> DEFINE left == FileChanged_ExitToFile(s.pp, s.pp.main_file)
           unreported == {f \in DOMAIN left.iwyu_file_info_map :
                            ~ShouldReportIWYUViolationsFor(left, f)}
<1>1. WellFormed(s.pp)
  BY DEF IsState
<1>2. left.iwyu_file_info_map = s.pp.iwyu_file_info_map
  BY <1>1, ExitInfo DEF Left, SameOutside, ScopeFields, Fields
<1>3. QuotedOK(left) /\ Seen(left) \subseteq Paths /\ unreported \subseteq Seen(left)
  BY <1>2 DEF QuotedOK, Seen
<1>4. HandlePreprocessingDone(s).picker = Fold("finish", left, 0, 0, s.picker, InOrder(unreported))
  BY DEF HandlePreprocessingDone, Fold, FoldLeft, MapThenFoldSet, Step
<1> HIDE DEF left, unreported
<1> QED BY <1>3, <1>4, FinishFold

-----------------------------------------------------------------------------
(* The quoted names in the information about files are keys.                *)

(* A file keeps the name that it gets when it is first seen.               *)
Named(p, q) ==
  \A f \in Seen(p) : /\ f \in Seen(q)
                     /\ q.iwyu_file_info_map[f].quoted_file = p.iwyu_file_info_map[f].quoted_file

SameQuoted(p, q) == Named(p, q) /\ Seen(q) = Seen(p)

LEMMA SameQuotedOK ==
  ASSUME NEW p, NEW q, QuotedOK(p), SameQuoted(p, q) PROVE QuotedOK(q)
BY DEF QuotedOK, SameQuoted, Named

LEMMA SameQuotedTwice ==
  ASSUME NEW p, NEW q, NEW r, SameQuoted(p, q), SameQuoted(q, r) PROVE SameQuoted(p, r)
BY DEF SameQuoted, Named

LEMMA SameQuotedNot == ASSUME NEW p PROVE SameQuoted(p, p)
BY DEF SameQuoted, Named

LEMMA SameMapQuoted ==
  ASSUME NEW p, NEW q, q.iwyu_file_info_map = p.iwyu_file_info_map PROVE SameQuoted(p, q)
BY DEF SameQuoted, Named, Seen

LEMMA InsertQuoted ==
  ASSUME NEW p, WellFormed(p), QuotedOK(p), NEW file, NEW name \in Keys
  PROVE  QuotedOK(InsertIntoFileInfoMap(p, file, name))
<1> DEFINE q == InsertIntoFileInfoMap(p, file, name)
           infos == Insert(p.iwyu_file_info_map, file, NewFileInfo(name))
<1>1. q.iwyu_file_info_map = infos
  <2> HIDE DEF infos
  <2> QED BY DEF InsertIntoFileInfoMap, WellFormed, Fields, infos
<1>2. /\ DOMAIN infos = Seen(p) \cup {file}
      /\ \A f \in Seen(p) : infos[f] = p.iwyu_file_info_map[f]
      /\ file \notin Seen(p) => infos[file] = NewFileInfo(name)
  BY DEF Insert, Seen
<1>3. NewFileInfo(name).quoted_file = name
  BY DEF NewFileInfo
<1> HIDE DEF infos, q
<1>4. QuotedOK(q)
  BY <1>1, <1>2, <1>3 DEF QuotedOK, Seen
<1> QED BY <1>4 DEF q

LEMMA ReportQuoted ==
  ASSUME NEW p, WellFormed(p), NEW file \in Seen(p), NEW element, NEW set \in InfoSets
  PROVE  SameQuoted(p, Report(p, file, set, element))
<1> DEFINE q == Report(p, file, set, element)
<1>1. /\ Seen(q) = Seen(p)
      /\ \A f \in Seen(p) : \A x \in InfoFields :
            q.iwyu_file_info_map[f][x] =
              IF f = file /\ x = set THEN p.iwyu_file_info_map[f][x] \cup {element}
              ELSE p.iwyu_file_info_map[f][x]
  BY ReportInfo
<1>2. "quoted_file" \in InfoFields /\ set # "quoted_file"
  BY DEF InfoFields, InfoSets
<1> HIDE DEF q
<1>3. SameQuoted(p, q)
  BY <1>1, <1>2 DEF SameQuoted, Named
<1> QED BY <1>3 DEF q

LEMMA ReportUsesQuoted ==
  ASSUME NEW p, WellFormed(p), NEW file \in Seen(p), NEW element
  PROVE  /\ SameQuoted(p, Report(p, file, "include_uses", element))
         /\ SameQuoted(p, Report(p, file, "kept_includes", element))
         /\ SameQuoted(p, Report(p, file, "direct_includes", element))
         /\ SameQuoted(p, Report(p, file, "associated_headers", element))
<1>1. ASSUME NEW set \in InfoSets PROVE SameQuoted(p, Report(p, file, set, element))
  BY <1>1, ReportQuoted
<1>2. /\ "include_uses" \in InfoSets /\ "kept_includes" \in InfoSets
      /\ "direct_includes" \in InfoSets /\ "associated_headers" \in InfoSets
  BY DEF InfoSets
<1>3. SameQuoted(p, Report(p, file, "include_uses", element))
  BY <1>1, <1>2, Zenon
<1>4. SameQuoted(p, Report(p, file, "kept_includes", element))
  BY <1>1, <1>2, Zenon
<1>5. SameQuoted(p, Report(p, file, "direct_includes", element))
  BY <1>1, <1>2, Zenon
<1>6. SameQuoted(p, Report(p, file, "associated_headers", element))
  BY <1>1, <1>2, Zenon
<1> QED BY <1>3, <1>4, <1>5, <1>6

LEMMA ProtectQuoted ==
  ASSUME NEW s, IsState(s), NEW line,
         IsSpecialFilename(line.includer) \/ line.includer \in Seen(s.pp)
  PROVE  SameQuoted(s.pp, MaybeProtectInclude(s, line).pp)
<1> DEFINE t == MaybeProtectInclude(s, line)
           Good(u) == IsState(u) /\ Seen(u.pp) = Seen(s.pp) /\ SameQuoted(s.pp, u.pp)
<1> SUFFICES Good(t)
  OBVIOUS
<1>1. Good(s)
  BY SameQuotedNot
<1>2. ASSUME NEW u, Good(u), line.includer \in Seen(s.pp)
      PROVE  Good(Protect(u, line))
  <2> DEFINE r == Report(u.pp, line.includer, "include_uses", line.includee)
  <2>1. WellFormed(r) /\ Seen(r) = Seen(u.pp)
    <3> DEFINE set == "include_uses"
    <3>1. set \in InfoSets
      BY DEF InfoSets
    <3> HIDE DEF set
    <3>2. LET q == Report(u.pp, line.includer, set, line.includee)
          IN  WellFormed(q) /\ Seen(q) = Seen(u.pp)
      BY <1>2, <3>1, ReportInfo DEF IsState
    <3> QED BY <3>2 DEF set
  <2>2. SameQuoted(u.pp, r)
    BY <1>2, ReportUsesQuoted DEF IsState
  <2>3. Protect(u, line) = [u EXCEPT !.pp = r]
    BY DEF Protect
  <2> HIDE DEF r
  <2>4. SameQuoted(s.pp, r)
    BY <1>2, <2>2, SameQuotedTwice
  <2> QED BY <1>2, <2>1, <2>3, <2>4 DEF IsState
<1>3. ASSUME line.includer \in Seen(s.pp)
      PROVE  Good(Keep(s, line))
  <2> DEFINE r == Report(s.pp, line.includer, "kept_includes", line.includee)
  <2>1. WellFormed(r) /\ Seen(r) = Seen(s.pp)
    <3> DEFINE set == "kept_includes"
    <3>1. set \in InfoSets
      BY DEF InfoSets
    <3> HIDE DEF set
    <3>2. LET q == Report(s.pp, line.includer, set, line.includee)
          IN  WellFormed(q) /\ Seen(q) = Seen(s.pp)
      BY <1>3, <3>1, ReportInfo DEF IsState
    <3> QED BY <3>2 DEF set
  <2>2. SameQuoted(s.pp, r)
    BY <1>3, ReportUsesQuoted DEF IsState
  <2>3. Keep(s, line) = [s EXCEPT !.pp = r]
    BY DEF Keep
  <2> HIDE DEF r
  <2> QED BY <2>1, <2>2, <2>3 DEF IsState
<1>4. \A v : Good([s EXCEPT !.picker = v])
  BY <1>1 DEF IsState
<1> HIDE DEF Good
<1>5. CASE IsSpecialFilename(line.includer)
  BY <1>1, <1>5 DEF MaybeProtectInclude
<1>6. CASE ~IsSpecialFilename(line.includer)
  <2>1. line.includer \in Seen(s.pp)
    BY <1>6
  <2>2. Good(Protect(Keep(s, line), line))
    BY <1>2, <1>3, <2>1
  <2>3. Good(Protect(s, line))
    BY <1>1, <1>2, <2>1
  <2>4. \A v : Good(Protect([s EXCEPT !.picker = v], line))
    BY <1>4, <1>2, <2>1
  <2> QED BY <1>1, <2>2, <2>3, <2>4, <1>6 DEF MaybeProtectInclude
<1> QED BY <1>5, <1>6

LEMMA MarkPchQuoted ==
  ASSUME NEW p, WellFormed(p), NEW includer, NEW includee \in Seen(p)
  PROVE  SameQuoted(p, MarkPchInCode(p, includer, includee))
<1> DEFINE q == MarkPchInCode(p, includer, includee)
           old == p.iwyu_file_info_map
           info == [[old[includee] EXCEPT !.is_pch_in_code = TRUE]
                      EXCEPT !.is_prefix_header = TRUE]
           infos == [old EXCEPT ![includee] = info]
<1>1. CASE ~IsPchInCode(p, includer)
  <2>1. q = p
    BY <1>1, Zenon DEF MarkPchInCode, IsPchInCode
  <2> QED BY <2>1, SameQuotedNot
<1>2. CASE IsPchInCode(p, includer)
  <2>1. info.quoted_file = old[includee].quoted_file
    <3>1. DOMAIN old[includee] = InfoFields
      BY DEF WellFormed, Seen
    <3> QED BY <3>1 DEF InfoFields
  <2>2. q = [p EXCEPT !.iwyu_file_info_map = infos]
    <3>1. q = [p EXCEPT !.iwyu_file_info_map[includee].is_pch_in_code = TRUE,
                        !.iwyu_file_info_map[includee].is_prefix_header = TRUE]
      BY <1>2 DEF MarkPchInCode, IsPchInCode
    <3>2. DOMAIN p = Fields /\ includee \in DOMAIN old
      BY DEF WellFormed, Seen
    <3> QED BY <3>1, <3>2 DEF Fields
  <2> HIDE DEF info
  <2>3. /\ DOMAIN infos = Seen(p)
        /\ infos[includee] = info
        /\ \A f \in Seen(p) \ {includee} : infos[f] = old[f]
    BY DEF Seen
  <2> HIDE DEF infos, q
  <2>4. q.iwyu_file_info_map = infos
    BY <2>2 DEF WellFormed, Fields
  <2>5. SameQuoted(p, q)
    BY <2>1, <2>3, <2>4 DEF SameQuoted, Named, Seen
  <2> QED BY <2>5 DEF q
<1> QED BY <1>1, <1>2

LEMMA AddAssociatedQuoted ==
  ASSUME NEW p, WellFormed(p), NEW includer \in Seen(p), NEW includee
  PROVE  SameQuoted(p, AddAssociatedHeader(p, includer, includee))
<1> DEFINE r == Report(p, includer, "associated_headers", includee)
           q == AddAssociatedHeader(p, includer, includee)
<1>1. WellFormed(q)
  BY AddAssociatedInfo DEF Associates
<1>2. SameQuoted(p, r)
  BY ReportUsesQuoted
<1>3. q = [r EXCEPT !.check_also = @ \cup {includee}]
  BY DEF AddAssociatedHeader
<1>4. DOMAIN r = DOMAIN q
  <2> HIDE DEF r
  <2> QED BY <1>3
<1> HIDE DEF r
<1>5. q.iwyu_file_info_map = r.iwyu_file_info_map
  <2> HIDE DEF q
  <2> QED BY <1>1, <1>3, <1>4 DEF WellFormed, Fields
<1> QED BY <1>2, <1>5, SameMapQuoted, SameQuotedTwice

LEMMA MarkAssociatedQuoted ==
  ASSUME NEW p, WellFormed(p), NEW includer \in Seen(p), NEW includee
  PROVE  SameQuoted(p, MarkAssociated(p, includer, includee))
<1> DEFINE q == MarkAssociated(p, includer, includee)
           belongs == /\ includer = p.main_file /\ includee # includer
                      /\ BelongsToMainCompilationUnit(p, includer, includee)
           by_name == IF belongs THEN AddAssociatedHeader(p, includer, includee) ELSE p
           more == AddAssociatedHeader(by_name, includer, includee)
           cleared == [more EXCEPT !.associated_pragma_location = NoFile]
<1>1. SameQuoted(p, by_name) /\ WellFormed(by_name) /\ includer \in Seen(by_name)
  BY AddAssociatedInfo, AddAssociatedQuoted, SameQuotedNot DEF Associates
<1>2. q = IF p.associated_pragma_location = includer THEN cleared ELSE by_name
  BY DEF MarkAssociated
<1> HIDE DEF by_name, q
<1>3. SameQuoted(p, more) /\ WellFormed(more)
  <2>1. SameQuoted(by_name, more)
    BY <1>1, AddAssociatedQuoted
  <2> QED BY <1>1, <2>1, AddAssociatedInfo, SameQuotedTwice DEF Associates
<1> HIDE DEF more
<1>4. cleared.iwyu_file_info_map = more.iwyu_file_info_map
  BY <1>3 DEF WellFormed, Fields
<1> HIDE DEF cleared
<1>5. SameQuoted(p, cleared)
  BY <1>3, <1>4, SameMapQuoted, SameQuotedTwice
<1> QED BY <1>1, <1>2, <1>5 DEF q

-----------------------------------------------------------------------------
(* Every method keeps them.                                                 *)

LineOK(line) ==
  line.includer \in Paths /\ line.includee \in Paths /\ line.as_written \in Keys

LEMMA ReportDirectOK ==
  ASSUME NEW p, WellFormed(p), NEW file \in Seen(p), NEW element
  PROVE  /\ WellFormed(Report(p, file, "direct_includes", element))
         /\ Seen(Report(p, file, "direct_includes", element)) = Seen(p)
BY ReportDirect

LEMMA AddDirectIncludeQuoted ==
  ASSUME NEW s, IsState(s), QuotedOK(s.pp), NEW line, LineOK(line)
  PROVE  QuotedOK(AddDirectInclude(s, line).pp)
<1> DEFINE p == s.pp
           includer == line.includer
           includee == line.includee
           counted == [p EXCEPT !.num_includes_seen = Counted(p, includer)]
           got == GetFromFileInfoMap(counted, includer)
           direct == Report(got, includer, "direct_includes", includee)
           added == InsertIntoFileInfoMap(direct, includee, line.as_written)
           pch == MarkPchInCode(added, includer, includee)
           marked == MarkAssociated(pch, includer, includee)
           named == IF line.as_written = Picker!NotWritten THEN marked
                    ELSE [marked EXCEPT !.include_to_fileentry_map =
                            Insert(@, line.as_written, includee)]
           told == Picker!AddDirectInclude(s.picker, includer, includee, line.as_written)
           u == [pp |-> named, picker |-> told]
<1>1. AddDirectInclude(s, line) = MaybeProtectInclude(u, line)
  BY DEF AddDirectInclude, Counted
<1>2. WellFormed(counted) /\ Seen(counted) = Seen(p) /\ QuotedOK(counted)
  <2> DEFINE n == Counted(p, includer)
  <2>1. WellFormed(p) /\ QuotedOK(p)
    BY DEF IsState
  <2> HIDE DEF n, p
  <2>2. counted = [p EXCEPT !.num_includes_seen = n]
    BY DEF n
  <2> HIDE DEF counted
  <2>3. DOMAIN counted = Fields /\ counted.iwyu_file_info_map = p.iwyu_file_info_map
    BY <2>1, <2>2 DEF WellFormed, Fields
  <2> QED BY <2>1, <2>3 DEF WellFormed, Seen, QuotedOK
<1> HIDE DEF counted
<1>3. WellFormed(got) /\ includer \in Seen(got) /\ QuotedOK(got)
  <2> DEFINE name == ConvertToQuotedInclude(includer, <<>>)
  <2>1. name \in Keys
    BY KeysOfPaths DEF LineOK
  <2>2. got = InsertIntoFileInfoMap(counted, includer, name)
    BY DEF GetFromFileInfoMap
  <2> HIDE DEF name, got
  <2> QED BY <1>2, <2>1, <2>2, InsertInfo, InsertQuoted
<1> HIDE DEF got
<1>4. WellFormed(direct) /\ includer \in Seen(direct) /\ QuotedOK(direct)
  BY <1>3, ReportDirectOK, ReportUsesQuoted, SameQuotedOK
<1> HIDE DEF direct
<1>5. WellFormed(added) /\ includer \in Seen(added) /\ includee \in Seen(added)
      /\ QuotedOK(added)
  BY <1>4, InsertInfo, InsertQuoted DEF LineOK
<1> HIDE DEF added
<1>6. WellFormed(pch) /\ includer \in Seen(pch) /\ QuotedOK(pch)
  BY <1>5, MarkPchInfo, MarkPchQuoted, SameQuotedOK
<1> HIDE DEF pch
<1>7. WellFormed(marked) /\ includer \in Seen(marked) /\ QuotedOK(marked)
  BY <1>6, MarkAssociatedInfo, MarkAssociatedQuoted, SameQuotedOK DEF Associates
<1> HIDE DEF marked
<1>8. WellFormed(named) /\ includer \in Seen(named) /\ QuotedOK(named)
  <2> DEFINE more == Insert(marked.include_to_fileentry_map, line.as_written, includee)
             noted == [marked EXCEPT !.include_to_fileentry_map = more]
  <2> HIDE DEF more
  <2>2. DOMAIN noted = Fields /\ noted.iwyu_file_info_map = marked.iwyu_file_info_map
    BY <1>7 DEF WellFormed, Fields
  <2>3. named = marked \/ named = noted
    BY Zenon DEF more
  <2> HIDE DEF noted, named
  <2>4. DOMAIN named = Fields /\ named.iwyu_file_info_map = marked.iwyu_file_info_map
    BY <1>7, <2>2, <2>3 DEF WellFormed
  <2> QED BY <1>7, <2>4 DEF WellFormed, Seen, QuotedOK
<1> HIDE DEF named, told
<1>9. IsState(u) /\ u.pp = named
  BY <1>8 DEF IsState
<1> HIDE DEF u
<1>10. SameQuoted(u.pp, MaybeProtectInclude(u, line).pp)
  BY <1>8, <1>9, ProtectQuoted
<1> QED BY <1>1, <1>8, <1>9, <1>10, SameQuotedOK

LEMMA SkippedQuoted ==
  ASSUME NEW s, IsState(s), QuotedOK(s.pp), NEW line, LineOK(line)
  PROVE  QuotedOK(FileSkipped(s, line).pp)
<1> DEFINE a == AddDirectInclude(s, line)
           t == FileSkipped(s, line)
           q == NoteReported(a.pp, line.includee)
<1>1. IsState(a) /\ QuotedOK(a.pp)
  BY AddDirectIncludeInfo, AddDirectIncludeQuoted
<1>2. t = [a EXCEPT !.pp = q]
  BY DEF FileSkipped
<1>3. Noted(a.pp, q, line.includee)
  BY <1>1, NoteReportedInfo DEF IsState, WellFormed
<1> HIDE DEF q, a, t
<1>4. q.iwyu_file_info_map = a.pp.iwyu_file_info_map
  BY <1>3 DEF Noted, SameOutside, ReportedFields, Fields
<1>5. QuotedOK(q)
  BY <1>1, <1>4, SameMapQuoted, SameQuotedOK
<1>6. t.pp = q
  BY <1>1, <1>2 DEF IsState
<1> QED BY <1>5, <1>6 DEF t

LEMMA EnteredQuoted ==
  ASSUME NEW s, IsState(s), QuotedOK(s.pp), NEW line, LineOK(line)
  PROVE  QuotedOK(FileChanged_EnterFile(s, line).pp)
<1> DEFINE includer == line.includer
           file == line.includee
           a == AddDirectInclude(s, line)
           c == a.pp
           named == ProcessHeadernameDirectivesInFile(a, file, line.as_written)
           main == IF IsSpecialFilename(c.main_file) THEN file ELSE c.main_file
           with_main == [c EXCEPT !.main_file = main]
           belongs == BelongsToMainCompilationUnit(with_main, includer, file)
           more == with_main.check_also \cup {file}
           belonging == IF belongs THEN [with_main EXCEPT !.check_also = more]
                        ELSE with_main
           noted == NoteReported(belonging, file)
           inherits == IF IsSpecialFilename(includer) THEN file # belonging.main_file
                       ELSE belonging.iwyu_file_info_map[includer].is_prefix_header
           old == noted.iwyu_file_info_map
           infos == [old EXCEPT ![file].is_prefix_header = @ \/ inherits]
           q == [noted EXCEPT !.iwyu_file_info_map = infos]
           t == FileChanged_EnterFile(s, line)
<1>0. IsState(a) /\ IncludeAdded(s.pp, c, includer, file)
  BY AddDirectIncludeInfo
<1>01. QuotedOK(c)
  BY AddDirectIncludeQuoted
<1>1. IsState(a) /\ QuotedOK(c) /\ file \in Seen(c)
  <2> HIDE DEF a, file, includer
  <2> QED BY <1>0, <1>01 DEF IncludeAdded
<1> HIDE DEF a
<1>2. named.pp = c
  <2>1. named = a \/ \E v : named = [a EXCEPT !.picker = v]
    BY DEF ProcessHeadernameDirectivesInFile
  <2> HIDE DEF named
  <2> QED BY <1>1, <2>1 DEF IsState
<1>3. t = [pp |-> q, picker |-> named.picker]
  BY <1>2 DEF FileChanged_EnterFile, a
<1> HIDE DEF named, t, main
<1>4. DOMAIN with_main = Fields /\ with_main.iwyu_file_info_map = c.iwyu_file_info_map
  <2> HIDE DEF c
  <2> QED BY <1>1 DEF Fields, WellFormed, IsState, c
<1> HIDE DEF with_main, more, belongs
<1>5. DOMAIN belonging = Fields /\ belonging.iwyu_file_info_map = c.iwyu_file_info_map
  <2> DEFINE widened == [with_main EXCEPT !.check_also = more]
  <2>1. belonging = with_main \/ belonging = widened
    BY Zenon
  <2>2. DOMAIN widened = Fields /\ widened.iwyu_file_info_map = with_main.iwyu_file_info_map
    BY <1>4 DEF Fields, more
  <2> HIDE DEF belonging, widened
  <2> QED BY <1>4, <2>1, <2>2
<1> HIDE DEF belonging
<1>6. Noted(belonging, noted, file)
  BY <1>5, NoteReportedInfo
<1> HIDE DEF noted
<1>7. old = c.iwyu_file_info_map /\ DOMAIN noted = Fields
  <2> HIDE DEF c
  <2> QED BY <1>5, <1>6 DEF Noted, SameOutside, ReportedFields, Fields
<1>8. q.iwyu_file_info_map = infos
  <2> HIDE DEF infos
  <2> QED BY <1>7 DEF Fields
<1>9. /\ DOMAIN infos = Seen(c)
      /\ \A f \in Seen(c) \ {file} : infos[f] = old[f]
      /\ infos[file] = [old[file] EXCEPT !.is_prefix_header = @ \/ inherits]
  BY <1>1, <1>7 DEF Seen
<1>10. infos[file].quoted_file = old[file].quoted_file
  <2>1. DOMAIN old[file] = InfoFields
    BY <1>1, <1>7 DEF WellFormed, Seen, IsState
  <2> HIDE DEF infos, old, inherits
  <2> QED BY <1>9, <2>1 DEF InfoFields
<1> HIDE DEF q, infos, old, c
<1>11. QuotedOK(q)
  BY <1>1, <1>7, <1>8, <1>9, <1>10 DEF QuotedOK, Seen
<1>12. t.pp = q
  BY <1>3
<1> QED BY <1>11, <1>12 DEF t

LEMMA MacroUseQuoted ==
  ASSUME NEW p, WellFormed(p), QuotedOK(p), NEW used_in \in Seen(p) \cap Paths,
         NEW defined_in \in Seen(p) \cap Paths
  PROVE  QuotedOK(ReportMacroUse(p, used_in, defined_in))
<1>1. ASSUME NEW q, WellFormed(q), QuotedOK(q), Seen(q) = Seen(p),
             NEW file \in Seen(p) \cap Paths, NEW element, NEW set \in InfoSets
      PROVE  LET r == Report(GetFromFileInfoMap(q, file), file, set, element)
             IN  WellFormed(r) /\ Seen(r) = Seen(p) /\ QuotedOK(r)
  <2> DEFINE g == GetFromFileInfoMap(q, file)
             name == ConvertToQuotedInclude(file, <<>>)
  <2>1. name \in Keys
    BY KeysOfPaths
  <2>2. g = InsertIntoFileInfoMap(q, file, name)
    BY DEF GetFromFileInfoMap
  <2> HIDE DEF name, g
  <2>3. WellFormed(g) /\ Seen(g) = Seen(p) /\ QuotedOK(g)
    <3>1. Seen(q) \cup {file} = Seen(p)
      BY <1>1
    <3> QED BY <1>1, <2>1, <2>2, <3>1, InsertInfo, InsertQuoted
  <2>4. file \in Seen(g)
    BY <2>3
  <2> DEFINE r == Report(g, file, set, element)
  <2>5. WellFormed(r) /\ Seen(r) = Seen(g)
    BY <1>1, <2>3, <2>4, ReportInfo
  <2>6. SameQuoted(g, r)
    BY <1>1, <2>3, <2>4, ReportQuoted
  <2> HIDE DEF r
  <2>7. WellFormed(r) /\ Seen(r) = Seen(p) /\ QuotedOK(r)
    BY <2>3, <2>5, <2>6, SameQuotedOK
  <2> QED BY <2>7 DEF r, g
<1> DEFINE uses == "macro_uses"
           users == "macro_users"
           reported == IF ShouldReportIWYUViolationsFor(p, used_in)
                       THEN Report(GetFromFileInfoMap(p, used_in), used_in, uses, defined_in)
                       ELSE p
<1>2. uses \in InfoSets /\ users \in InfoSets
  BY DEF InfoSets
<1> HIDE DEF uses, users
<1>3. WellFormed(reported) /\ QuotedOK(reported) /\ Seen(reported) = Seen(p)
  BY <1>1, <1>2
<1> HIDE DEF reported
<1>4. QuotedOK(Report(GetFromFileInfoMap(reported, defined_in), defined_in, users, used_in))
  BY <1>1, <1>2, <1>3
<1> QED BY <1>4 DEF ReportMacroUse, reported, uses, users

LEMMA OtherQuoted ==
  ASSUME NEW p, WellFormed(p), NEW infos, DOMAIN infos = Seen(p),
         \A f \in Seen(p) : infos[f].quoted_file = p.iwyu_file_info_map[f].quoted_file
  PROVE  SameQuoted(p, [p EXCEPT !.iwyu_file_info_map = infos])
<1> DEFINE q == [p EXCEPT !.iwyu_file_info_map = infos]
<1>1. q.iwyu_file_info_map = infos
  BY DEF WellFormed, Fields
<1> HIDE DEF q
<1>2. SameQuoted(p, q)
  BY <1>1 DEF SameQuoted, Named, Seen
<1> QED BY <1>2 DEF q

LEMMA KeepUsersQuoted ==
  ASSUME NEW p, WellFormed(p)
  PROVE  SameQuoted(p, KeepMacroUsers(p))
<1> DEFINE old == p.iwyu_file_info_map
           kept(f) == old[f].kept_includes \cup UsersOfOwnMacros(p, f)
           info(f) == IF ShouldReportIWYUViolationsFor(p, f)
                      THEN [old[f] EXCEPT !.kept_includes = kept(f)] ELSE old[f]
           infos == [f \in Seen(p) |-> info(f)]
<1>1. KeepMacroUsers(p) = [p EXCEPT !.iwyu_file_info_map = infos]
  BY DEF KeepMacroUsers, Seen
<1>2. ASSUME NEW f \in Seen(p) PROVE info(f).quoted_file = old[f].quoted_file
  <2>1. DOMAIN old[f] = InfoFields
    BY DEF WellFormed, Seen
  <2> HIDE DEF kept, old
  <2> QED BY <2>1 DEF InfoFields
<1>3. DOMAIN infos = Seen(p) /\ \A f \in Seen(p) : infos[f] = info(f)
  OBVIOUS
<1> HIDE DEF info, infos
<1> QED BY <1>1, <1>2, <1>3, OtherQuoted

LEMMA EndQuoted ==
  ASSUME NEW s, IsState(s), QuotedOK(s.pp)
  PROVE  QuotedOK(HandlePreprocessingDone(s).pp)
<1> DEFINE left == FileChanged_ExitToFile(s.pp, s.pp.main_file)
<1>1. WellFormed(left) /\ left.iwyu_file_info_map = s.pp.iwyu_file_info_map
  BY ExitInfo DEF IsState, Left, SameOutside, ScopeFields, Fields
<1>2. HandlePreprocessingDone(s).pp = KeepMacroUsers(left)
  BY DEF HandlePreprocessingDone
<1> HIDE DEF left
<1>3. QuotedOK(left)
  BY <1>1, SameMapQuoted, SameQuotedOK
<1> QED BY <1>1, <1>2, <1>3, KeepUsersQuoted, SameQuotedOK

-----------------------------------------------------------------------------
(* What a line tells the picker.                                            *)

NameIn(file) == ConvertToQuotedInclude(file, <<>>)

PragmaOK(pragma) == pragma.kind = "private_include" => pragma.arg \in Keys

LEMMA PickerSet ==
  ASSUME NEW s, IsState(s), NEW v
  PROVE  [s EXCEPT !.picker = v].picker = v /\ [s EXCEPT !.picker = v].pp = s.pp
BY DEF IsState

LEMMA InfoSet ==
  ASSUME NEW s, IsState(s), NEW v
  PROVE  [s EXCEPT !.pp = v].picker = s.picker
BY DEF IsState

LEMMA OpenPragmaExtends ==
  ASSUME NEW s, IsState(s), OK(s.picker), NEW file \in Paths, NEW pragma, PragmaOK(pragma)
  PROVE  Extends(s.picker, HandleOpenPragma(s, file, pragma).picker)
<1> DEFINE t == HandleOpenPragma(s, file, pragma)
           p == s.picker
<1>1. CASE pragma.kind = "private_include"
  <2>1. t = [s EXCEPT !.picker = Picker!PrivateInclude(p, file, pragma.arg)]
    BY <1>1 DEF HandleOpenPragma
  <2> HIDE DEF t
  <2>2. t.picker = Picker!PrivateInclude(p, file, pragma.arg)
    BY <2>1, PickerSet
  <2> QED BY <1>1, <2>2, PrivateIncludeExtends DEF PragmaOK, t
<1>2. CASE pragma.kind = "private"
  <2>1. t = [s EXCEPT !.picker = Picker!MarkPathAsPrivate(p, file)]
    BY <1>2 DEF HandleOpenPragma
  <2> HIDE DEF t
  <2>2. t.picker = Picker!MarkPathAsPrivate(p, file)
    BY <2>1, PickerSet
  <2> QED BY <2>2, MarkPathExtends DEF t
<1>3. CASE pragma.kind = "friend"
  <2>1. t = [s EXCEPT !.picker = Picker!AddFriendRegex(p, file, pragma.arg)]
    BY <1>3 DEF HandleOpenPragma
  <2> HIDE DEF t
  <2>2. t.picker = Picker!AddFriendRegex(p, file, pragma.arg)
    BY <2>1, PickerSet
  <2> QED BY <2>2, AddFriendExtends DEF t
<1>4. CASE pragma.kind \notin {"private_include", "private", "friend"}
  <2>1. t = s \/ \E q : t = [s EXCEPT !.pp = q]
    <3>1. CASE pragma.kind = "begin_exports"
      BY <3>1 DEF HandleOpenPragma
    <3>2. CASE pragma.kind = "begin_keep"
      BY <3>2 DEF HandleOpenPragma
    <3>3. CASE pragma.kind = "no_include"
      BY <3>3 DEF HandleOpenPragma
    <3>4. CASE pragma.kind = "no_forward_declare"
      BY <3>4 DEF HandleOpenPragma
    <3>5. CASE pragma.kind = "associated"
      BY <3>5 DEF HandleOpenPragma
    <3>6. CASE pragma.kind = "always_keep"
      BY <3>6 DEF HandleOpenPragma
    <3>7. CASE pragma.kind \notin {"begin_exports", "begin_keep", "no_include",
                 "no_forward_declare", "associated", "always_keep"}
      BY <1>4, <3>7 DEF HandleOpenPragma
    <3> QED BY <3>1, <3>2, <3>3, <3>4, <3>5, <3>6, <3>7
  <2> HIDE DEF t
  <2>2. t.picker = p
    BY <2>1, InfoSet
  <2> QED BY <2>2, ExtendsNot DEF t
<1> QED BY <1>1, <1>2, <1>3, <1>4

LEMMA CommentExtends ==
  ASSUME NEW s, IsState(s), OK(s.picker), NEW file \in Paths, NEW pragma, PragmaOK(pragma)
  PROVE  Extends(s.picker, HandlePragmaComment(s, file, pragma).picker)
<1> DEFINE t == HandlePragmaComment(s, file, pragma)
<1>1. t = s \/ (\E q : t = [s EXCEPT !.pp = q]) \/ t = HandleOpenPragma(s, file, pragma)
  BY DEF HandlePragmaComment
<1> HIDE DEF t
<1>2. t.picker = s.picker \/ t = HandleOpenPragma(s, file, pragma)
  BY <1>1, InfoSet
<1> QED BY <1>2, ExtendsNot, OpenPragmaExtends DEF t

LEMMA ProtectPicker ==
  ASSUME NEW s, IsState(s), NEW line
  PROVE  Protect(s, line).picker = s.picker /\ Keep(s, line).picker = s.picker
         /\ Protect(Keep(s, line), line).picker = s.picker
BY DEF Protect, Keep, IsState

Protected(line, s) ==
  \/ line.pragma.kind = "keep"
  \/ HasOpenBeginKeep(s.pp, line.includer)
  \/ line.includee \in KeepGlobs

LEMMA MaybeProtectExtends ==
  ASSUME NEW s, IsState(s), OK(s.picker), NEW line, LineOK(line)
  PROVE  LET t == MaybeProtectInclude(s, line)
         IN  /\ Extends(s.picker, t.picker)
             /\ /\ ~IsSpecialFilename(line.includer) /\ ~Protected(line, s)
                /\ HasOpenBeginExports(s.pp, line.includer)
                /\ ~t.picker.aborted
                => NameIn(line.includer) \in Gives(t.picker, NameIn(line.includee))
<1> DEFINE t == MaybeProtectInclude(s, line)
           p == s.picker
           exporting == line.pragma.kind = "export" \/ HasOpenBeginExports(s.pp, line.includer)
           q == Picker!ExportInclude(p, line.includer, line.includee, line.as_written)
<1>1. CASE ~IsSpecialFilename(line.includer) /\ ~Protected(line, s) /\ exporting
  <2> DEFINE u == [s EXCEPT !.picker = q]
  <2>1. t = Protect(u, line)
    BY <1>1 DEF MaybeProtectInclude, Protected
  <2> HIDE DEF q
  <2>2. IsState(u) /\ u.picker = q
    BY DEF IsState
  <2> HIDE DEF u, t
  <2>3. t.picker = q
    BY <2>1, <2>2, ProtectPicker
  <2>4. Extends(p, q) /\ (~p.aborted => NameIn(line.includer) \in Gives(q, NameIn(line.includee)))
    BY ExportIncludeExtends DEF LineOK, NameIn, q
  <2> QED BY <1>1, <2>3, <2>4 DEF Extends, t
<1>2. CASE ~(~IsSpecialFilename(line.includer) /\ ~Protected(line, s) /\ exporting)
  <2>1. t = s \/ t = Protect(Keep(s, line), line) \/ t = Protect(s, line)
    BY <1>2 DEF MaybeProtectInclude, Protected
  <2> HIDE DEF t
  <2>2. t.picker = p
    BY <2>1, ProtectPicker
  <2> QED BY <1>2, <2>2, ExtendsNot DEF t
<1> QED BY <1>1, <1>2

(* What the picker is told by an #include line, and the mapping of a line  *)
(* that is exported.                                                       *)
LineTold(s, t, line) ==
  /\ Extends(s.picker, t.picker)
  /\ /\ ~IsSpecialFilename(line.includer) /\ ~Protected(line, s)
     /\ HasOpenBeginExports(s.pp, line.includer)
     /\ ~t.picker.aborted
     => NameIn(line.includer) \in Gives(t.picker, NameIn(line.includee))

LEMMA AddDirectIncludeTold ==
  ASSUME NEW s, IsState(s), OK(s.picker), NEW line, LineOK(line)
  PROVE  LineTold(s, AddDirectInclude(s, line), line)
<1> DEFINE p == s.pp
           includer == line.includer
           includee == line.includee
           counted == [p EXCEPT !.num_includes_seen = Counted(p, includer)]
           got == GetFromFileInfoMap(counted, includer)
           direct == Report(got, includer, "direct_includes", includee)
           added == InsertIntoFileInfoMap(direct, includee, line.as_written)
           pch == MarkPchInCode(added, includer, includee)
           marked == MarkAssociated(pch, includer, includee)
           named == IF line.as_written = Picker!NotWritten THEN marked
                    ELSE [marked EXCEPT !.include_to_fileentry_map =
                            Insert(@, line.as_written, includee)]
           told == Picker!AddDirectInclude(s.picker, includer, includee, line.as_written)
           u == [pp |-> named, picker |-> told]
           t == MaybeProtectInclude(u, line)
<1>1. AddDirectInclude(s, line) = t
  BY DEF AddDirectInclude, Counted
<1>2. /\ WellFormed(counted) /\ Seen(counted) = Seen(p)
      /\ SameOutside(p, counted, {"num_includes_seen"})
  <2> DEFINE n == Counted(p, includer)
  <2>1. WellFormed(p)
    BY DEF IsState
  <2> HIDE DEF n, p
  <2>2. counted = [p EXCEPT !.num_includes_seen = n]
    BY DEF n
  <2> HIDE DEF counted
  <2>3. /\ DOMAIN counted = Fields /\ counted.iwyu_file_info_map = p.iwyu_file_info_map
        /\ SameOutside(p, counted, {"num_includes_seen"})
    BY <2>1, <2>2 DEF WellFormed, Fields, SameOutside
  <2> QED BY <2>1, <2>3 DEF WellFormed, Seen
<1> HIDE DEF counted
<1>3. /\ WellFormed(got) /\ includer \in Seen(got)
      /\ SameOutside(counted, got, {"iwyu_file_info_map"})
  BY <1>2, InsertInfo DEF GetFromFileInfoMap
<1> HIDE DEF got
<1>4. /\ WellFormed(direct) /\ includer \in Seen(direct)
      /\ SameOutside(got, direct, {"iwyu_file_info_map"})
  BY <1>3, ReportDirect
<1> HIDE DEF direct
<1>5. /\ WellFormed(added) /\ includer \in Seen(added) /\ includee \in Seen(added)
      /\ SameOutside(direct, added, {"iwyu_file_info_map"})
  BY <1>4, InsertInfo
<1> HIDE DEF added
<1>6. /\ WellFormed(pch) /\ includer \in Seen(pch)
      /\ SameOutside(added, pch, {"iwyu_file_info_map"})
  BY <1>5, MarkPchInfo
<1> HIDE DEF pch
<1>7. Associates(pch, marked, includer, includee)
  BY <1>6, MarkAssociatedInfo
<1> HIDE DEF marked
<1>8. /\ WellFormed(named) /\ includer \in Seen(named)
      /\ SameOutside(marked, named, {"include_to_fileentry_map"})
  <2> DEFINE more == Insert(marked.include_to_fileentry_map, line.as_written, includee)
             noted == [marked EXCEPT !.include_to_fileentry_map = more]
  <2>1. WellFormed(marked) /\ includer \in Seen(marked)
    BY <1>6, <1>7 DEF Associates
  <2> HIDE DEF more
  <2>2. /\ DOMAIN noted = Fields /\ noted.iwyu_file_info_map = marked.iwyu_file_info_map
        /\ SameOutside(marked, noted, {"include_to_fileentry_map"})
    BY <2>1 DEF WellFormed, Fields, SameOutside
  <2>3. named = marked \/ named = noted
    BY Zenon DEF more
  <2> HIDE DEF noted, named
  <2>4. /\ DOMAIN named = Fields /\ named.iwyu_file_info_map = marked.iwyu_file_info_map
        /\ SameOutside(marked, named, {"include_to_fileentry_map"})
    BY <2>1, <2>2, <2>3 DEF WellFormed, SameOutside
  <2> QED BY <2>1, <2>4 DEF WellFormed, Seen
<1> HIDE DEF named
<1>9. \A f : /\ HasOpenBeginExports(named, f) <=> HasOpenBeginExports(p, f)
             /\ HasOpenBeginKeep(named, f) <=> HasOpenBeginKeep(p, f)
  <2> DEFINE F == {"begin_exports_location_stack", "begin_keep_location_stack"}
  <2> HIDE DEF p, includer, includee
  <2>1. \A x \in F : named[x] = p[x]
    <3>1. F \subseteq Fields /\ "iwyu_file_info_map" \notin F /\ "num_includes_seen" \notin F
          /\ "include_to_fileentry_map" \notin F /\ \A x \in F : x \notin AssociationFields
      BY DEF Fields, AssociationFields
    <3> HIDE DEF F
    <3>2. \A x \in F : counted[x] = p[x] /\ got[x] = counted[x] /\ direct[x] = got[x]
                       /\ added[x] = direct[x] /\ pch[x] = added[x] /\ named[x] = marked[x]
      BY <3>1, <1>2, <1>3, <1>4, <1>5, <1>6, <1>8 DEF SameOutside
    <3>3. \A x \in F : marked[x] = pch[x]
      BY <3>1, <1>7 DEF Associates, SameOutside
    <3> QED BY <3>2, <3>3
  <2>2. /\ named.begin_exports_location_stack = p.begin_exports_location_stack
        /\ named.begin_keep_location_stack = p.begin_keep_location_stack
    BY <2>1
  <2> QED BY <2>2 DEF HasOpenBeginExports, HasOpenBeginKeep
<1>10. Extends(s.picker, told)
  BY AddDirectIncludeExtends DEF LineOK
<1> HIDE DEF told
<1>11. IsState(u) /\ u.pp = named /\ u.picker = told /\ OK(u.picker)
  BY <1>8, <1>10, ExtendsFacts DEF IsState
<1> HIDE DEF u
<1>12. /\ Extends(u.picker, t.picker)
       /\ /\ ~IsSpecialFilename(line.includer) /\ ~Protected(line, u)
          /\ HasOpenBeginExports(u.pp, line.includer)
          /\ ~t.picker.aborted
          => NameIn(line.includer) \in Gives(t.picker, NameIn(line.includee))
  BY <1>11, MaybeProtectExtends
<1>13. /\ Protected(line, u) <=> Protected(line, s)
       /\ HasOpenBeginExports(u.pp, line.includer) <=> HasOpenBeginExports(s.pp, line.includer)
  BY <1>9, <1>11 DEF Protected
<1>14. Extends(s.picker, t.picker)
  BY <1>10, <1>11, <1>12, ExtendsTwice
<1> HIDE DEF t
<1> QED BY <1>1, <1>12, <1>13, <1>14 DEF LineTold

LEMMA SkippedTold ==
  ASSUME NEW s, IsState(s), OK(s.picker), NEW line, LineOK(line)
  PROVE  LineTold(s, FileSkipped(s, line), line)
<1>1. FileSkipped(s, line).picker = AddDirectInclude(s, line).picker
  <2> DEFINE a == AddDirectInclude(s, line)
  <2>1. FileSkipped(s, line) = [a EXCEPT !.pp = NoteReported(@, line.includee)]
    BY DEF FileSkipped
  <2>2. IsState(a)
    BY AddDirectIncludeInfo
  <2> HIDE DEF a
  <2>3. FileSkipped(s, line).picker = a.picker
    BY <2>1, <2>2 DEF IsState
  <2> QED BY <2>3 DEF a
<1> QED BY <1>1, AddDirectIncludeTold DEF LineTold

LEMMA EnteredTold ==
  ASSUME NEW s, IsState(s), OK(s.picker), NEW line, LineOK(line)
  PROVE  LineTold(s, FileChanged_EnterFile(s, line), line)
<1> DEFINE a == AddDirectInclude(s, line)
           named == ProcessHeadernameDirectivesInFile(a, line.includee, line.as_written)
           t == FileChanged_EnterFile(s, line)
<1>1. t.picker = named.picker
  BY DEF FileChanged_EnterFile
<1>2. IsState(a) /\ LineTold(s, a, line)
  BY AddDirectIncludeInfo, AddDirectIncludeTold
<1> HIDE DEF a, t
<1>3. OK(a.picker)
  BY <1>2, ExtendsFacts DEF LineTold
<1>4. Extends(a.picker, named.picker)
  BY <1>2, <1>3, HeadernameFold DEF LineOK, IsState
<1> HIDE DEF named
<1>5. Extends(s.picker, t.picker)
  BY <1>1, <1>2, <1>4, ExtendsTwice DEF LineTold
<1>6. NameIn(line.includee) \in Keys
  BY KeysOfPaths DEF LineOK, NameIn
<1>7. /\ Gives(a.picker, NameIn(line.includee)) \subseteq Gives(t.picker, NameIn(line.includee))
      /\ a.picker.aborted => t.picker.aborted
  BY <1>1, <1>4, <1>6, ExtendsFacts DEF Extends
<1>8. LineTold(s, t, line)
  BY <1>2, <1>5, <1>7 DEF LineTold
<1> QED BY <1>8 DEF t

-----------------------------------------------------------------------------
(* GlobalInv is inductive, given IInv.                                      *)

(* The picker is finalized after the last file is left.                    *)
StillReading ==
  include_stack # <<>> \/ IsSpecialFilename(pp.main_file) => phase = "preprocessing"

GlobalInv == QuotedOK(pp) /\ PickerProofs!PickerInv /\ StillReading

LEMMA PickerIsOK ==
  ASSUME PickerProofs!PickerInv
  PROVE  OK(picker) /\ num_calls \in Nat
<1>1. PickerProofs!IInv
  BY DEF PickerProofs!PickerInv
<1> QED BY <1>1, CallsHaveKeys, PickerProofs!PickerHolds DEF OK

LEMMA MappingsGrow ==
  ASSUME PickerProofs!PickerInv, phase = "preprocessing", phase' = phase,
         Extends(picker, picker'), num_calls' \in Nat,
         declared' = picker'.filepath_include_map,
         UNCHANGED <<to_expand, closing_vars>>
  PROVE  PickerProofs!PickerInv'
<1>1. PickerProofs!Adding /\ PickerProofs!Adding'
  BY DEF PickerProofs!Adding
<1>2. PickerProofs!Grows(picker, picker')
  BY DEF Extends
<1>3. UNCHANGED <<to_expand, PickerProofs!closing_vars>>
  BY DEF closing_vars, PickerProofs!closing_vars
<1> QED BY <1>1, <1>2, <1>3, CallsHaveKeys, PickerProofs!CallKeeps

LEMMA ReadKeeps ==
  ASSUME PickerProofs!PickerInv, NEW s, Read(s), Extends(picker, s.picker)
  PROVE  PickerProofs!PickerInv' /\ picker' = s.picker /\ pp' = s.pp
         /\ phase = "preprocessing" /\ phase' = phase /\ ~picker.aborted
         /\ declared' = picker'.filepath_include_map
<1>1. /\ phase = "preprocessing" /\ phase' = phase /\ picker' = s.picker
      /\ declared' = picker'.filepath_include_map /\ num_calls' = num_calls + 1
      /\ ~picker.aborted /\ UNCHANGED <<to_expand, closing_vars>> /\ pp' = s.pp
  BY DEF Read, GlobalIncludePicker!Call, GlobalIncludePicker!closing_vars, closing_vars
<1>2. num_calls' \in Nat
  BY <1>1, PickerIsOK
<1> QED BY <1>1, <1>2, MappingsGrow

LEMMA SamePicker ==
  ASSUME PickerProofs!PickerInv,
         UNCHANGED <<phase, picker, num_calls, declared, closing_vars>>
  PROVE  PickerProofs!PickerInv'
<1>1. UNCHANGED PickerProofs!vars
  BY DEF PickerProofs!vars, closing_vars
<1> QED BY <1>1, CallsHaveKeys, PickerProofs!StepKeeps

LEMMA LinesOK ==
  ASSUME IInv, NEW line \in Lines, Reading, line.includer = Top.file
  PROVE  LineOK(line) /\ PragmaOK(line.pragma)
BY KeysAssumption, FilesAssumption, TopType DEF LineOK, PragmaOK, IInv, TypeOK, Paths

LEMMA CommentedTold ==
  ASSUME IInv, GlobalInv, NEW line, LineOK(line), PragmaOK(line.pragma)
  PROVE  /\ IsState(Commented(line)) /\ QuotedOK(Commented(line).pp)
         /\ Extends(picker, Commented(line).picker)
<1>1. IsState(Commented(line)) /\ Commenting(pp, Commented(line).pp, line.includer)
  BY CommentedIsState
<1>2. Commented(line).pp.iwyu_file_info_map = pp.iwyu_file_info_map
  BY <1>1 DEF Commenting, SameOutside, PragmaFields, ScopeFields, Fields
<1>3. QuotedOK(Commented(line).pp)
  BY <1>2 DEF GlobalInv, QuotedOK, Seen
<1>4. Now.picker = picker /\ IsState(Now)
  BY NowIsState DEF Now
<1>5. Extends(picker, Commented(line).picker)
  BY <1>4, CommentExtends, PickerIsOK DEF Commented, GlobalInv, LineOK
<1> QED BY <1>1, <1>3, <1>5

LEMMA EnterMainGlobal == ASSUME IInv, GlobalInv, EnterMain PROVE GlobalInv'
<1> DEFINE line == [includer |-> SpecialFilename, includee |-> MainFile,
                    as_written |-> Picker!NotWritten, pragma |-> NoEffect]
           t == FileChanged_EnterFile(Now, line)
<1>1. LineOK(line)
  BY KeysAssumption, FilesAssumption DEF LineOK, Paths
<1>2. IsState(Now) /\ QuotedOK(Now.pp) /\ OK(Now.picker) /\ Now.picker = picker
  BY NowIsState, PickerIsOK DEF GlobalInv, Now
<1>3. Read(t)
  BY DEF EnterMain
<1> HIDE DEF line
<1>4. QuotedOK(t.pp) /\ Extends(picker, t.picker)
  BY <1>1, <1>2, EnteredQuoted, EnteredTold DEF LineTold
<1> HIDE DEF t
<1>5. PickerProofs!PickerInv' /\ pp' = t.pp /\ phase' = "preprocessing"
  BY <1>3, <1>4, ReadKeeps DEF GlobalInv
<1> QED BY <1>4, <1>5 DEF GlobalInv, StillReading, QuotedOK, Seen

LEMMA EnterFileGlobal ==
  ASSUME IInv, GlobalInv, NEW line \in Lines, EnterFile(line) PROVE GlobalInv'
<1> DEFINE s == Commented(line)
           t == FileChanged_EnterFile(s, line)
<1>1. LineOK(line) /\ PragmaOK(line.pragma)
  BY LinesOK DEF EnterFile
<1>2. IsState(s) /\ QuotedOK(s.pp) /\ Extends(picker, s.picker)
  BY <1>1, CommentedTold
<1>3. Read(t)
  BY DEF EnterFile
<1> HIDE DEF s
<1>4. OK(s.picker)
  BY <1>2, ExtendsFacts
<1>5. QuotedOK(t.pp) /\ Extends(s.picker, t.picker)
  BY <1>1, <1>2, <1>4, EnteredQuoted, EnteredTold DEF LineTold
<1> HIDE DEF t
<1>6. Extends(picker, t.picker)
  BY <1>2, <1>5, ExtendsTwice
<1>7. PickerProofs!PickerInv' /\ pp' = t.pp /\ phase' = "preprocessing"
  BY <1>3, <1>6, ReadKeeps DEF GlobalInv
<1> QED BY <1>5, <1>7 DEF GlobalInv, StillReading, QuotedOK, Seen

LEMMA SkipFileGlobal ==
  ASSUME IInv, GlobalInv, NEW line \in Lines, SkipFile(line) PROVE GlobalInv'
<1> DEFINE s == Commented(line)
           t == FileSkipped(s, line)
<1>1. LineOK(line) /\ PragmaOK(line.pragma)
  BY LinesOK DEF SkipFile
<1>2. IsState(s) /\ QuotedOK(s.pp) /\ Extends(picker, s.picker)
  BY <1>1, CommentedTold
<1>3. Read(t)
  BY DEF SkipFile
<1> HIDE DEF s
<1>4. OK(s.picker)
  BY <1>2, ExtendsFacts
<1>5. QuotedOK(t.pp) /\ Extends(s.picker, t.picker)
  BY <1>1, <1>2, <1>4, SkippedQuoted, SkippedTold DEF LineTold
<1> HIDE DEF t
<1>6. Extends(picker, t.picker)
  BY <1>2, <1>5, ExtendsTwice
<1>7. PickerProofs!PickerInv' /\ pp' = t.pp /\ phase' = "preprocessing"
  BY <1>3, <1>6, ReadKeeps DEF GlobalInv
<1> QED BY <1>5, <1>7 DEF GlobalInv, StillReading, QuotedOK, Seen

LEMMA HandleCommentGlobal ==
  ASSUME IInv, GlobalInv, NEW c \in Comments, HandleComment(c) PROVE GlobalInv'
<1> DEFINE t == HandlePragmaComment(Now, c.file, c.pragma)
<1>1. c.file \in Paths /\ PragmaOK(c.pragma)
  BY KeysAssumption, FilesAssumption DEF PragmaOK, Paths
<1>2. IsState(Now) /\ Now.pp = pp /\ OK(Now.picker) /\ Now.picker = picker
  BY NowIsState, PickerIsOK DEF GlobalInv, Now
<1>3. Read(t)
  BY DEF HandleComment
<1>4. Extends(picker, t.picker)
  BY <1>1, <1>2, CommentExtends
<1>5. Commenting(pp, t.pp, c.file)
  BY <1>2, CommentInfo
<1> HIDE DEF t
<1>6. QuotedOK(t.pp)
  <2>1. t.pp.iwyu_file_info_map = pp.iwyu_file_info_map
    BY <1>5 DEF Commenting, SameOutside, PragmaFields, ScopeFields, Fields
  <2> QED BY <2>1 DEF GlobalInv, QuotedOK, Seen
<1>7. PickerProofs!PickerInv' /\ pp' = t.pp /\ phase' = "preprocessing"
  BY <1>3, <1>4, ReadKeeps DEF GlobalInv
<1> QED BY <1>6, <1>7 DEF GlobalInv, StillReading, QuotedOK, Seen

LEMMA UseMacroGlobal ==
  ASSUME IInv, GlobalInv, NEW u \in MacroUses, UseMacro(u) PROVE GlobalInv'
<1>1. u.file \in Seen(pp)
  BY TopType DEF UseMacro, IInv, TypeOK, FilesSeen
<1>2. u.defined_in \in Seen(pp) /\ WellFormed(pp) /\ Seen(pp) \subseteq Paths
  BY DEF UseMacro, IInv, TypeOK, InfoTypeOK, Seen
<1>3. QuotedOK(pp')
  BY <1>1, <1>2, MacroUseQuoted DEF UseMacro, GlobalInv
<1>4. PickerProofs!PickerInv'
  BY SamePicker DEF UseMacro, GlobalInv
<1>5. StillReading'
  <2>1. include_stack # <<>> /\ UNCHANGED <<include_stack, phase>>
    BY DEF UseMacro, Reading
  <2> QED BY <2>1 DEF StillReading, GlobalInv
<1> QED BY <1>3, <1>4, <1>5 DEF GlobalInv, QuotedOK, Seen

LEMMA ExitFileGlobal == ASSUME IInv, GlobalInv, ExitFile PROVE GlobalInv'
<1>1. WellFormed(pp) /\ pp' = FileChanged_ExitToFile(pp, Top.file)
  BY DEF IInv, TypeOK, InfoTypeOK, ExitFile
<1>2. pp'.iwyu_file_info_map = pp.iwyu_file_info_map
  BY <1>1, ExitInfo DEF Left, SameOutside, ScopeFields, Fields
<1>3. PickerProofs!PickerInv'
  BY SamePicker DEF ExitFile, GlobalInv
<1>4. StillReading'
  <2>1. include_stack # <<>> /\ UNCHANGED phase
    <3>1. Len(include_stack) > 1
      BY DEF ExitFile
    <3>2. Len(include_stack) \in Nat /\ DOMAIN include_stack = 1..Len(include_stack)
      BY StackFacts DEF IInv, TypeOK
    <3> QED BY <3>1, <3>2 DEF ExitFile
  <2> QED BY <2>1 DEF StillReading, GlobalInv
<1> QED BY <1>2, <1>3, <1>4 DEF GlobalInv, QuotedOK, Seen

LEMMA EndMainGlobal == ASSUME IInv, GlobalInv, EndMain PROVE GlobalInv'
<1> DEFINE t == HandlePreprocessingDone(Now)
<1>1. IsState(Now) /\ Now.pp = pp /\ OK(Now.picker) /\ Now.picker = picker
      /\ QuotedOK(Now.pp) /\ Seen(pp) \subseteq Paths
  BY NowIsState, PickerIsOK DEF GlobalInv, Now, IInv, TypeOK, InfoTypeOK
<1>2. QuotedOK(t.pp) /\ Extends(picker, t.picker)
  BY <1>1, EndQuoted, DoneExtends
<1>3. /\ pp' = t.pp /\ picker' = t.picker /\ declared' = t.picker.filepath_include_map
      /\ include_stack # <<>> /\ include_stack' = <<>>
      /\ UNCHANGED <<phase, num_calls, closing_vars>>
  <2>1. include_stack # <<>>
    BY DEF EndMain
  <2> QED BY <2>1 DEF EndMain
<1> HIDE DEF t
<1>4. phase = "preprocessing"
  BY <1>3 DEF GlobalInv, StillReading
<1>5. PickerProofs!PickerInv'
  <2>1. num_calls' \in Nat /\ UNCHANGED <<to_expand, closing_vars>>
    BY <1>3, PickerIsOK DEF GlobalInv, closing_vars
  <2> QED BY <1>2, <1>3, <1>4, <2>1, MappingsGrow DEF GlobalInv
<1> QED BY <1>2, <1>3, <1>4, <1>5 DEF GlobalInv, StillReading, QuotedOK, Seen

LEMMA FinalizeGlobal == ASSUME IInv, GlobalInv, FinalizeAddedIncludes PROVE GlobalInv'
<1>1. GlobalIncludePicker!FinalizeAddedIncludes /\ UNCHANGED pp_vars
      /\ include_stack = <<>> /\ ~IsSpecialFilename(pp.main_file)
  BY DEF FinalizeAddedIncludes
<1>2. PickerProofs!PickerInv'
  <2>1. PickerProofs!FinalizeAddedIncludes
    BY <1>1, SameFinalization
  <2>2. PickerProofs!Next
    BY <2>1 DEF PickerProofs!Next
  <2> QED BY <2>2, CallsHaveKeys, PickerProofs!StepKeeps DEF GlobalInv
<1> QED BY <1>1, <1>2 DEF GlobalInv, StillReading, QuotedOK, Seen, pp_vars

LEMMA PopulateQuoted ==
  ASSUME NEW p, WellFormed(p), NEW picked
  PROVE  SameQuoted(p, PopulateIntendsToProvideMap(
                    PopulateTransitiveIncludeMap(FinalizeProtectedIncludes(p, picked)),
                    picked))
<1> DEFINE old == p.iwyu_file_info_map
           Reexported(f, i) == Picker!HasMapping(picked, i, f)
           always(f) == {i \in old[f].direct_includes \cap p.always_keep_files :
                            ~Reexported(f, i)}
           reexported(f) == {i \in old[f].direct_includes : Reexported(f, i)}
           uses(f) == old[f].include_uses \cup reexported(f) \cup always(f)
           kept(f) == old[f].kept_includes \cup always(f)
           info(f) == [old[f] EXCEPT !.include_uses = uses(f), !.kept_includes = kept(f)]
           infos == [f \in Seen(p) |-> info(f)]
           finalized == FinalizeProtectedIncludes(p, picked)
           transitive == PopulateTransitiveIncludeMap(finalized)
           q == PopulateIntendsToProvideMap(transitive, picked)
<1>1. finalized = [p EXCEPT !.iwyu_file_info_map = infos]
  BY DEF FinalizeProtectedIncludes, Seen
<1>2. ASSUME NEW f \in Seen(p) PROVE info(f).quoted_file = old[f].quoted_file
  <2>1. DOMAIN old[f] = InfoFields
    BY DEF WellFormed, Seen
  <2> HIDE DEF kept, uses, old
  <2> QED BY <2>1 DEF InfoFields
<1>3. DOMAIN infos = Seen(p) /\ \A f \in Seen(p) : infos[f] = info(f)
  OBVIOUS
<1>4. DOMAIN finalized = Fields
  <2> HIDE DEF infos, finalized
  <2> QED BY <1>1 DEF WellFormed
<1> HIDE DEF info, infos, finalized
<1>5. SameQuoted(p, finalized)
  BY <1>1, <1>2, <1>3, OtherQuoted
<1>6. \E v : transitive = [finalized EXCEPT !.transitive_include_map = v]
  BY DEF PopulateTransitiveIncludeMap
<1> HIDE DEF transitive
<1>7. \E v : q = [transitive EXCEPT !.intends_to_provide_map = v]
  BY DEF PopulateIntendsToProvideMap
<1> HIDE DEF q
<1>8. q.iwyu_file_info_map = finalized.iwyu_file_info_map
  <2>1. transitive.iwyu_file_info_map = finalized.iwyu_file_info_map /\ DOMAIN transitive = Fields
    BY <1>4, <1>6 DEF Fields
  <2> QED BY <2>1, <1>7 DEF Fields
<1> QED BY <1>5, <1>8, SameMapQuoted, SameQuotedTwice DEF q, transitive, finalized

LEMMA PopulateGlobal == ASSUME IInv, GlobalInv, PopulateMaps PROVE GlobalInv'
<1>1. WellFormed(pp)
  BY DEF IInv, TypeOK, InfoTypeOK
<1>2. SameQuoted(pp, pp')
  BY <1>1, PopulateQuoted DEF PopulateMaps
<1>3. QuotedOK(pp')
  BY <1>2, SameQuotedOK DEF GlobalInv
<1>4. PickerProofs!PickerInv'
  BY SamePicker DEF PopulateMaps, GlobalInv
<1>5. pp'.main_file = pp.main_file
  BY PopulateStep DEF SameKnowledge
<1> QED BY <1>3, <1>4, <1>5 DEF GlobalInv, StillReading, QuotedOK, Seen, PopulateMaps

LEMMA NextGlobal == ASSUME IInv, GlobalInv, [Next]_vars PROVE GlobalInv'
<1>1. CASE EnterMain
  BY <1>1, EnterMainGlobal
<1>2. ASSUME NEW line \in Lines, EnterFile(line) PROVE GlobalInv'
  BY <1>2, EnterFileGlobal
<1>3. ASSUME NEW line \in Lines, SkipFile(line) PROVE GlobalInv'
  BY <1>3, SkipFileGlobal
<1>4. ASSUME NEW c \in Comments, HandleComment(c) PROVE GlobalInv'
  BY <1>4, HandleCommentGlobal
<1>5. ASSUME NEW u \in MacroUses, UseMacro(u) PROVE GlobalInv'
  BY <1>5, UseMacroGlobal
<1>6. CASE ExitFile
  BY <1>6, ExitFileGlobal
<1>7. CASE EndMain
  BY <1>7, EndMainGlobal
<1>8. CASE FinalizeAddedIncludes
  BY <1>8, FinalizeGlobal
<1>9. CASE PopulateMaps
  BY <1>9, PopulateGlobal
<1>10. CASE UNCHANGED vars
  <2>1. UNCHANGED <<phase, picker, num_calls, declared, closing_vars>>
        /\ UNCHANGED <<include_stack, pp>>
    BY <1>10 DEF vars, pp_vars
  <2>2. PickerProofs!PickerInv'
    BY <2>1, SamePicker DEF GlobalInv
  <2> QED BY <2>1, <2>2 DEF GlobalInv, StillReading, QuotedOK, Seen
<1> QED BY <1>1, <1>2, <1>3, <1>4, <1>5, <1>6, <1>7, <1>8, <1>9, <1>10 DEF Next

LEMMA EmptyOK == OK(Picker!EmptyPicker)
BY CallsHaveKeys, SameAdding DEF OK, PickerProofs!PickerOK, PickerProofs!PickerFields,
   PickerProofs!MapOK, PickerProofs!EmptyPicker

LEMMA InitGlobal == Init => GlobalInv
<1> SUFFICES ASSUME Init PROVE GlobalInv
  OBVIOUS
<1>1. QuotedOK(pp)
  BY DEF Init, EmptyInfo, QuotedOK, Seen
<1>2. OK(picker)
  BY EmptyOK, InternalFold, ExtendsFacts DEF Init
<1>3. PickerProofs!PickerInv
  <2>1. declared = PickerProofs!include_map
    BY DEF Init, PickerProofs!include_map
  <2>2. phase = "preprocessing" /\ num_calls \in Nat /\ to_expand = {} /\ seen_nodes = <<>>
        /\ loops = <<>> /\ cycle_found = FALSE
    BY DEF Init
  <2> QED BY <1>2, <2>1, <2>2, CallsHaveKeys, PickerProofs!GivenMappings DEF OK
<1> QED BY <1>1, <1>3 DEF GlobalInv, StillReading, Init

(* Whatever order files, #includes and pragmas come in, what they tell the *)
(* global include picker only adds mappings between keys, and the picker   *)
(* is finalized after all of it: the picker's own invariant and that of    *)
(* the search that closes its mappings hold in the preprocessing too.      *)
THEOREM GlobalPickerInvariant == Spec => []GlobalInv
<1>1. IInv /\ GlobalInv /\ [Next]_vars => GlobalInv'
  BY NextGlobal
<1> QED BY InitGlobal, <1>1, InductiveInvariant, PTL DEF Spec

-----------------------------------------------------------------------------
(* What re-exports an include keeps it.                                     *)

ReexportsUsed(q, picked) ==
  \A f \in Seen(q) : \A i \in q.iwyu_file_info_map[f].direct_includes :
     Picker!HasMapping(picked, i, f) => i \in q.iwyu_file_info_map[f].include_uses

LEMMA PopulateUses ==
  ASSUME NEW p, WellFormed(p), NEW picked
  PROVE  ReexportsUsed(PopulateIntendsToProvideMap(
                    PopulateTransitiveIncludeMap(FinalizeProtectedIncludes(p, picked)),
                    picked), picked)
<1> DEFINE old == p.iwyu_file_info_map
           Reexported(f, i) == Picker!HasMapping(picked, i, f)
           always(f) == {i \in old[f].direct_includes \cap p.always_keep_files :
                            ~Reexported(f, i)}
           reexported(f) == {i \in old[f].direct_includes : Reexported(f, i)}
           uses(f) == old[f].include_uses \cup reexported(f) \cup always(f)
           kept(f) == old[f].kept_includes \cup always(f)
           info(f) == [old[f] EXCEPT !.include_uses = uses(f), !.kept_includes = kept(f)]
           infos == [f \in Seen(p) |-> info(f)]
           finalized == FinalizeProtectedIncludes(p, picked)
           transitive == PopulateTransitiveIncludeMap(finalized)
           q == PopulateIntendsToProvideMap(transitive, picked)
<1>1. finalized = [p EXCEPT !.iwyu_file_info_map = infos]
  BY DEF FinalizeProtectedIncludes, Seen
<1>2. ASSUME NEW f \in Seen(p)
      PROVE  info(f).include_uses = uses(f) /\ info(f).direct_includes = old[f].direct_includes
  <2>1. DOMAIN old[f] = InfoFields
    BY DEF WellFormed, Seen
  <2> HIDE DEF kept, uses, old
  <2> QED BY <2>1 DEF InfoFields
<1>21. ASSUME NEW f \in Seen(p), NEW i \in old[f].direct_includes, Reexported(f, i)
       PROVE  i \in uses(f)
  BY <1>21
<1>3. DOMAIN infos = Seen(p) /\ \A f \in Seen(p) : infos[f] = info(f)
  OBVIOUS
<1> HIDE DEF info, infos, finalized, uses
<1>4. DOMAIN finalized = Fields /\ finalized.iwyu_file_info_map = infos
  BY <1>1 DEF WellFormed, Fields
<1>6. \E v : transitive = [finalized EXCEPT !.transitive_include_map = v]
  BY DEF PopulateTransitiveIncludeMap
<1> HIDE DEF transitive
<1>7. \E v : q = [transitive EXCEPT !.intends_to_provide_map = v]
  BY DEF PopulateIntendsToProvideMap
<1> HIDE DEF q
<1>8. q.iwyu_file_info_map = infos
  <2>1. transitive.iwyu_file_info_map = finalized.iwyu_file_info_map /\ DOMAIN transitive = Fields
    BY <1>4, <1>6 DEF Fields
  <2> QED BY <1>4, <2>1, <1>7 DEF Fields
<1> HIDE DEF old
<1>9. ReexportsUsed(q, picked)
  BY <1>2, <1>21, <1>3, <1>8 DEF ReexportsUsed, Seen
<1> QED BY <1>9 DEF q, transitive, finalized

(* A mapping of the picker is one that HasMapping finds.                   *)
LEMMA TargetsAreMappings ==
  ASSUME NEW i, NEW f, NameIn(f) \in Gives(picker, NameIn(i))
  PROVE  Picker!HasMapping(picker, i, f)
<1> DEFINE values == Picker!ValuesOf(picker.filepath_include_map, NameIn(i))
<1>1. Gives(picker, NameIn(i)) = {v.quoted_include : v \in {values[j] : j \in DOMAIN values}}
  BY DEF Gives, PickerProofs!Targets, PickerProofs!ValuesOf, PickerProofs!FindInMap,
     PickerProofs!Range, Picker!ValuesOf, Picker!FindInMap
<1> HIDE DEF values
<1>2. \E j \in DOMAIN values : values[j].quoted_include = NameIn(f)
  BY <1>1
<1>3. Picker!ContainsQuotedInclude(values, NameIn(f))
  BY <1>2 DEF Picker!ContainsQuotedInclude
<1> QED BY <1>3, SameNames DEF Picker!HasMapping, NameIn, values

FinalInv ==
  /\ Done => phase = "final" /\ include_stack = <<>> /\ ~IsSpecialFilename(pp.main_file)
  /\ ReexportersKeepIncludes

LEMMA NotDoneYet ==
  ASSUME FinalInv, phase = "preprocessing",
         pp'.transitive_include_map = pp.transitive_include_map
  PROVE  FinalInv'
BY DEF FinalInv, Done, ReexportersKeepIncludes

LEMMA SameFinal ==
  ASSUME FinalInv, UNCHANGED <<pp, include_stack, phase, declared>>
  PROVE  FinalInv'
<1>1. \A key : (GlobalIncludePicker!LeadsTo(key))' = GlobalIncludePicker!LeadsTo(key)
  BY DEF GlobalIncludePicker!LeadsTo
<1>2. \A key : (GlobalIncludePicker!AwayFromCycles(key))' <=> GlobalIncludePicker!AwayFromCycles(key)
  BY <1>1 DEF GlobalIncludePicker!AwayFromCycles
<1> QED BY <1>1, <1>2 DEF FinalInv, Done, ReexportersKeepIncludes, Info

LEMMA PopulateFinal ==
  ASSUME IInv, GlobalInv, FinalInv, PopulateMaps
  PROVE  FinalInv'
<1>1. phase = "final" /\ UNCHANGED <<include_stack, phase, picker, declared>>
  BY DEF PopulateMaps
<1>2. WellFormed(pp) /\ \A f \in Seen(pp) : Direct(pp, f) \subseteq Files
  BY DEF IInv, TypeOK, InfoTypeOK
<1>3. ReexportsUsed(pp', picker)
  BY <1>2, PopulateUses DEF PopulateMaps
<1>4. /\ SameInfos(pp, pp') /\ Seen(pp') = Seen(pp) /\ pp'.main_file = pp.main_file
  BY PopulateStep DEF SameKnowledge
<1>5. PickerProofs!Closed
  BY CallsHaveKeys, PickerProofs!KeptAndClosed DEF GlobalInv
<1>6. \A f \in Seen(pp') : \A i \in pp'.iwyu_file_info_map[f].direct_includes : i \in Files
  BY <1>2, <1>4 DEF SameInfos, Direct
<1>7. \A key : (GlobalIncludePicker!LeadsTo(key))' = GlobalIncludePicker!LeadsTo(key)
  BY <1>1 DEF GlobalIncludePicker!LeadsTo
<1>8. \A key : (GlobalIncludePicker!AwayFromCycles(key))' <=> GlobalIncludePicker!AwayFromCycles(key)
  BY <1>7 DEF GlobalIncludePicker!AwayFromCycles
<1>9. ASSUME NEW f \in Seen(pp'), NEW i \in pp'.iwyu_file_info_map[f].direct_includes,
             GlobalIncludePicker!AwayFromCycles(NameIn(i)),
             NameIn(f) \in GlobalIncludePicker!LeadsTo(NameIn(i))
      PROVE  i \in pp'.iwyu_file_info_map[f].include_uses
  <2>1. NameIn(i) \in Keys
    BY <1>6, <1>9, KeysOfPaths DEF NameIn, Paths
  <2>2. NameIn(f) \in PickerProofs!Targets(PickerProofs!include_map, NameIn(i))
    BY <1>1, <1>5, <1>9, <2>1, SameLeadsTo DEF PickerProofs!Closed
  <2>3. NameIn(f) \in Gives(picker, NameIn(i))
    BY <2>2 DEF Gives, PickerProofs!include_map
  <2> QED BY <1>3, <1>9, <2>3, TargetsAreMappings DEF ReexportsUsed
<1>10. ReexportersKeepIncludes'
  BY <1>7, <1>8, <1>9 DEF ReexportersKeepIncludes, Info, NameIn, Seen
<1>11. ~IsSpecialFilename(pp'.main_file) /\ include_stack = <<>>
  BY <1>1, <1>4 DEF GlobalInv, StillReading
<1> QED BY <1>1, <1>10, <1>11 DEF FinalInv

LEMMA FinalizeFinal ==
  ASSUME GlobalInv, FinalInv, FinalizeAddedIncludes PROVE FinalInv'
<1>1. phase # "final"
  BY DEF FinalizeAddedIncludes, GlobalIncludePicker!FinalizeAddedIncludes,
     GlobalIncludePicker!StartExpanding, GlobalIncludePicker!ExpandRegex,
     GlobalIncludePicker!StartClosing, GlobalIncludePicker!EnterRoot,
     GlobalIncludePicker!EnterChild, GlobalIncludePicker!PassChild,
     GlobalIncludePicker!Leave, GlobalIncludePicker!Finish, GlobalIncludePicker!Looping
<1>2. pp' = pp
  BY DEF FinalizeAddedIncludes, pp_vars
<1> QED BY <1>1, <1>2 DEF FinalInv, Done, ReexportersKeepIncludes

LEMMA LineNotDone ==
  ASSUME NEW r, NEW e, LineRead(pp, pp', r, e)
  PROVE  pp'.transitive_include_map = pp.transitive_include_map
BY DEF LineRead

LEMMA NextFinal == ASSUME IInv, GlobalInv, FinalInv, [Next]_vars PROVE FinalInv'
<1>0. include_stack # <<>> => phase = "preprocessing"
  BY DEF GlobalInv, StillReading
<1>1. CASE EnterMain
  <2>1. LineRead(pp, pp', SpecialFilename, MainFile)
    BY <1>1, EnterMainStep
  <2>2. phase = "preprocessing"
    BY <1>1, EnterMainStep DEF GlobalInv, StillReading
  <2> QED BY <2>1, <2>2, LineNotDone, NotDoneYet
<1>2. ASSUME NEW line \in Lines, EnterFile(line) PROVE FinalInv'
  <2>1. LineRead(pp, pp', line.includer, line.includee)
    BY <1>2, EnterFileStep
  <2>2. include_stack # <<>>
    BY <1>2 DEF EnterFile, Reading
  <2> QED BY <1>0, <2>1, <2>2, LineNotDone, NotDoneYet
<1>3. ASSUME NEW line \in Lines, SkipFile(line) PROVE FinalInv'
  <2>1. LineRead(pp, pp', line.includer, line.includee)
    BY <1>3, SkipFileStep
  <2>2. include_stack # <<>>
    BY <1>3 DEF SkipFile, Reading
  <2> QED BY <1>0, <2>1, <2>2, LineNotDone, NotDoneYet
<1>4. ASSUME NEW c \in Comments, HandleComment(c) PROVE FinalInv'
  <2>1. Commenting(pp, pp', c.file)
    BY <1>4, HandleCommentStep
  <2>2. include_stack # <<>>
    BY <1>4 DEF HandleComment, Reading
  <2>3. pp'.transitive_include_map = pp.transitive_include_map
    BY <2>1 DEF Commenting, SameOutside, Fields, PragmaFields, ScopeFields
  <2> QED BY <1>0, <2>2, <2>3, NotDoneYet
<1>5. ASSUME NEW u \in MacroUses, UseMacro(u) PROVE FinalInv'
  <2>1. u.file \in Seen(pp)
    BY <1>5, TopType DEF UseMacro, IInv, TypeOK, FilesSeen
  <2>2. u.defined_in \in Seen(pp) /\ WellFormed(pp)
    BY <1>5 DEF UseMacro, IInv, TypeOK, InfoTypeOK, Seen
  <2>3. SameButUses(pp, ReportMacroUse(pp, u.file, u.defined_in))
    BY <2>1, <2>2, MacroUseInfo
  <2>4. pp'.transitive_include_map = pp.transitive_include_map
    BY <1>5, <2>3 DEF UseMacro, SameButUses, SameOutside, Fields
  <2>5. include_stack # <<>>
    BY <1>5 DEF UseMacro, Reading
  <2> QED BY <1>0, <2>4, <2>5, NotDoneYet
<1>6. CASE ExitFile
  <2>1. WellFormed(pp) /\ pp' = FileChanged_ExitToFile(pp, Top.file)
    BY <1>6 DEF IInv, TypeOK, InfoTypeOK, ExitFile
  <2>2. pp'.transitive_include_map = pp.transitive_include_map
    BY <2>1, ExitInfo DEF Left, SameOutside, ScopeFields, Fields
  <2>3. include_stack # <<>>
    <3>1. Len(include_stack) > 1
      BY <1>6 DEF ExitFile
    <3>2. Len(include_stack) \in Nat /\ DOMAIN include_stack = 1..Len(include_stack)
      BY StackFacts DEF IInv, TypeOK
    <3> QED BY <3>1, <3>2
  <2> QED BY <1>0, <2>2, <2>3, NotDoneYet
<1>7. CASE EndMain
  <2> DEFINE left == FileChanged_ExitToFile(pp, pp.main_file)
  <2>1. WellFormed(pp)
    BY DEF IInv, TypeOK, InfoTypeOK
  <2>2. left.transitive_include_map = pp.transitive_include_map
    BY <2>1, ExitInfo DEF Left, SameOutside, ScopeFields, Fields
  <2>3. SameButUses(left, pp')
    BY <1>7, NowIsState, EndInfo DEF EndMain
  <2> HIDE DEF left
  <2>4. pp'.transitive_include_map = pp.transitive_include_map
    BY <2>2, <2>3 DEF SameButUses, SameOutside, Fields
  <2>5. include_stack # <<>>
    BY <1>7 DEF EndMain
  <2> QED BY <1>0, <2>4, <2>5, NotDoneYet
<1>8. CASE FinalizeAddedIncludes
  BY <1>8, FinalizeFinal
<1>9. CASE PopulateMaps
  BY <1>9, PopulateFinal
<1>10. CASE UNCHANGED vars
  <2>1. UNCHANGED <<pp, include_stack, phase, declared>>
    BY <1>10 DEF vars, pp_vars
  <2> QED BY <2>1, SameFinal
<1> QED BY <1>1, <1>2, <1>3, <1>4, <1>5, <1>6, <1>7, <1>8, <1>9, <1>10 DEF Next

LEMMA InitFinal == Init => FinalInv
BY DEF Init, EmptyInfo, FinalInv, Done, ReexportersKeepIncludes

(* FinalizeProtectedIncludes: a file that the finalized picker offers in   *)
(* place of one of its includes, directly or through other mappings, keeps *)
(* the include. The mappings of a cycle are the exception.                 *)
THEOREM ReexportersKeepIncludesAlways == Spec => []ReexportersKeepIncludes
<1>1. IInv /\ GlobalInv /\ FinalInv /\ [Next]_vars => FinalInv'
  BY NextFinal
<1>2. FinalInv => ReexportersKeepIncludes
  BY DEF FinalInv
<1> QED BY InitFinal, <1>1, <1>2, InductiveInvariant, GlobalPickerInvariant, PTL DEF Spec

-----------------------------------------------------------------------------
(* The scopes after a comment, exactly.                                     *)

(* The begin_exports scopes after a comment.                               *)
ExportsAfter(p, file, pragma) ==
  LET open == p.begin_exports_location_stack
  IN  CASE HasOpenBeginExports(p, file) /\ pragma.kind = "end_exports" -> Front(open)
        [] /\ ~HasOpenBeginExports(p, file) /\ ~HasOpenBeginKeep(p, file)
           /\ pragma.kind = "begin_exports" -> Append(open, file)
        [] OTHER -> open

LEMMA OpenPragmaExports ==
  ASSUME NEW s, IsState(s), NEW file, NEW pragma
  PROVE  HandleOpenPragma(s, file, pragma).pp.begin_exports_location_stack =
           IF pragma.kind = "begin_exports"
           THEN Append(s.pp.begin_exports_location_stack, file)
           ELSE s.pp.begin_exports_location_stack
<1> DEFINE t == HandleOpenPragma(s, file, pragma)
           p == s.pp
<1>1. DOMAIN s = {"pp", "picker"} /\ DOMAIN p = Fields
  BY DEF IsState, WellFormed
<1>2. CASE pragma.kind = "begin_exports"
  <2> DEFINE scopes == Append(p.begin_exports_location_stack, file)
             q == [p EXCEPT !.begin_exports_location_stack = scopes]
  <2>1. t = [s EXCEPT !.pp = q]
    BY <1>2 DEF HandleOpenPragma
  <2>2. q.begin_exports_location_stack = scopes
    BY <1>1 DEF Fields
  <2> HIDE DEF q, t, scopes
  <2>3. t.pp = q
    BY <1>1, <2>1
  <2> QED BY <1>2, <2>2, <2>3 DEF t, scopes
<1>3. CASE pragma.kind # "begin_exports"
  <2>1. \/ t = s
        \/ \E v : t = [s EXCEPT !.picker = v]
        \/ \E x \in PragmaFields \ {"begin_exports_location_stack"} :
              \E v : t = [s EXCEPT !.pp = [p EXCEPT ![x] = v]]
    <3>1. CASE pragma.kind = "begin_keep"
      <4>1. t = [s EXCEPT !.pp = [p EXCEPT !.begin_keep_location_stack = Append(@, file)]]
        BY <3>1 DEF HandleOpenPragma
      <4> QED BY <4>1 DEF PragmaFields, ScopeFields
    <3>2. CASE pragma.kind = "no_include"
      <4>1. t = [s EXCEPT !.pp = [p EXCEPT !.no_include_map = @ \cup {<<file, pragma.arg>>}]]
        BY <3>2 DEF HandleOpenPragma
      <4> QED BY <4>1 DEF PragmaFields
    <3>3. CASE pragma.kind = "no_forward_declare"
      <4>1. t = [s EXCEPT !.pp = [p EXCEPT !.no_forward_declare_map =
                                    @ \cup {<<file, pragma.arg>>}]]
        BY <3>3 DEF HandleOpenPragma
      <4> QED BY <4>1 DEF PragmaFields
    <3>4. CASE pragma.kind = "associated"
      <4>1. t = [s EXCEPT !.pp = [p EXCEPT !.associated_pragma_location =
                                    IF @ = NoFile THEN file ELSE @]]
        BY <3>4 DEF HandleOpenPragma
      <4> QED BY <4>1 DEF PragmaFields
    <3>5. CASE pragma.kind = "always_keep"
      <4>1. t = [s EXCEPT !.pp = [p EXCEPT !.always_keep_files = @ \cup {file}]]
        BY <3>5 DEF HandleOpenPragma
      <4> QED BY <4>1 DEF PragmaFields
    <3>6. CASE pragma.kind \in {"private_include", "private", "friend"}
      BY <3>6 DEF HandleOpenPragma
    <3>7. CASE pragma.kind \notin {"begin_keep", "no_include", "no_forward_declare",
                 "associated", "always_keep", "private_include", "private", "friend"}
      BY <1>3, <3>7 DEF HandleOpenPragma
    <3> QED BY <3>1, <3>2, <3>3, <3>4, <3>5, <3>6, <3>7
  <2> HIDE DEF t
  <2>2. CASE t = s \/ \E v : t = [s EXCEPT !.picker = v]
    <3>1. t.pp = p
      BY <1>1, <2>2
    <3> QED BY <1>3, <3>1 DEF t
  <2>3. ASSUME NEW x \in PragmaFields \ {"begin_exports_location_stack"}, NEW v,
               t = [s EXCEPT !.pp = [p EXCEPT ![x] = v]]
        PROVE  t.pp.begin_exports_location_stack = p.begin_exports_location_stack
    <3> DEFINE q == [p EXCEPT ![x] = v]
    <3>1. q.begin_exports_location_stack = p.begin_exports_location_stack
      BY <1>1, <2>3 DEF Fields
    <3> HIDE DEF q
    <3>2. t.pp = q
      BY <1>1, <2>3 DEF q
    <3> QED BY <3>1, <3>2
  <2> QED BY <1>3, <2>1, <2>2, <2>3 DEF t
<1> QED BY <1>2, <1>3

LEMMA CommentExports ==
  ASSUME NEW s, IsState(s), NEW file, NEW pragma
  PROVE  HandlePragmaComment(s, file, pragma).pp.begin_exports_location_stack
           = ExportsAfter(s.pp, file, pragma)
<1> DEFINE t == HandlePragmaComment(s, file, pragma)
           p == s.pp
<1>1. DOMAIN s = {"pp", "picker"} /\ DOMAIN p = Fields
  BY DEF IsState, WellFormed
<1>2. CASE HasOpenBeginExports(p, file)
  <2> DEFINE scopes == Front(p.begin_exports_location_stack)
             q == [p EXCEPT !.begin_exports_location_stack = scopes]
  <2>1. t = IF pragma.kind # "end_exports" THEN s ELSE [s EXCEPT !.pp = q]
    BY <1>2 DEF HandlePragmaComment
  <2>2. q.begin_exports_location_stack = scopes
    BY <1>1 DEF Fields
  <2> HIDE DEF q, t, scopes
  <2>3. t.pp = IF pragma.kind # "end_exports" THEN p ELSE q
    BY <1>1, <2>1
  <2> QED BY <1>2, <2>2, <2>3 DEF t, scopes, ExportsAfter
<1>3. CASE ~HasOpenBeginExports(p, file) /\ HasOpenBeginKeep(p, file)
  <2> DEFINE scopes == Front(p.begin_keep_location_stack)
             q == [p EXCEPT !.begin_keep_location_stack = scopes]
  <2>1. t = IF pragma.kind # "end_keep" THEN s ELSE [s EXCEPT !.pp = q]
    BY <1>3 DEF HandlePragmaComment
  <2>2. q.begin_exports_location_stack = p.begin_exports_location_stack
    BY <1>1 DEF Fields
  <2> HIDE DEF q, t, scopes
  <2>3. t.pp = IF pragma.kind # "end_keep" THEN p ELSE q
    BY <1>1, <2>1
  <2> QED BY <1>3, <2>2, <2>3 DEF t, ExportsAfter
<1>4. CASE ~HasOpenBeginExports(p, file) /\ ~HasOpenBeginKeep(p, file)
  <2>1. t = HandleOpenPragma(s, file, pragma)
    BY <1>4 DEF HandlePragmaComment
  <2> QED BY <1>4, <2>1, OpenPragmaExports DEF ExportsAfter
<1> QED BY <1>2, <1>3, <1>4

(* Nothing else about a line opens or closes a scope.                      *)
LEMMA LineScopes ==
  ASSUME NEW s, IsState(s), NEW line, NEW q,
         q = FileChanged_EnterFile(s, line).pp \/ q = FileSkipped(s, line).pp
  PROVE  /\ q.begin_exports_location_stack = s.pp.begin_exports_location_stack
         /\ q.begin_keep_location_stack = s.pp.begin_keep_location_stack
<1> DEFINE c == AddDirectInclude(s, line).pp
<1>1. IncludeAdded(s.pp, c, line.includer, line.includee)
  BY AddDirectIncludeInfo
<1>2. SameOutside(c, q, EnteredFields)
  <2>1. CASE q = FileChanged_EnterFile(s, line).pp
    BY <2>1, EnteredInfo DEF Entered
  <2>2. CASE q = FileSkipped(s, line).pp
    <3>1. SameOutside(c, q, ReportedFields)
      BY <2>2, SkippedInfo DEF Noted
    <3> QED BY <3>1 DEF SameOutside, EnteredFields
  <2> QED BY <2>1, <2>2
<1> HIDE DEF c
<1>3. /\ c.begin_exports_location_stack = s.pp.begin_exports_location_stack
      /\ c.begin_keep_location_stack = s.pp.begin_keep_location_stack
  BY <1>1 DEF IncludeAdded, SameOutside, AssociationFields, CountedFields, Fields
<1>4. /\ q.begin_exports_location_stack = c.begin_exports_location_stack
      /\ q.begin_keep_location_stack = c.begin_keep_location_stack
  BY <1>2 DEF SameOutside, EnteredFields, ReportedFields, Fields
<1> QED BY <1>3, <1>4

-----------------------------------------------------------------------------
(* A frame that is noted as a scope is that of an open one.                 *)

(* A frame whose lines are noted as exported: its file has an open scope.  *)
FrameOpen(frame, exports) ==
  frame.exports => /\ frame.live /\ ~IsSpecialFilename(frame.file)
                   /\ \E j \in DOMAIN exports : exports[j] = frame.file

ExportsOpen == \A i \in DOMAIN include_stack : FrameOpen(include_stack[i], Exports)

LEMMA CommentOpens ==
  ASSUME IInv, ScopesInv, ExportsOpen, Reading, NEW pragma,
         IsSpecialFilename(Top.file) => pragma.kind # "begin_exports",
         NEW after, after = ExportsAfter(pp, Top.file, pragma)
  PROVE  \A i \in DOMAIN include_stack : FrameOpen(Scoped(pragma)[i], after)
<1> DEFINE n == Len(include_stack)
           stack == Scoped(pragma)
           file == Top.file
<1>1. /\ n \in Nat \ {0} /\ DOMAIN include_stack = 1..n /\ n \in DOMAIN include_stack
      /\ Top = include_stack[n]
      /\ include_stack[n].live /\ include_stack[n].file = file
  BY TopType, StackFacts DEF IInv, TypeOK
<1>2. /\ \A i \in 1..n : i # n => stack[i] = include_stack[i]
      /\ stack[n].file = file /\ stack[n].live
      /\ stack[n].exports = IF pragma.kind = "begin_exports" THEN ~HasOpenBeginKeep(pp, file)
                            ELSE Top.exports /\ pragma.kind # "end_exports"
  BY <1>1, ScopedFacts DEF ScopedFrames, SameFiles, IInv, TypeOK
<1> HIDE DEF stack
<1>3. Exports \in Seq(Paths) /\ DOMAIN Exports = 1..Len(Exports) /\ Len(Exports) \in Nat
  BY DEF IInv, TypeOK, InfoTypeOK
<1>4. HasOpenBeginExports(pp, file) <=> Exports # <<>> /\ Last(Exports) = file
  BY DEF HasOpenBeginExports, Exports
<1>5. ASSUME NEW i \in 1..n, i # n PROVE FrameOpen(stack[i], after)
  <2>1. FrameOpen(include_stack[i], Exports) /\ i \in DOMAIN include_stack
        /\ stack[i] = include_stack[i]
    BY <1>1, <1>2, <1>5 DEF ExportsOpen
  <2>2. SUFFICES ASSUME include_stack[i].exports
        PROVE  \E j \in DOMAIN after : after[j] = include_stack[i].file
    BY <2>1 DEF FrameOpen
  <2>3. PICK j \in DOMAIN Exports : Exports[j] = include_stack[i].file
    BY <2>1, <2>2 DEF FrameOpen
  <2>4. include_stack[i].file # file
    BY <1>1, <1>5, <2>1, <2>2 DEF FrameOpen, ScopesInv, LiveOnce
  <2>5. CASE after = Exports
    BY <2>3, <2>5
  <2>6. CASE after = Append(Exports, file)
    <3>1. j \in DOMAIN after /\ after[j] = Exports[j]
      BY <1>3, <2>6
    <3> QED BY <2>3, <3>1
  <2>7. CASE HasOpenBeginExports(pp, file) /\ after = Front(Exports)
    <3>1. Exports # <<>> /\ Exports[Len(Exports)] = file
      BY <1>3, <1>4, <2>7, LastIsElement
    <3>2. j # Len(Exports)
      BY <2>3, <2>4, <3>1
    <3>3. j \in 1 .. Len(Exports) - 1
      BY <1>3, <3>2
    <3>4. /\ DOMAIN after = 1 .. Len(Exports) - 1
          /\ \A k \in 1 .. Len(Exports) - 1 : after[k] = Exports[k]
      <4>1. Front(Exports) \in Seq(Paths) /\ Len(Front(Exports)) = Len(Exports) - 1
            /\ \A k \in 1 .. Len(Exports) - 1 : Front(Exports)[k] = Exports[k]
        BY <1>3, <3>1, FrontFacts
      <4>2. DOMAIN Front(Exports) = 1 .. Len(Exports) - 1
        BY <4>1
      <4> QED BY <4>1, <4>2, <2>7
    <3> QED BY <2>3, <3>3, <3>4
  <2> QED BY <2>5, <2>6, <2>7 DEF ExportsAfter, Exports, file
<1>6. FrameOpen(stack[n], after)
  <2>1. SUFFICES ASSUME stack[n].exports
        PROVE  ~IsSpecialFilename(file) /\ \E j \in DOMAIN after : after[j] = file
    BY <1>2 DEF FrameOpen
  <2>2. CASE pragma.kind = "begin_exports"
    <3>1. ~HasOpenBeginKeep(pp, file) /\ ~IsSpecialFilename(file)
      BY <1>2, <2>1, <2>2
    <3>2. CASE HasOpenBeginExports(pp, file)
      <4>1. after = Exports
        BY <2>2, <3>2 DEF ExportsAfter, Exports, file
      <4>2. Len(Exports) \in DOMAIN Exports /\ Exports[Len(Exports)] = file
        BY <1>3, <1>4, <3>2, LastIsElement
      <4> QED BY <3>1, <4>1, <4>2
    <3>3. CASE ~HasOpenBeginExports(pp, file)
      <4>1. after = Append(Exports, file)
        BY <2>2, <3>1, <3>3 DEF ExportsAfter, Exports, file
      <4>2. Len(Exports) + 1 \in DOMAIN after /\ after[Len(Exports) + 1] = file
        BY <1>3, <4>1
      <4> QED BY <3>1, <4>2
    <3> QED BY <3>2, <3>3
  <2>3. CASE pragma.kind # "begin_exports"
    <3>1. Top.exports /\ pragma.kind # "end_exports"
      BY <1>2, <2>1, <2>3
    <3>2. after = Exports
      BY <2>3, <3>1 DEF ExportsAfter, Exports
    <3> QED BY <1>1, <3>1, <3>2 DEF ExportsOpen, FrameOpen
  <2> QED BY <2>2, <2>3
<1>7. \A i \in 1..n : FrameOpen(stack[i], after)
  BY <1>5, <1>6
<1> HIDE DEF n
<1> QED BY <1>1, <1>7 DEF stack

(* The scope of the file that is read is the innermost, and no other.      *)
LEMMA OpenIsTop ==
  ASSUME IInv, Reading, NEW exports \in Seq(Paths), NEW keeps,
         Nested(exports, include_stack), Disjoint(exports, keeps),
         keeps \in Seq(Paths),
         NEW j \in DOMAIN exports, exports[j] = Top.file
  PROVE  IsOpen(exports, Top.file) /\ ~IsOpen(keeps, Top.file)
<1> DEFINE n == Len(include_stack)
<1>1. /\ n \in Nat \ {0} /\ DOMAIN include_stack = 1..n
      /\ Top = include_stack[n] /\ include_stack[n].live
  BY TopType, StackFacts DEF IInv, TypeOK
<1> HIDE DEF n
<1>2. IsOpen(exports, Top.file)
  BY <1>1, TopIsLast DEF IsOpen
<1>3. IsOpen(keeps, Top.file) => Len(keeps) \in DOMAIN keeps /\ keeps[Len(keeps)] = Top.file
  BY LastIsElement DEF IsOpen
<1> QED BY <1>2, <1>3 DEF Disjoint

NoPragmaInBuiltIn(pragma, file) ==
  IsSpecialFilename(file) => pragma.kind # "begin_exports"

LEMMA LinePragma ==
  ASSUME NEW line \in Lines PROVE NoPragmaInBuiltIn(line.pragma, line.includer)
BY FilesAssumption DEF NoPragmaInBuiltIn, NoEffect

LEMMA CommentPragma ==
  ASSUME NEW c \in Comments PROVE NoPragmaInBuiltIn(c.pragma, c.file)
BY FilesAssumption DEF NoPragmaInBuiltIn, IsSpecialFilename

LEMMA LineExports ==
  ASSUME IInv, NEW line, LineOK(line), NEW q,
         \/ q = FileChanged_EnterFile(Commented(line), line).pp
         \/ q = FileSkipped(Commented(line), line).pp
  PROVE  /\ q.begin_exports_location_stack = ExportsAfter(pp, line.includer, line.pragma)
         /\ q.begin_exports_location_stack = Commented(line).pp.begin_exports_location_stack
         /\ q.begin_keep_location_stack = Commented(line).pp.begin_keep_location_stack
<1>1. IsState(Commented(line))
  BY CommentedIsState
<1>2. /\ q.begin_exports_location_stack = Commented(line).pp.begin_exports_location_stack
      /\ q.begin_keep_location_stack = Commented(line).pp.begin_keep_location_stack
  BY <1>1, LineScopes
<1>3. Commented(line).pp.begin_exports_location_stack
        = ExportsAfter(pp, line.includer, line.pragma)
  <2>1. IsState(Now) /\ Now.pp = pp
    BY NowIsState DEF Now
  <2> QED BY <2>1, CommentExports DEF Commented
<1> QED BY <1>2, <1>3

-----------------------------------------------------------------------------
(* ExportsOpen is inductive, given the invariants before it.                *)

LEMMA EnterMainOpen == ASSUME IInv, EnterMain PROVE ExportsOpen'
<1> DEFINE bottom == [file |-> MainFile, exports |-> FALSE, live |-> TRUE]
           built_in == [file |-> SpecialFilename, exports |-> FALSE, live |-> TRUE]
<1>1. include_stack' = << bottom, built_in >>
  BY EnterMainStep
<1>2. DOMAIN include_stack' = 1..2 /\ ~include_stack'[1].exports /\ ~include_stack'[2].exports
  BY <1>1
<1> HIDE DEF bottom, built_in
<1> QED BY <1>2 DEF ExportsOpen, FrameOpen

LEMMA EnterFileOpen ==
  ASSUME IInv, GlobalInv, ScopesInv, ExportsOpen, NEW line \in Lines, EnterFile(line)
  PROVE  ExportsOpen'
<1> DEFINE n == Len(include_stack)
           q == FileChanged_EnterFile(Commented(line), line).pp
<1>1. /\ line.includee \in Paths /\ line.includer = Top.file
      /\ include_stack' = Push(Scoped(line.pragma), line.includee)
      /\ StackTypeOK /\ Reading /\ LineOK(line)
  BY EnterFileStep, LinesOK DEF EnterFile, IInv, TypeOK, Paths
<1>2. EnteredStack(line.pragma, line.includee, include_stack')
  BY <1>1, EnteredFrames
<1>3. pp' = q
  BY DEF EnterFile, Read
<1>4. q.begin_exports_location_stack = ExportsAfter(pp, line.includer, line.pragma)
  BY <1>1, LineExports
<1> HIDE DEF q
<1>5. Exports' = ExportsAfter(pp, Top.file, line.pragma)
  BY <1>1, <1>3, <1>4 DEF Exports
<1>6. \A i \in DOMAIN include_stack : FrameOpen(Scoped(line.pragma)[i], Exports')
  BY <1>1, <1>5, LinePragma, CommentOpens DEF NoPragmaInBuiltIn
<1>7. \A i \in DOMAIN include_stack' : FrameOpen(include_stack'[i], Exports')
  <2>1. /\ n \in Nat /\ DOMAIN include_stack = 1..n /\ DOMAIN include_stack' = 1 .. n + 1
        /\ \A i \in 1..n : include_stack'[i] = Scoped(line.pragma)[i]
        /\ ~include_stack'[n + 1].exports
    BY <1>2 DEF EnteredStack
  <2> HIDE DEF n
  <2>2. \A i \in 1 .. n + 1 : i \in 1..n \/ i = n + 1
    BY <2>1
  <2> QED BY <1>6, <2>1, <2>2 DEF FrameOpen
<1> QED BY <1>7 DEF ExportsOpen

LEMMA ScopedOpen ==
  ASSUME IInv, ScopesInv, ExportsOpen, Reading, NEW pragma,
         NoPragmaInBuiltIn(pragma, Top.file),
         Exports' = ExportsAfter(pp, Top.file, pragma),
         include_stack' = Scoped(pragma)
  PROVE  ExportsOpen'
<1>1. DOMAIN include_stack' = DOMAIN include_stack
  BY ScopedFacts DEF ScopedFrames, SameFiles, IInv, TypeOK
<1>2. \A i \in DOMAIN include_stack : FrameOpen(Scoped(pragma)[i], Exports')
  BY CommentOpens DEF NoPragmaInBuiltIn
<1>3. \A i \in DOMAIN include_stack' : FrameOpen(include_stack'[i], Exports')
  BY <1>1, <1>2
<1> QED BY <1>3 DEF ExportsOpen

LEMMA SkipFileOpen ==
  ASSUME IInv, GlobalInv, ScopesInv, ExportsOpen, NEW line \in Lines, SkipFile(line)
  PROVE  ExportsOpen'
<1> DEFINE q == FileSkipped(Commented(line), line).pp
<1>1. /\ line.includer = Top.file /\ include_stack' = Scoped(line.pragma)
      /\ Reading /\ LineOK(line) /\ NoPragmaInBuiltIn(line.pragma, Top.file)
  BY LinesOK, LinePragma DEF SkipFile
<1>2. pp' = q
  BY DEF SkipFile, Read
<1>3. q.begin_exports_location_stack = ExportsAfter(pp, line.includer, line.pragma)
  BY <1>1, LineExports
<1> HIDE DEF q
<1>4. Exports' = ExportsAfter(pp, Top.file, line.pragma)
  BY <1>1, <1>2, <1>3 DEF Exports
<1> QED BY <1>1, <1>4, ScopedOpen

LEMMA HandleCommentOpen ==
  ASSUME IInv, ScopesInv, ExportsOpen, NEW c \in Comments, HandleComment(c)
  PROVE  ExportsOpen'
<1> DEFINE q == HandlePragmaComment(Now, c.file, c.pragma).pp
<1>1. /\ c.file = Top.file /\ include_stack' = Scoped(c.pragma) /\ Reading
      /\ NoPragmaInBuiltIn(c.pragma, Top.file)
  BY CommentPragma DEF HandleComment
<1>2. pp' = q
  BY DEF HandleComment, Read
<1>3. q.begin_exports_location_stack = ExportsAfter(pp, c.file, c.pragma)
  <2>1. IsState(Now) /\ Now.pp = pp
    BY NowIsState DEF Now
  <2> QED BY <2>1, CommentExports
<1> HIDE DEF q
<1>4. Exports' = ExportsAfter(pp, Top.file, c.pragma)
  BY <1>1, <1>2, <1>3 DEF Exports
<1> QED BY <1>1, <1>4, ScopedOpen

LEMMA ExitFileOpen ==
  ASSUME IInv, ScopesInv, ExportsOpen, ExitFile PROVE ExportsOpen'
<1> DEFINE n == Len(include_stack)
           file == Top.file
<1>1. /\ n \in Nat /\ n > 1 /\ DOMAIN include_stack = 1..n
      /\ DOMAIN include_stack' = 1 .. n - 1
      /\ \A i \in DOMAIN include_stack' :
            /\ include_stack'[i].file = include_stack[i].file
            /\ include_stack'[i].live = include_stack[i].live
  BY ExitFrames DEF IInv, TypeOK
<1>2. \A i \in 1 .. n - 1 : include_stack'[i].exports =>
                              include_stack[i].exports /\ include_stack[i].file # file
  <2> TAKE i \in 1 .. n - 1
  <2> DEFINE Frames == [file : Paths, exports : BOOLEAN, live : BOOLEAN]
             f == include_stack[i]
             v == f.exports /\ f.file # file
  <2>1. include_stack'[i] = [f EXCEPT !.exports = v]
    BY DEF ExitFile
  <2>2. i \in DOMAIN include_stack /\ include_stack \in Seq(Frames)
    BY <1>1 DEF IInv, TypeOK, StackTypeOK
  <2>3. f \in Frames
    <3> HIDE DEF Frames
    <3> QED BY <2>2
  <2>4. "exports" \in DOMAIN f
    BY <2>3
  <2> HIDE DEF f, v, Frames
  <2>5. include_stack'[i].exports = v
    BY <2>1, <2>4
  <2> QED BY <2>5 DEF f, v
<1>3. ScopesLeft(pp, pp', Top.file)
  BY ExitFileStep
<1>4. Exports' = IF IsOpen(Exports, file) THEN Front(Exports) ELSE Exports
  BY <1>3 DEF ScopesLeft, HasOpenBeginExports, IsOpen, Exports
<1>5. Exports \in Seq(Paths) /\ DOMAIN Exports = 1..Len(Exports) /\ Len(Exports) \in Nat
  BY DEF IInv, TypeOK, InfoTypeOK
<1> HIDE DEF file, n
<1>6. ASSUME NEW j \in DOMAIN Exports, Exports[j] # file
      PROVE  j \in DOMAIN Exports' /\ Exports'[j] = Exports[j]
  <2>1. CASE IsOpen(Exports, file)
    <3>1. Exports # <<>> /\ Exports[Len(Exports)] = file
      BY <1>5, <2>1, LastIsElement DEF IsOpen
    <3>2. j \in 1 .. Len(Exports) - 1
      BY <1>5, <1>6, <3>1
    <3>3. /\ Len(Front(Exports)) = Len(Exports) - 1 /\ Front(Exports) \in Seq(Paths)
          /\ \A k \in 1 .. Len(Exports) - 1 : Front(Exports)[k] = Exports[k]
      BY <1>5, <3>1, FrontFacts
    <3>4. DOMAIN Front(Exports) = 1 .. Len(Exports) - 1
      BY <3>3
    <3> QED BY <1>4, <2>1, <3>2, <3>3, <3>4
  <2>2. CASE ~IsOpen(Exports, file)
    BY <1>4, <2>2
  <2> QED BY <2>1, <2>2
<1>7. ASSUME NEW i \in DOMAIN include_stack' PROVE FrameOpen(include_stack'[i], Exports')
  <2>1. SUFFICES ASSUME include_stack'[i].exports
        PROVE  /\ include_stack'[i].live /\ ~IsSpecialFilename(include_stack'[i].file)
               /\ \E j \in DOMAIN Exports' : Exports'[j] = include_stack'[i].file
    BY DEF FrameOpen
  <2>2. i \in 1 .. n - 1 /\ i \in DOMAIN include_stack
    BY <1>1
  <2>3. include_stack[i].exports /\ include_stack[i].file # file
    BY <1>2, <2>1, <2>2
  <2>4. /\ include_stack[i].live /\ ~IsSpecialFilename(include_stack[i].file)
        /\ \E j \in DOMAIN Exports : Exports[j] = include_stack[i].file
    BY <2>2, <2>3 DEF ExportsOpen, FrameOpen
  <2> QED BY <1>1, <1>6, <2>2, <2>3, <2>4
<1> QED BY <1>7 DEF ExportsOpen

LEMMA SameOpen ==
  ASSUME ExportsOpen, UNCHANGED include_stack, Exports' = Exports
  PROVE  ExportsOpen'
BY DEF ExportsOpen, FrameOpen

LEMMA NextOpen ==
  ASSUME IInv, GlobalInv, ScopesInv, ExportsOpen, [Next]_vars PROVE ExportsOpen'
<1>1. CASE EnterMain
  BY <1>1, EnterMainOpen
<1>2. ASSUME NEW line \in Lines, EnterFile(line) PROVE ExportsOpen'
  BY <1>2, EnterFileOpen
<1>3. ASSUME NEW line \in Lines, SkipFile(line) PROVE ExportsOpen'
  BY <1>3, SkipFileOpen
<1>4. ASSUME NEW c \in Comments, HandleComment(c) PROVE ExportsOpen'
  BY <1>4, HandleCommentOpen
<1>5. ASSUME NEW u \in MacroUses, UseMacro(u) PROVE ExportsOpen'
  BY <1>5, UseMacroStep, SameOpen DEF UseMacro, Exports, Keeps
<1>6. CASE ExitFile
  BY <1>6, ExitFileOpen
<1>7. CASE EndMain
  <2>1. DOMAIN include_stack' = {}
    BY <1>7 DEF EndMain
  <2> QED BY <2>1 DEF ExportsOpen
<1>8. CASE FinalizeAddedIncludes
  BY <1>8, SameOpen DEF FinalizeAddedIncludes, pp_vars, Exports
<1>9. CASE PopulateMaps
  BY <1>9, PopulateStep, SameOpen DEF PopulateMaps, Exports, Keeps
<1>10. CASE UNCHANGED vars
  BY <1>10, SameOpen DEF vars, pp_vars, Exports
<1> QED BY <1>1, <1>2, <1>3, <1>4, <1>5, <1>6, <1>7, <1>8, <1>9, <1>10 DEF Next

LEMMA InitOpen == Init => ExportsOpen
BY DEF Init, ExportsOpen

-----------------------------------------------------------------------------
(* ExportedGiven is inductive, given the invariants before it.              *)

(* What is noted as exported has been given to the picker.                 *)
ExportedGiven ==
  ~picker.aborted => \A e \in exported :
     /\ e[1] \in Paths /\ e[2] \in Paths
     /\ NameIn(e[1]) \in PickerProofs!Targets(declared, NameIn(e[2]))

LEMMA GivenStays ==
  ASSUME PickerProofs!PickerInv, ExportedGiven, Extends(picker, picker'),
         declared' = picker'.filepath_include_map, ~picker'.aborted, NEW e \in exported
  PROVE  /\ e[1] \in Paths /\ e[2] \in Paths
         /\ NameIn(e[1]) \in PickerProofs!Targets(declared', NameIn(e[2]))
<1>1. /\ e[1] \in Paths /\ e[2] \in Paths
      /\ NameIn(e[1]) \in PickerProofs!Targets(declared, NameIn(e[2]))
  BY DEF ExportedGiven, Extends
<1>2. NameIn(e[2]) \in Keys
  BY <1>1, KeysOfPaths DEF NameIn
<1>3. NameIn(e[1]) \in Gives(picker, NameIn(e[2]))
  BY <1>1, <1>2, CallsHaveKeys, PickerProofs!KeptAndClosed
     DEF Gives, PickerProofs!include_map
<1>4. NameIn(e[1]) \in Gives(picker', NameIn(e[2]))
  BY <1>2, <1>3, ExtendsFacts
<1> QED BY <1>1, <1>4 DEF Gives

LEMMA SameGiven ==
  ASSUME ExportedGiven, UNCHANGED <<exported, picker, declared>> PROVE ExportedGiven'
BY DEF ExportedGiven

LEMMA ReadGiven ==
  ASSUME PickerProofs!PickerInv, ExportedGiven, Extends(picker, picker'),
         declared' = picker'.filepath_include_map, UNCHANGED exported
  PROVE  ExportedGiven'
BY GivenStays DEF ExportedGiven

(* An #include line in an open scope, with nothing else to keep it.        *)
LEMMA LineGiven ==
  ASSUME IInv, GlobalInv, ScopesInv, ExportsOpen, ExportedGiven, NEW line \in Lines,
         Reading, line.includer = Top.file, NoteExported(line),
         NEW t, Read(t), LineTold(Commented(line), t, line),
         \/ t = FileChanged_EnterFile(Commented(line), line)
         \/ t = FileSkipped(Commented(line), line),
         ScopesAfterComment(pp, pp', Top.file)
  PROVE  ExportedGiven'
<1> DEFINE s == Commented(line)
           n == Len(include_stack)
<1>1. LineOK(line) /\ PragmaOK(line.pragma)
  BY LinesOK
<1>2. Extends(picker, s.picker) /\ Extends(s.picker, t.picker)
  BY <1>1, CommentedTold DEF LineTold
<1>3. Extends(picker, t.picker)
  BY <1>2, ExtendsTwice
<1>4. picker' = t.picker /\ pp' = t.pp /\ declared' = picker'.filepath_include_map
  BY <1>3, ReadKeeps DEF GlobalInv
<1>5. /\ t.pp.begin_exports_location_stack = ExportsAfter(pp, line.includer, line.pragma)
      /\ t.pp.begin_exports_location_stack = s.pp.begin_exports_location_stack
      /\ t.pp.begin_keep_location_stack = s.pp.begin_keep_location_stack
  BY <1>1, LineExports
<1>6. /\ Exports' = ExportsAfter(pp, Top.file, line.pragma)
      /\ Exports' = s.pp.begin_exports_location_stack
      /\ Keeps' = s.pp.begin_keep_location_stack
  BY <1>4, <1>5 DEF Exports, Keeps
<1> HIDE DEF s
<1>7. /\ Last(Scoped(line.pragma)).exports
      /\ line.pragma.kind # "keep" /\ line.includee \notin KeepGlobs
      /\ ~picker'.aborted
      => NameIn(line.includer) \in PickerProofs!Targets(declared', NameIn(line.includee))
  <2> SUFFICES ASSUME Last(Scoped(line.pragma)).exports,
                      line.pragma.kind # "keep", line.includee \notin KeepGlobs,
                      ~picker'.aborted
               PROVE  NameIn(line.includer) \in
                         PickerProofs!Targets(declared', NameIn(line.includee))
    OBVIOUS
  <2>1. /\ Last(Scoped(line.pragma)) = Scoped(line.pragma)[n]
        /\ Scoped(line.pragma)[n].file = include_stack[n].file
        /\ n \in DOMAIN include_stack /\ include_stack[n] = Top
    BY ScopedFacts, TopType DEF ScopedFrames, SameFiles, IInv, TypeOK
  <2>2. FrameOpen(Scoped(line.pragma)[n], Exports')
    BY <1>6, <2>1, LinePragma, CommentOpens DEF NoPragmaInBuiltIn
  <2>3. /\ ~IsSpecialFilename(Top.file)
        /\ \E j \in DOMAIN Exports' : Exports'[j] = Top.file
    BY <2>1, <2>2 DEF FrameOpen
  <2>4. /\ Nested(Exports', include_stack) /\ Disjoint(Exports', Keeps')
    BY CommentScopes
  <2>5. Exports' \in Seq(Paths) /\ Keeps' \in Seq(Paths)
    BY TopType, ScopesTyped DEF IInv, TypeOK, InfoTypeOK
  <2>6. IsOpen(Exports', Top.file) /\ ~IsOpen(Keeps', Top.file)
    BY <2>3, <2>4, <2>5, OpenIsTop
  <2>7. HasOpenBeginExports(s.pp, line.includer) /\ ~HasOpenBeginKeep(s.pp, line.includer)
    BY <1>6, <2>6 DEF IsOpen, HasOpenBeginExports, HasOpenBeginKeep
  <2>8. NameIn(line.includer) \in Gives(t.picker, NameIn(line.includee))
    BY <1>4, <2>3, <2>7 DEF LineTold, Protected, s
  <2> QED BY <1>4, <2>8 DEF Gives
<1>8. SUFFICES ASSUME ~picker'.aborted, NEW e \in exported'
               PROVE  /\ e[1] \in Paths /\ e[2] \in Paths
                      /\ NameIn(e[1]) \in PickerProofs!Targets(declared', NameIn(e[2]))
  BY DEF ExportedGiven
<1>9. CASE e \in exported
  BY <1>3, <1>4, <1>8, <1>9, GivenStays DEF GlobalInv
<1>10. CASE e \notin exported
  <2>1. /\ Last(Scoped(line.pragma)).exports
        /\ line.pragma.kind # "keep" /\ line.includee \notin KeepGlobs
        /\ e = <<line.includer, line.includee>>
    BY <1>8, <1>10 DEF NoteExported
  <2>2. line.includer \in Paths /\ line.includee \in Paths
    BY <1>1 DEF LineOK
  <2> QED BY <1>7, <1>8, <2>1, <2>2
<1> QED BY <1>9, <1>10

LEMMA EnterMainGiven ==
  ASSUME IInv, GlobalInv, ExportedGiven, EnterMain PROVE ExportedGiven'
<1> DEFINE line == [includer |-> SpecialFilename, includee |-> MainFile,
                    as_written |-> Picker!NotWritten, pragma |-> NoEffect]
           t == FileChanged_EnterFile(Now, line)
<1>1. LineOK(line)
  BY KeysAssumption, FilesAssumption DEF LineOK, Paths
<1>2. IsState(Now) /\ OK(Now.picker) /\ Now.picker = picker
  BY NowIsState, PickerIsOK DEF GlobalInv, Now
<1>3. Read(t) /\ UNCHANGED exported
  BY DEF EnterMain
<1> HIDE DEF line
<1>4. Extends(picker, t.picker)
  BY <1>1, <1>2, EnteredTold DEF LineTold
<1> HIDE DEF t
<1>5. picker' = t.picker /\ declared' = picker'.filepath_include_map
  BY <1>3, <1>4, ReadKeeps DEF GlobalInv
<1> QED BY <1>3, <1>4, <1>5, ReadGiven DEF GlobalInv

LEMMA LineIsTold ==
  ASSUME IInv, GlobalInv, NEW line, LineOK(line), PragmaOK(line.pragma)
  PROVE  /\ LineTold(Commented(line), FileChanged_EnterFile(Commented(line), line), line)
         /\ LineTold(Commented(line), FileSkipped(Commented(line), line), line)
<1> DEFINE s == Commented(line)
<1>1. IsState(s) /\ OK(s.picker)
  BY CommentedTold, ExtendsFacts
<1> HIDE DEF s
<1>2. /\ LineTold(s, FileChanged_EnterFile(s, line), line)
      /\ LineTold(s, FileSkipped(s, line), line)
  BY <1>1, EnteredTold, SkippedTold
<1> QED BY <1>2 DEF s

LEMMA EnterFileGiven ==
  ASSUME IInv, GlobalInv, ScopesInv, ExportsOpen, ExportedGiven,
         NEW line \in Lines, EnterFile(line)
  PROVE  ExportedGiven'
<1> DEFINE t == FileChanged_EnterFile(Commented(line), line)
<1>1. Reading /\ line.includer = Top.file /\ NoteExported(line) /\ Read(t)
  BY DEF EnterFile
<1>2. LineTold(Commented(line), t, line)
  BY <1>1, LinesOK, LineIsTold
<1>3. ScopesAfterComment(pp, pp', Top.file)
  BY EnterFileStep DEF LineRead
<1> HIDE DEF t
<1>4. t = FileChanged_EnterFile(Commented(line), line)
  BY DEF t
<1> QED BY <1>1, <1>2, <1>3, <1>4, LineGiven

LEMMA SkipFileGiven ==
  ASSUME IInv, GlobalInv, ScopesInv, ExportsOpen, ExportedGiven,
         NEW line \in Lines, SkipFile(line)
  PROVE  ExportedGiven'
<1> DEFINE t == FileSkipped(Commented(line), line)
<1>1. Reading /\ line.includer = Top.file /\ NoteExported(line) /\ Read(t)
  BY DEF SkipFile
<1>2. LineTold(Commented(line), t, line)
  BY <1>1, LinesOK, LineIsTold
<1>3. ScopesAfterComment(pp, pp', Top.file)
  BY SkipFileStep DEF LineRead
<1> HIDE DEF t
<1>4. t = FileSkipped(Commented(line), line)
  BY DEF t
<1> QED BY <1>1, <1>2, <1>3, <1>4, LineGiven

LEMMA HandleCommentGiven ==
  ASSUME IInv, GlobalInv, ExportedGiven, NEW c \in Comments, HandleComment(c)
  PROVE  ExportedGiven'
<1> DEFINE t == HandlePragmaComment(Now, c.file, c.pragma)
<1>1. c.file \in Paths /\ PragmaOK(c.pragma)
  BY KeysAssumption, FilesAssumption DEF PragmaOK, Paths
<1>2. IsState(Now) /\ OK(Now.picker) /\ Now.picker = picker
  BY NowIsState, PickerIsOK DEF GlobalInv, Now
<1>3. Read(t) /\ UNCHANGED exported
  BY DEF HandleComment
<1>4. Extends(picker, t.picker)
  BY <1>1, <1>2, CommentExtends
<1> HIDE DEF t
<1>5. picker' = t.picker /\ declared' = picker'.filepath_include_map
  BY <1>3, <1>4, ReadKeeps DEF GlobalInv
<1> QED BY <1>3, <1>4, <1>5, ReadGiven DEF GlobalInv

LEMMA EndMainGiven ==
  ASSUME IInv, GlobalInv, ExportedGiven, EndMain PROVE ExportedGiven'
<1> DEFINE t == HandlePreprocessingDone(Now)
<1>1. IsState(Now) /\ Now.pp = pp /\ OK(Now.picker) /\ Now.picker = picker
      /\ QuotedOK(Now.pp) /\ Seen(pp) \subseteq Paths
  BY NowIsState, PickerIsOK DEF GlobalInv, Now, IInv, TypeOK, InfoTypeOK
<1>2. Extends(picker, t.picker)
  BY <1>1, DoneExtends
<1>3. /\ picker' = t.picker /\ declared' = t.picker.filepath_include_map
      /\ UNCHANGED exported
  BY DEF EndMain
<1> HIDE DEF t
<1> QED BY <1>2, <1>3, ReadGiven DEF GlobalInv

LEMMA FinalizeGiven ==
  ASSUME IInv, GlobalInv, ExportedGiven, FinalizeAddedIncludes PROVE ExportedGiven'
<1>1. GlobalIncludePicker!FinalizeAddedIncludes /\ UNCHANGED exported
  BY DEF FinalizeAddedIncludes, pp_vars
<1>2. /\ \A k \in Keys : PickerProofs!Targets(declared, k)
                            \subseteq PickerProofs!Targets(declared', k)
      /\ picker.aborted => picker'.aborted
  BY <1>1, SameFinalization, CallsHaveKeys, PickerProofs!FinalizationKeeps DEF GlobalInv
<1>3. \A e \in exported : /\ e[1] \in Paths /\ e[2] \in Paths
                          => NameIn(e[2]) \in Keys
  BY KeysOfPaths DEF NameIn
<1> QED BY <1>1, <1>2, <1>3 DEF ExportedGiven

LEMMA NextGiven ==
  ASSUME IInv, GlobalInv, ScopesInv, ExportsOpen, ExportedGiven, [Next]_vars
  PROVE  ExportedGiven'
<1>1. CASE EnterMain
  BY <1>1, EnterMainGiven
<1>2. ASSUME NEW line \in Lines, EnterFile(line) PROVE ExportedGiven'
  BY <1>2, EnterFileGiven
<1>3. ASSUME NEW line \in Lines, SkipFile(line) PROVE ExportedGiven'
  BY <1>3, SkipFileGiven
<1>4. ASSUME NEW c \in Comments, HandleComment(c) PROVE ExportedGiven'
  BY <1>4, HandleCommentGiven
<1>5. ASSUME NEW u \in MacroUses, UseMacro(u) PROVE ExportedGiven'
  BY <1>5, SameGiven DEF UseMacro
<1>6. CASE ExitFile
  BY <1>6, SameGiven DEF ExitFile
<1>7. CASE EndMain
  BY <1>7, EndMainGiven
<1>8. CASE FinalizeAddedIncludes
  BY <1>8, FinalizeGiven
<1>9. CASE PopulateMaps
  BY <1>9, SameGiven DEF PopulateMaps
<1>10. CASE UNCHANGED vars
  BY <1>10, SameGiven DEF vars, pp_vars
<1> QED BY <1>1, <1>2, <1>3, <1>4, <1>5, <1>6, <1>7, <1>8, <1>9, <1>10 DEF Next

LEMMA InitGiven == Init => ExportedGiven
BY DEF Init, ExportedGiven

(* begin_exports: each #include of the scope is exported, and stays so     *)
(* through whatever is read after it and through the picker's              *)
(* finalization, when every file that is included has an include guard or  *)
(* #pragma once.                                                           *)
THEOREM ScopedIncludesExportedAlways ==
  ASSUME IncludesGuarded PROVE Spec => []ScopedIncludesExported
<1> DEFINE Inv == ScopesInv /\ ExportsOpen /\ ExportedGiven
<1>1. Init => Inv
  BY InitScopes, InitOpen, InitGiven
<1>2. IInv /\ GlobalInv /\ Inv /\ [Next]_vars => Inv'
  BY NextPreservesScopes, NextOpen, NextGiven
<1>3. GlobalInv /\ Inv => ScopedIncludesExported
  <2> SUFFICES ASSUME GlobalInv, ExportedGiven, ~picker.aborted, NEW e \in exported
               PROVE  Picker!HasMapping(picker, e[2], e[1])
    BY DEF ScopedIncludesExported
  <2>1. /\ e[2] \in Paths
        /\ NameIn(e[1]) \in PickerProofs!Targets(declared, NameIn(e[2]))
    BY DEF ExportedGiven
  <2>2. NameIn(e[2]) \in Keys
    BY <2>1, KeysOfPaths DEF NameIn
  <2>3. NameIn(e[1]) \in Gives(picker, NameIn(e[2]))
    BY <2>1, <2>2, CallsHaveKeys, PickerProofs!KeptAndClosed
       DEF Gives, PickerProofs!include_map, GlobalInv
  <2> QED BY <2>3, TargetsAreMappings
<1> QED BY <1>1, <1>2, <1>3, InductiveInvariant, GlobalPickerInvariant, PTL DEF Spec
=============================================================================
