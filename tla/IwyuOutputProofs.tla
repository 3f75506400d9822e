--------------------------- MODULE IwyuOutputProofs ---------------------------
(* Theorems about IwyuOutput, for any translation units.                    *)
EXTENDS IwyuOutput, RecursionLemmas

-----------------------------------------------------------------------------
(* Sequences of anything. *)
Elements(s) == {s[i] : i \in DOMAIN s}

IsSeq(s) == s \in Seq(Elements(s))

LEMMA IsSeqIfDomain ==
  ASSUME NEW s, NEW n \in Nat, DOMAIN s = 1..n, s = [i \in DOMAIN s |-> s[i]]
  PROVE  IsSeq(s) /\ Len(s) = n
<1>1. s \in [1..n -> Elements(s)]
  BY DEF Elements
<1> DEFINE E == Elements(s)
<1> HIDE DEF E
<1>2. s \in Seq(E) /\ Len(s) = n
  BY <1>1 DEF E
<1> QED BY <1>2 DEF E, IsSeq

LEMMA SeqDomain ==
  ASSUME NEW s, IsSeq(s)
  PROVE  /\ Len(s) \in Nat /\ DOMAIN s = 1 .. Len(s)
         /\ s = [i \in DOMAIN s |-> s[i]]
<1> DEFINE E == Elements(s)
<1>1. s \in Seq(E)
  BY DEF IsSeq
<1> HIDE DEF E
<1> QED BY <1>1

LEMMA EmptyIsSeq == IsSeq(<<>>)
BY IsSeqIfDomain DEF IsSeq

LEMMA SameDomainIsSeq ==
  ASSUME NEW s, IsSeq(s), NEW t, DOMAIN t = DOMAIN s, t = [i \in DOMAIN t |-> t[i]]
  PROVE  IsSeq(t) /\ Len(t) = Len(s)
BY SeqDomain, IsSeqIfDomain

LEMMA Appended ==
  ASSUME NEW s, IsSeq(s), NEW e
  PROVE  /\ IsSeq(Append(s, e))
         /\ DOMAIN Append(s, e) = DOMAIN s \cup {Len(s) + 1}
         /\ \A i \in DOMAIN s : Append(s, e)[i] = s[i]
         /\ Append(s, e)[Len(s) + 1] = e
<1> DEFINE E == Elements(s) \cup {e}
           n == Len(s)
<1>1. s \in Seq(E)
  <2>1. n \in Nat /\ DOMAIN s = 1..n /\ s = [i \in DOMAIN s |-> s[i]]
    BY SeqDomain
  <2>2. s \in [1..n -> E]
    BY <2>1 DEF Elements
  <2> HIDE DEF E, n
  <2> QED BY <2>1, <2>2
<1>2. e \in E
  OBVIOUS
<1> HIDE DEF E
<1>3. /\ Append(s, e) \in Seq(E) /\ Len(Append(s, e)) = n + 1
      /\ n \in Nat /\ DOMAIN s = 1..n
      /\ \A i \in 1..n : Append(s, e)[i] = s[i]
      /\ Append(s, e)[n + 1] = e
  BY <1>1, <1>2
<1> DEFINE t == Append(s, e)
<1> HIDE DEF t
<1>4. DOMAIN t = 1 .. n + 1 /\ t = [i \in DOMAIN t |-> t[i]] /\ n + 1 \in Nat
  <2>1. t \in Seq(E) /\ Len(t) = n + 1 /\ n \in Nat
    BY <1>3 DEF t
  <2> HIDE DEF n
  <2> QED BY <2>1
<1>5. IsSeq(t)
  BY <1>4, IsSeqIfDomain
<1>6. DOMAIN t = DOMAIN s \cup {n + 1}
  BY <1>3, <1>4
<1> QED BY <1>3, <1>5, <1>6 DEF t

LEMMA Joined ==
  ASSUME NEW s, IsSeq(s), NEW t, IsSeq(t)
  PROVE  /\ IsSeq(s \o t)
         /\ \A i \in DOMAIN (s \o t) : (s \o t)[i] \in Elements(s) \cup Elements(t)
<1> DEFINE E == Elements(s) \cup Elements(t)
<1>1. s \in Seq(E) /\ t \in Seq(E)
  <2>1. /\ Len(s) \in Nat /\ DOMAIN s = 1 .. Len(s) /\ s = [i \in DOMAIN s |-> s[i]]
        /\ Len(t) \in Nat /\ DOMAIN t = 1 .. Len(t) /\ t = [i \in DOMAIN t |-> t[i]]
    BY SeqDomain
  <2>2. s \in [1 .. Len(s) -> E] /\ t \in [1 .. Len(t) -> E]
    BY <2>1 DEF Elements
  <2> HIDE DEF E
  <2> QED BY <2>1, <2>2
<1> HIDE DEF E
<1>2. s \o t \in Seq(E)
  BY <1>1
<1> DEFINE r == s \o t
<1> HIDE DEF r
<1>3. Len(r) \in Nat /\ DOMAIN r = 1 .. Len(r) /\ r = [i \in DOMAIN r |-> r[i]]
  <2>1. r \in Seq(E)
    BY <1>2 DEF r
  <2> QED BY <2>1
<1>4. IsSeq(r)
  BY <1>3, IsSeqIfDomain
<1>5. \A i \in DOMAIN r : r[i] \in E
  BY <1>2 DEF r
<1> QED BY <1>4, <1>5 DEF r, E

LEMMA SetToSeqIsSeq ==
  ASSUME NEW S, IsFiniteSet(S)
  PROVE  IsSeq(SetToSeq(S)) /\ \A i \in DOMAIN SetToSeq(S) : SetToSeq(S)[i] \in S
<1> DEFINE n == Cardinality(S)
<1>1. n \in Nat
  BY FS_CardinalityType
<1>2. ExistsBijection(1..n, S)
  BY FS_CardinalityType
<1>3. \E f \in [1..n -> S] : IsInjective(f)
  BY <1>2 DEF ExistsBijection, Bijection, Injection, IsInjective
<1>4. SetToSeq(S) \in [1..n -> S]
  BY <1>3 DEF SetToSeq
<1> DEFINE t == SetToSeq(S)
<1> HIDE DEF t, n
<1>5. DOMAIN t = 1..n /\ t = [i \in DOMAIN t |-> t[i]]
  BY <1>4 DEF t
<1>6. IsSeq(t)
  BY <1>1, <1>5, IsSeqIfDomain
<1>7. \A i \in DOMAIN t : t[i] \in S
  BY <1>4 DEF t
<1> QED BY <1>6, <1>7 DEF t

-----------------------------------------------------------------------------
(* What is kept about a file.                                              *)
InfoFields ==
  {"lines", "symbol_uses", "using_decl_referenced", "desired_includes", "calculated"}

InfoOK(info) ==
  /\ DOMAIN info = InfoFields
  /\ IsSeq(info.symbol_uses)
  /\ IsFiniteSet(DOMAIN info.using_decl_referenced)

LineFields ==
  {"header", "included_file", "decl", "line", "present", "desired", "elaborated"}

IsLine(line) == DOMAIN line = LineFields

(* The lines that were there when the file was read. *)
Fresh(lines) ==
  IsSeq(lines) /\ \A i \in DOMAIN lines : IsLine(lines[i]) /\ lines[i].present

(* What is recorded about a file while it is read. *)
Records(info, more) ==
  /\ InfoOK(more)
  /\ Fresh(info.lines) => Fresh(more.lines)
  /\ more.desired_includes = info.desired_includes
  /\ more.calculated = info.calculated

LEMMA RecordsNothing ==
  ASSUME NEW info, InfoOK(info)
  PROVE  Records(info, info)
BY DEF Records

LEMMA FreshLine ==
  ASSUME NEW lines, Fresh(lines), NEW line, IsLine(line), line.present
  PROVE  Fresh(Append(lines, line))
<1> DEFINE more == Append(lines, line)
<1>1. /\ IsSeq(more) /\ DOMAIN more = DOMAIN lines \cup {Len(lines) + 1}
      /\ \A i \in DOMAIN lines : more[i] = lines[i]
      /\ more[Len(lines) + 1] = line
  BY Appended DEF Fresh
<1> HIDE DEF more
<1>2. Fresh(more)
  BY <1>1 DEF Fresh
<1> QED BY <1>2 DEF more

LEMMA RecordsLine ==
  ASSUME NEW info, InfoOK(info), NEW line, IsLine(line), line.present
  PROVE  Records(info, [info EXCEPT !.lines = Append(@, line)])
<1> DEFINE lines == Append(info.lines, line)
           more == [info EXCEPT !.lines = lines]
<1>1. Fresh(info.lines) => Fresh(lines)
  BY FreshLine
<1> HIDE DEF lines
<1>2. /\ DOMAIN more = InfoFields
      /\ more.lines = lines
      /\ more.symbol_uses = info.symbol_uses
      /\ more.using_decl_referenced = info.using_decl_referenced
      /\ more.desired_includes = info.desired_includes
      /\ more.calculated = info.calculated
  BY DEF InfoOK, InfoFields
<1> HIDE DEF more
<1>3. Records(info, more)
  BY <1>1, <1>2 DEF Records, InfoOK
<1> QED BY <1>3 DEF more, lines

LEMMA RecordsUse ==
  ASSUME NEW info, InfoOK(info), NEW use
  PROVE  Records(info, [info EXCEPT !.symbol_uses = Append(@, use)])
<1> DEFINE uses_ == Append(info.symbol_uses, use)
           more == [info EXCEPT !.symbol_uses = uses_]
<1>1. IsSeq(uses_)
  BY Appended DEF InfoOK
<1> HIDE DEF uses_
<1>2. /\ DOMAIN more = InfoFields
      /\ more.lines = info.lines
      /\ more.symbol_uses = uses_
      /\ more.using_decl_referenced = info.using_decl_referenced
      /\ more.desired_includes = info.desired_includes
      /\ more.calculated = info.calculated
  BY DEF InfoOK, InfoFields
<1> HIDE DEF more
<1>3. Records(info, more)
  BY <1>1, <1>2 DEF Records, InfoOK
<1> QED BY <1>3 DEF more, uses_

LEMMA RecordsUsings ==
  ASSUME NEW info, InfoOK(info), NEW usings, IsFiniteSet(DOMAIN usings)
  PROVE  Records(info, [info EXCEPT !.using_decl_referenced = usings])
<1> DEFINE more == [info EXCEPT !.using_decl_referenced = usings]
<1>1. /\ DOMAIN more = InfoFields
      /\ more.lines = info.lines
      /\ more.symbol_uses = info.symbol_uses
      /\ more.using_decl_referenced = usings
      /\ more.desired_includes = info.desired_includes
      /\ more.calculated = info.calculated
  BY DEF InfoOK, InfoFields
<1> HIDE DEF more
<1>2. Records(info, more)
  BY <1>1 DEF Records, InfoOK
<1> QED BY <1>2 DEF more

LEMMA RecordsBoth ==
  ASSUME NEW info, NEW more, Records(info, more), NEW most, Records(more, most)
  PROVE  Records(info, most)
BY DEF Records

-----------------------------------------------------------------------------
(* The operations on a file's info. *)
LEMMA AddIncludeRecords ==
  ASSUME NEW info, InfoOK(info), NEW include
  PROVE  Records(info, AddInclude(info, include))
<1> DEFINE line == [AnIncludeLine(include.includee, include.quoted, include.line)
                      EXCEPT !.present = TRUE]
<1>1. IsLine(line) /\ line.present
  BY DEF AnIncludeLine, IsLine, LineFields
<1> HIDE DEF line
<1>2. Records(info, [info EXCEPT !.lines = Append(@, line)])
  BY <1>1, RecordsLine
<1> QED BY <1>2, RecordsNothing DEF AddInclude, line

LEMMA AddForwardDeclareRecords ==
  ASSUME NEW info, InfoOK(info), NEW d, NEW definitely_keep
  PROVE  Records(info, AddForwardDeclare(info, d, definitely_keep))
<1> DEFINE line == [AForwardDeclareLine(d) EXCEPT
                      !.present = TRUE, !.desired = definitely_keep]
<1>1. IsLine(line) /\ line.present
  BY DEF AForwardDeclareLine, IsLine, LineFields
<1> HIDE DEF line
<1>2. Records(info, [info EXCEPT !.lines = Append(@, line)])
  BY <1>1, RecordsLine
<1> QED BY <1>2 DEF AddForwardDeclare, line

LEMMA AddOwningTagTypeRecords ==
  ASSUME NEW info, InfoOK(info), NEW d
  PROVE  Records(info, AddOwningTagType(info, d))
<1> DEFINE line == [AForwardDeclareLine(d) EXCEPT
                      !.present = TRUE, !.desired = TRUE, !.elaborated = TRUE]
<1>1. IsLine(line) /\ line.present
  BY DEF AForwardDeclareLine, IsLine, LineFields
<1> HIDE DEF line
<1>2. Records(info, [info EXCEPT !.lines = Append(@, line)])
  BY <1>1, RecordsLine
<1> QED BY <1>2 DEF AddOwningTagType, line

LEMMA AddUsingDeclRecords ==
  ASSUME NEW info, InfoOK(info), NEW d
  PROVE  Records(info, AddUsingDecl(info, d))
<1> DEFINE old == info.using_decl_referenced
           usings == [u \in DOMAIN old \cup {d} |-> IF u \in DOMAIN old THEN old[u] ELSE FALSE]
<1>1. IsFiniteSet(DOMAIN usings)
  <2>1. IsFiniteSet(DOMAIN old \cup {d})
    BY FS_AddElement DEF InfoOK
  <2> QED BY <2>1
<1>2. AddUsingDecl(info, d) = [info EXCEPT !.using_decl_referenced = usings]
  BY DEF AddUsingDecl
<1> HIDE DEF usings
<1> QED BY <1>1, <1>2, RecordsUsings

LEMMA ForwardUseRecords ==
  ASSUME NEW info, InfoOK(info), NEW f, NEW line, NEW d, NEW use_flags
  PROVE  Records(info, ReportForwardDeclareUse(info, f, line, d, use_flags))
BY RecordsUse DEF ReportForwardDeclareUse

LEMMA FullUseRecords ==
  ASSUME NEW info, InfoOK(info), NEW f, NEW line, NEW d, NEW use_flags
  PROVE  Records(info, ReportFullSymbolUse(info, f, line, d, use_flags))
BY RecordsUse DEF ReportFullSymbolUse

LEMMA UsingDeclUseRecords ==
  ASSUME NEW info, InfoOK(info), NEW f, NEW line, NEW d, NEW use_flags
  PROVE  Records(info, ReportUsingDeclUse(info, f, line, d, use_flags))
<1> DEFINE old == info.using_decl_referenced
           usings == [u \in DOMAIN old |-> old[u] \/ u = d]
           referenced == [info EXCEPT !.using_decl_referenced = usings]
<1>1. IsFiniteSet(DOMAIN usings)
  BY DEF InfoOK
<1>2. ReportUsingDeclUse(info, f, line, d, use_flags)
        = ReportFullSymbolUse(referenced, f, line, d, use_flags)
  BY DEF ReportUsingDeclUse
<1> HIDE DEF usings
<1>3. Records(info, referenced)
  BY <1>1, RecordsUsings
<1> HIDE DEF referenced
<1>4. Records(referenced, ReportFullSymbolUse(referenced, f, line, d, use_flags))
  BY <1>3, FullUseRecords DEF Records
<1> QED BY <1>2, <1>3, <1>4, RecordsBoth

LEMMA VisitTagDeclRecords ==
  ASSUME NEW info, InfoOK(info), NEW d
  PROVE  Records(info, VisitTagDecl(info, d))
<1> DEFINE declared == IF IsForwardDecl(d) THEN AddForwardDeclare(info, d, DefinitelyKeep(d))
                       ELSE info
           used == CHOOSE r \in GetNonfriendClassRedecls(Previous(d)) : TRUE
           reported == ReportForwardDeclareUse(declared, DeclInfo[d].file, DeclInfo[d].line,
                                               used, {"redecl"})
           flag == {"redecl"}
<1>1. Records(info, declared)
  BY AddForwardDeclareRecords, RecordsNothing
<1>2. VisitTagDecl(info, d) = IF "qualified" \notin DeclInfo[d].traits
                              THEN declared ELSE reported
  BY DEF VisitTagDecl
<1> HIDE DEF declared, used
<1>3. Records(declared, reported)
  <2> HIDE DEF flag
  <2>1. Records(declared, ReportForwardDeclareUse(declared, DeclInfo[d].file,
                            DeclInfo[d].line, used, flag))
    BY <1>1, ForwardUseRecords DEF Records
  <2> QED BY <2>1 DEF flag
<1> HIDE DEF reported
<1> QED BY <1>1, <1>2, <1>3, RecordsBoth

LEMMA ReportRecords ==
  ASSUME NEW info, InfoOK(info), NEW r, NEW more \in ReportedUses(info, r)
  PROVE  Records(info, more)
<1>1. CASE r.kind = "full"
  BY <1>1, FullUseRecords DEF ReportedUses
<1>2. CASE r.kind = "using"
  BY <1>2, UsingDeclUseRecords DEF ReportedUses
<1>3. CASE r.kind = "forward"
  BY <1>3, ForwardUseRecords DEF ReportedUses
<1>4. CASE r.kind = "symbol"
  BY <1>4, RecordsUse DEF ReportedUses
<1>5. CASE r.kind \notin {"full", "using", "forward", "symbol"}
  BY <1>5, RecordsUse DEF ReportedUses
<1> QED BY <1>1, <1>2, <1>3, <1>4, <1>5

-----------------------------------------------------------------------------
(* CalculateDesiredIncludesAndForwardDeclares: lines are added once.       *)

(* Lines that are not for the same. *)
Apart(line, other) ==
  IF IsIncludeLine(line) THEN other.header # line.header
  ELSE IsIncludeLine(other) \/ DeclInfo[other.decl].entity # DeclInfo[line.decl].entity

AddedOnce(lines) ==
  /\ \A i \in DOMAIN lines : IsLine(lines[i])
  /\ \A i, j \in DOMAIN lines : i # j /\ ~lines[i].present => Apart(lines[i], lines[j])

LineFor(use) ==
  IF HasSuggestedHeader(use)
  THEN AnIncludeLine(use.decl_filepath, use.suggested_header, 0)
  ELSE [AForwardDeclareLine(use.decl) EXCEPT !.line = 0]

LEMMA ApartBothWays ==
  ASSUME NEW line, NEW other, Apart(line, other)
  PROVE  Apart(other, line)
BY DEF Apart, IsIncludeLine

LEMMA UnmatchedApart ==
  ASSUME NEW use, NEW line, ~Matches(line, use)
  PROVE  Apart(LineFor(use), line)
<1>1. CASE HasSuggestedHeader(use)
  <2>1. LineFor(use).header = use.suggested_header
    BY <1>1 DEF LineFor, AnIncludeLine
  <2> QED BY <1>1, <2>1 DEF Apart, Matches, IsIncludeLine, HasSuggestedHeader
<1>2. CASE ~HasSuggestedHeader(use)
  <2>1. LineFor(use).header = NoHeader /\ LineFor(use).decl = use.decl
    BY <1>2 DEF LineFor, AForwardDeclareLine
  <2> QED BY <1>2, <2>1 DEF Apart, Matches, IsIncludeLine
<1> QED BY <1>1, <1>2

LEMMA AddLineOnce ==
  ASSUME NEW lines, IsSeq(lines), AddedOnce(lines), NEW use
  PROVE  IsSeq(AddLine(lines, use)) /\ AddedOnce(AddLine(lines, use))
<1>1. CASE use.ignore_use \/ \E i \in DOMAIN lines : Matches(lines[i], use)
  BY <1>1 DEF AddLine
<1>2. CASE ~(use.ignore_use \/ \E i \in DOMAIN lines : Matches(lines[i], use))
  <2> DEFINE more == Append(lines, LineFor(use))
             n == Len(lines)
  <2>1. AddLine(lines, use) = more
    BY <1>2 DEF AddLine, LineFor
  <2>2. /\ IsSeq(more) /\ DOMAIN more = DOMAIN lines \cup {n + 1}
        /\ \A i \in DOMAIN lines : more[i] = lines[i]
        /\ more[n + 1] = LineFor(use)
    BY Appended
  <2>3. \A i \in DOMAIN lines : Apart(LineFor(use), lines[i])
    BY <1>2, UnmatchedApart
  <2>4. \A i \in DOMAIN lines : Apart(lines[i], LineFor(use))
    BY <2>3, ApartBothWays
  <2> HIDE DEF more, n
  <2>5. IsLine(LineFor(use))
    BY DEF LineFor, AnIncludeLine, AForwardDeclareLine, IsLine, LineFields
  <2>6. AddedOnce(more)
    <3>4. \A i \in DOMAIN more : IsLine(more[i])
      BY <2>2, <2>5 DEF AddedOnce
    <3> SUFFICES ASSUME NEW i \in DOMAIN more, NEW j \in DOMAIN more,
                        i # j, ~more[i].present
                 PROVE  Apart(more[i], more[j])
      BY <3>4 DEF AddedOnce
    <3>1. CASE i \in DOMAIN lines /\ j \in DOMAIN lines
      BY <2>2, <3>1 DEF AddedOnce
    <3>2. CASE i = n + 1 /\ j \in DOMAIN lines
      BY <2>2, <2>3, <3>2
    <3>3. CASE i \in DOMAIN lines /\ j = n + 1
      BY <2>2, <2>4, <3>3
    <3> QED BY <2>2, <3>1, <3>2, <3>3
  <2> QED BY <2>1, <2>2, <2>6
<1> QED BY <1>1, <1>2

(* What every added line keeps, all of them do. *)
LEMMA WithUsesReflectedStays ==
  ASSUME NEW Good, NEW lines \in Good, Len(uses) \in Nat,
         \A n \in Nat : \A s \in Good : AddLine(s, uses[n + 1]) \in Good
  PROVE  WithUsesReflected(lines) \in Good
<1> DEFINE Step == [a \in Nat \X Good |-> AddLine(a[2], uses[a[1] + 1])]
           Stages(f) == [n \in Nat |-> IF n = 0 THEN lines ELSE AddLine(f[n - 1], uses[n])]
           reflected == CHOOSE f : f = Stages(f)
<1>1. IsRecursion(lines, Step, Good)
  <2>1. ASSUME NEW n \in Nat, NEW s \in Good PROVE Step[<<n, s>>] \in Good
    <3>1. Step[<<n, s>>] = AddLine(s, uses[n + 1])
      OBVIOUS
    <3> QED BY <3>1
  <2> HIDE DEF Step
  <2> QED BY <2>1 DEF IsRecursion
<1>2. PICK f \in [Nat -> Good] : f[0] = lines /\ \A n \in Nat : f[n + 1] = Step[<<n, f[n]>>]
  <2> HIDE DEF Step
  <2> QED BY <1>1, Recursion
<1>3. \A n \in Nat : f[n + 1] = AddLine(f[n], uses[n + 1])
  <2> SUFFICES ASSUME NEW n \in Nat PROVE f[n + 1] = AddLine(f[n], uses[n + 1])
    OBVIOUS
  <2>1. f[n] \in Good
    BY <1>2
  <2>2. Step[<<n, f[n]>>] = AddLine(f[n], uses[n + 1])
    BY <2>1
  <2> HIDE DEF Step
  <2> QED BY <1>2, <2>2
<1>4. f = Stages(f)
  <2>1. ASSUME NEW n \in Nat
        PROVE  f[n] = IF n = 0 THEN lines ELSE AddLine(f[n - 1], uses[n])
    <3>1. CASE n = 0
      BY <1>2, <3>1
    <3>2. CASE n # 0
      <4>1. n - 1 \in Nat /\ n = (n - 1) + 1
        BY <3>2
      <4> QED BY <1>3, <3>2, <4>1
    <3> QED BY <3>1, <3>2
  <2>2. f = [n \in Nat |-> f[n]]
    BY <1>2
  <2> HIDE DEF Step
  <2> QED BY <2>1, <2>2
<1>5. reflected = Stages(reflected)
  <2> HIDE DEF Stages
  <2> QED BY <1>4
<1>6. WithUsesReflected(lines) = reflected[Len(uses)]
  BY DEF WithUsesReflected
<1> DEFINE good == {n \in Nat : reflected[n] \in Good}
<1>7. good = Nat
  <2>1. 0 \in good
    <3> HIDE DEF reflected
    <3> QED BY <1>5
  <2>2. ASSUME NEW n \in good PROVE n + 1 \in good
    <3>1. (n + 1) - 1 = n /\ n + 1 # 0 /\ n + 1 \in Nat
      BY <2>2
    <3>2. reflected[n + 1] = AddLine(reflected[n], uses[n + 1])
      <4> HIDE DEF reflected
      <4> QED BY <1>5, <3>1
    <3>3. n \in Nat /\ reflected[n] \in Good
      OBVIOUS
    <3> HIDE DEF reflected
    <3>4. AddLine(reflected[n], uses[n + 1]) \in Good
      BY <3>3
    <3> QED BY <3>1, <3>2, <3>4
  <2>3. good \in SUBSET Nat
    OBVIOUS
  <2> HIDE DEF good
  <2> QED BY <2>1, <2>2, <2>3, Induction
<1> HIDE DEF reflected
<1>8. reflected[Len(uses)] \in Good
  BY <1>7
<1> QED BY <1>6, <1>8

LEMMA WithUsesReflectedOnce ==
  ASSUME NEW lines, IsSeq(lines), AddedOnce(lines), IsSeq(uses)
  PROVE  IsSeq(WithUsesReflected(lines)) /\ AddedOnce(WithUsesReflected(lines))
<1> DEFINE Good == {s \in Seq(Elements(lines) \cup {LineFor(uses[n]) : n \in Nat}) : AddedOnce(s)}
<1>1. \A s \in Good : IsSeq(s) /\ AddedOnce(s)
  <2> SUFFICES ASSUME NEW s \in Good PROVE IsSeq(s)
    OBVIOUS
  <2> DEFINE U == Elements(lines) \cup {LineFor(uses[n]) : n \in Nat}
  <2>1. s \in Seq(U)
    OBVIOUS
  <2> HIDE DEF U, Good
  <2>2. Len(s) \in Nat /\ DOMAIN s = 1 .. Len(s) /\ s = [i \in DOMAIN s |-> s[i]]
    BY <2>1
  <2> QED BY <2>2, IsSeqIfDomain
<1>2. lines \in Good
  <2>1. lines \in Seq(Elements(lines))
    BY DEF IsSeq
  <2> DEFINE L == Elements(lines)
             U == L \cup {LineFor(uses[n]) : n \in Nat}
  <2>2. L \subseteq U
    OBVIOUS
  <2> HIDE DEF L, U
  <2>3. lines \in Seq(U)
    BY <2>1, <2>2 DEF L
  <2> QED BY <2>3 DEF U, L
<1>3. ASSUME NEW n \in Nat, NEW s \in Good PROVE AddLine(s, uses[n + 1]) \in Good
  <2> DEFINE U == Elements(lines) \cup {LineFor(uses[m]) : m \in Nat}
             use == uses[n + 1]
  <2>1. s \in Seq(U) /\ LineFor(use) \in U
    OBVIOUS
  <2>2. AddLine(s, use) = s \/ AddLine(s, use) = Append(s, LineFor(use))
    BY DEF AddLine, LineFor
  <2>3. AddedOnce(AddLine(s, use))
    BY <1>1, AddLineOnce
  <2>4. AddLine(s, use) \in Seq(U)
    <3> HIDE DEF U, use
    <3> QED BY <2>1, <2>2
  <2> QED BY <2>3, <2>4
<1> HIDE DEF Good
<1>4. Len(uses) \in Nat
  BY SeqDomain
<1> QED BY <1>1, <1>2, <1>3, <1>4, WithUsesReflectedStays

(* What is desired of a line changes, and nothing else. *)
SameLines(lines, more) ==
  /\ DOMAIN more = DOMAIN lines
  /\ \A i \in DOMAIN lines :
       /\ IsLine(more[i])
       /\ more[i].header = lines[i].header
       /\ more[i].included_file = lines[i].included_file
       /\ more[i].decl = lines[i].decl
       /\ more[i].present = lines[i].present

WithDesired(line, desired) == [line EXCEPT !.desired = desired]

LEMMA JudgedLines ==
  ASSUME NEW lines, \A i \in DOMAIN lines : IsLine(lines[i]), NEW desired,
         NEW more, DOMAIN more = DOMAIN lines,
         \A i \in DOMAIN lines : more[i] = WithDesired(lines[i], desired[i])
  PROVE  /\ SameLines(lines, more)
         /\ \A i \in DOMAIN lines : more[i].desired = desired[i]
<1> SUFFICES ASSUME NEW i \in DOMAIN lines
             PROVE  /\ IsLine(more[i])
                    /\ more[i].header = lines[i].header
                    /\ more[i].included_file = lines[i].included_file
                    /\ more[i].decl = lines[i].decl
                    /\ more[i].present = lines[i].present
                    /\ more[i].desired = desired[i]
  BY DEF SameLines
<1>1. more[i] = [lines[i] EXCEPT !.desired = desired[i]]
  BY DEF WithDesired
<1> QED BY <1>1 DEF IsLine, LineFields

LEMMA SameLinesOnce ==
  ASSUME NEW lines, NEW more, SameLines(lines, more), AddedOnce(lines)
  PROVE  AddedOnce(more)
BY DEF SameLines, AddedOnce, Apart, IsIncludeLine

FinishedLines(lines) ==
  CleanupPrefixHeaderIncludes(ClearInhibited(
    CalculateDesiredIncludesAndForwardDeclares(lines)))

(* A line that is added although an associated header desires it.         *)
OnlyIfKept(lines, f) ==
  \A i \in DOMAIN lines :
    /\ IsIncludeLine(lines[i]) /\ lines[i].desired /\ ~lines[i].present
    /\ lines[i].header \in AssociatedDesiredIncludes(f)
    => <<f, lines[i].included_file>> \in tu.kept_includes

(* A line that is desired is so for one of three reasons. *)
WantedAmong(all, lines) ==
  \A i \in DOMAIN lines : lines[i].desired =>
    /\ i \in DOMAIN all
    /\ lines[i].header = all[i].header
    /\ lines[i].included_file = all[i].included_file
    /\ \/ all[i].desired
       \/ \E j \in DOMAIN uses : IsReasonFor(uses[j], all[i])
       \/ IsKept(all[i])

LEMMA FinishedOnce ==
  ASSUME NEW lines, Fresh(lines), IsSeq(uses)
  PROVE  /\ AddedOnce(FinishedLines(lines))
         /\ OnlyIfKept(FinishedLines(lines), current)
         /\ WantedAmong(WithUsesReflected(lines), FinishedLines(lines))
<1> DEFINE all == WithUsesReflected(lines)
           wanted(i) == /\ all[i].desired \/ \E j \in DOMAIN uses : IsReasonFor(uses[j], all[i])
                        /\ ~ComesThroughAssociated(all[i])
                        /\ ~IsSurplus(all, i)
           kept == [i \in DOMAIN all |-> wanted(i) \/ IsKept(all[i])]
           decided == CalculateDesiredIncludesAndForwardDeclares(lines)
           allowed == [i \in DOMAIN decided |->
                         decided[i].desired /\ ~IncludeIsInhibited(current, decided[i].header)]
           cleared == ClearInhibited(decided)
           clean == [i \in DOMAIN cleared |->
                       /\ cleared[i].desired
                       /\ \/ flags.prefix_header_includes = "add"
                          \/ flags.prefix_header_includes = "keep" /\ cleared[i].present
                          \/ ~IsRemovablePrefixHeader(LineFile(cleared[i]))]
           finished == FinishedLines(lines)
<1>1. AddedOnce(all)
  <2>1. AddedOnce(lines) /\ IsSeq(lines)
    BY DEF AddedOnce, Fresh
  <2> QED BY <2>1, WithUsesReflectedOnce
<1>2. decided = [i \in DOMAIN all |-> [all[i] EXCEPT !.desired = kept[i]]]
  BY DEF CalculateDesiredIncludesAndForwardDeclares
<1>3. cleared = [i \in DOMAIN decided |-> [decided[i] EXCEPT !.desired = allowed[i]]]
  <2> HIDE DEF decided
  <2> QED BY DEF ClearInhibited
<1>4. finished = [i \in DOMAIN cleared |-> [cleared[i] EXCEPT !.desired = clean[i]]]
  <2>1. finished = CleanupPrefixHeaderIncludes(cleared)
    BY DEF FinishedLines
  <2> HIDE DEF cleared, finished
  <2> QED BY <2>1 DEF CleanupPrefixHeaderIncludes
<1>5. \A i \in DOMAIN all : kept[i] <=> wanted(i) \/ IsKept(all[i])
  <2> HIDE DEF all, wanted
  <2> QED OBVIOUS
<1>6. \A i \in DOMAIN all :
        wanted(i) /\ IsIncludeLine(all[i]) /\ ~all[i].present
        => all[i].header \notin AssociatedDesiredIncludes(current)
  BY DEF ComesThroughAssociated
<1>7. \A i \in DOMAIN all :
         wanted(i) => all[i].desired \/ \E j \in DOMAIN uses : IsReasonFor(uses[j], all[i])
  OBVIOUS
<1> HIDE DEF all, wanted, kept
<1>8. SameLines(all, decided) /\ \A i \in DOMAIN all : decided[i].desired = kept[i]
  <2>1. \A i \in DOMAIN all : IsLine(all[i])
    BY <1>1, <1>2 DEF AddedOnce
  <2>2. DOMAIN decided = DOMAIN all
        /\ \A i \in DOMAIN all : decided[i] = WithDesired(all[i], kept[i])
    BY <1>1, <1>2 DEF WithDesired
  <2> QED BY <2>1, <2>2, JudgedLines
<1>9. AddedOnce(decided)
  BY <1>1, <1>8, SameLinesOnce
<1>10. \A i \in DOMAIN decided : allowed[i] => decided[i].desired
  <2> HIDE DEF decided
  <2> QED OBVIOUS
<1> HIDE DEF decided, allowed
<1>11. SameLines(decided, cleared) /\ \A i \in DOMAIN decided : cleared[i].desired = allowed[i]
  <2>1. \A i \in DOMAIN decided : IsLine(decided[i])
    BY <1>3, <1>9 DEF AddedOnce
  <2>2. DOMAIN cleared = DOMAIN decided
        /\ \A i \in DOMAIN decided : cleared[i] = WithDesired(decided[i], allowed[i])
    BY <1>3, <1>9 DEF WithDesired
  <2> QED BY <2>1, <2>2, JudgedLines
<1>12. AddedOnce(cleared)
  BY <1>9, <1>11, SameLinesOnce
<1>13. \A i \in DOMAIN cleared : clean[i] => cleared[i].desired
  <2> HIDE DEF cleared
  <2> QED OBVIOUS
<1> HIDE DEF cleared, clean
<1>14. SameLines(cleared, finished) /\ \A i \in DOMAIN cleared : finished[i].desired = clean[i]
  <2>1. \A i \in DOMAIN cleared : IsLine(cleared[i])
    BY <1>4, <1>12 DEF AddedOnce
  <2>2. DOMAIN finished = DOMAIN cleared
        /\ \A i \in DOMAIN cleared : finished[i] = WithDesired(cleared[i], clean[i])
    BY <1>4, <1>12 DEF WithDesired
  <2> QED BY <2>1, <2>2, JudgedLines
<1> HIDE DEF finished
<1>15. AddedOnce(finished)
  BY <1>12, <1>14, SameLinesOnce
<1>16. OnlyIfKept(finished, current)
  <2> SUFFICES ASSUME NEW i \in DOMAIN finished,
                      IsIncludeLine(finished[i]), finished[i].desired, ~finished[i].present,
                      finished[i].header \in AssociatedDesiredIncludes(current)
               PROVE  <<current, finished[i].included_file>> \in tu.kept_includes
    BY DEF OnlyIfKept
  <2>1. /\ i \in DOMAIN cleared /\ i \in DOMAIN decided /\ i \in DOMAIN all
        /\ finished[i].header = all[i].header
        /\ finished[i].included_file = all[i].included_file
        /\ finished[i].present = all[i].present
    BY <1>8, <1>11, <1>14 DEF SameLines
  <2>2. kept[i]
    BY <1>8, <1>10, <1>11, <1>13, <1>14, <2>1
  <2>3. IsIncludeLine(all[i]) /\ ~all[i].present
    BY <2>1 DEF IsIncludeLine
  <2>4. IsKept(all[i])
    BY <1>5, <1>6, <2>1, <2>2, <2>3
  <2> QED BY <2>1, <2>3, <2>4 DEF IsKept
<1>17. WantedAmong(all, finished)
  <2> SUFFICES ASSUME NEW i \in DOMAIN finished, finished[i].desired
               PROVE  /\ i \in DOMAIN all
                      /\ finished[i].header = all[i].header
                      /\ finished[i].included_file = all[i].included_file
                      /\ \/ all[i].desired
                         \/ \E j \in DOMAIN uses : IsReasonFor(uses[j], all[i])
                         \/ IsKept(all[i])
    BY DEF WantedAmong
  <2>1. /\ i \in DOMAIN cleared /\ i \in DOMAIN decided /\ i \in DOMAIN all
        /\ finished[i].header = all[i].header
        /\ finished[i].included_file = all[i].included_file
    BY <1>8, <1>11, <1>14 DEF SameLines
  <2>2. kept[i]
    BY <1>8, <1>10, <1>11, <1>13, <1>14, <2>1
  <2> QED BY <1>5, <1>7, <2>1, <2>2
<1> QED BY <1>15, <1>16, <1>17 DEF finished, all

-----------------------------------------------------------------------------
(* The inductive invariant. *)
StateOK ==
  /\ tu \in Programs
  /\ DOMAIN file_infos = Files
  /\ \A f \in Files : InfoOK(file_infos[f])
  /\ IsSeq(uses)

Early == phase \in {"preprocess", "traverse", "report"}
Working == phase \in {"cover", "judge"}

(* Headers come first, and what is done is done: whatever has been begun   *)
(* has all its associated headers behind it.                               *)
OrderOK ==
  /\ waiting \subseteq tu.files_to_report
  /\ Early => waiting = tu.files_to_report
  /\ waiting # {} => tu.main \in waiting
  /\ Working => /\ current \in tu.files_to_report \ waiting
                /\ current = tu.main \/ tu.main \in waiting
  /\ ~Working => current = NoFile
  /\ \A f \in tu.files_to_report \ waiting :
       /\ file_infos[f].calculated \/ (phase = "cover" /\ f = current)
       /\ AssociatedCalculated(f)
  /\ \A f \in waiting : ~file_infos[f].calculated
  /\ phase = "cover" => ~file_infos[current].calculated

Unfinished(f) == f \in waiting \/ (Working /\ f = current)

LinesOK ==
  \A f \in tu.files_to_report :
    IF Unfinished(f) THEN Fresh(file_infos[f].lines)
    ELSE /\ AddedOnce(file_infos[f].lines)
         /\ OnlyIfKept(file_infos[f].lines, f)

IInv == StateOK /\ OrderOK /\ LinesOK

LEMMA ProgramOK ==
  ASSUME StateOK
  PROVE  /\ tu.files_to_report \subseteq Files /\ tu.main \in tu.files_to_report
         /\ \A f \in tu.files_to_report :
              /\ tu.associated[f] \subseteq tu.files_to_report
              /\ IsFiniteSet(tu.associated[f])
<1>1. /\ tu.files_to_report \subseteq Files /\ tu.main \in tu.files_to_report
      /\ \A f \in tu.files_to_report : tu.associated[f] \subseteq tu.files_to_report
  BY ProgramsAssumption DEF StateOK
<1>2. ASSUME NEW f \in tu.files_to_report PROVE IsFiniteSet(tu.associated[f])
  BY <1>1, <1>2, FilesAssumption, FS_Subset
<1> QED BY <1>1, <1>2

(* Steps that leave alone which files are done, and their infos.          *)
LEMMA SameFilesPreserve ==
  ASSUME IInv, UNCHANGED <<tu, file_infos, waiting, current>>, IsSeq(uses'),
         Working' <=> Working, phase' = "cover" <=> phase = "cover",
         Early' => Early
  PROVE  IInv'
<1>1. StateOK'
  BY DEF IInv, StateOK
<1>2. OrderOK'
  BY DEF IInv, OrderOK, AssociatedCalculated
<1>3. LinesOK'
  BY DEF IInv, LinesOK, Unfinished, OnlyIfKept, AssociatedDesiredIncludes
<1> QED BY <1>1, <1>2, <1>3 DEF IInv

(* Steps of preprocessing and traversal. *)
LEMMA RecordingPreserves ==
  ASSUME IInv, Early, UNCHANGED <<tu, phase, waiting, current, uses>>,
         DOMAIN file_infos' = Files,
         \A f \in Files : Records(file_infos[f], file_infos'[f])
  PROVE  IInv'
<1>1. StateOK'
  BY DEF IInv, StateOK, Records
<1>2. OrderOK'
  <2>1. waiting \subseteq Files /\ waiting = tu.files_to_report
    BY ProgramOK DEF IInv, OrderOK
  <2> QED BY <2>1 DEF IInv, OrderOK, Early, Working, Records
<1>3. LinesOK'
  <2>1. tu.files_to_report \subseteq Files /\ waiting = tu.files_to_report
    BY ProgramOK DEF IInv, OrderOK
  <2>2. \A f \in tu.files_to_report : Fresh(file_infos[f].lines)
    BY <2>1 DEF IInv, LinesOK, Unfinished
  <2> QED BY <2>1, <2>2 DEF LinesOK, Unfinished, Records
<1> QED BY <1>1, <1>2, <1>3 DEF IInv

LEMMA RecordingInOneFile ==
  ASSUME IInv, Early, UNCHANGED <<tu, phase, waiting, current, uses>>,
         NEW f, NEW more, f \in Files => Records(file_infos[f], more),
         file_infos' = [file_infos EXCEPT ![f] = more]
  PROVE  IInv'
<1>1. DOMAIN file_infos = Files /\ \A g \in Files : InfoOK(file_infos[g])
  BY DEF IInv, StateOK
<1>2. DOMAIN file_infos' = Files
  BY <1>1
<1>3. ASSUME NEW g \in Files PROVE Records(file_infos[g], file_infos'[g])
  BY <1>1, RecordsNothing
<1> QED BY <1>2, <1>3, RecordingPreserves

LEMMA SeeIncludePreserves == ASSUME IInv, SeeInclude PROVE IInv'
<1> DEFINE include == tu.includes[next]
           f == include.includer
           more == AddInclude(file_infos[f], include)
<1>1. /\ Early /\ UNCHANGED <<tu, phase, waiting, current, uses>>
      /\ file_infos' = [file_infos EXCEPT ![f] = more]
  BY DEF SeeInclude, Early, constants, cover_vars
<1>2. f \in Files => Records(file_infos[f], more)
  BY AddIncludeRecords DEF IInv, StateOK
<1> HIDE DEF f, more
<1> QED BY <1>1, <1>2, RecordingInOneFile

LEMMA VisitDeclPreserves == ASSUME IInv, VisitDecl PROVE IInv'
<1> DEFINE d == tu.decls[next]
           f == DeclInfo[d].file
           more == IF Kind(d) = "using" THEN AddUsingDecl(file_infos[f], d)
                   ELSE IF f \notin tu.files_to_report \/ Kind(d) \notin TagKinds
                   THEN file_infos[f]
                   ELSE IF "owned_tag" \in DeclInfo[d].traits
                   THEN AddOwningTagType(file_infos[f], d)
                   ELSE VisitTagDecl(file_infos[f], d)
<1>1. /\ Early /\ UNCHANGED <<tu, phase, waiting, current, uses>>
      /\ file_infos' = [file_infos EXCEPT ![f] = more]
  BY DEF VisitDecl, Early, constants, cover_vars
<1>2. f \in Files => Records(file_infos[f], more)
  BY AddUsingDeclRecords, AddOwningTagTypeRecords, VisitTagDeclRecords, RecordsNothing
     DEF IInv, StateOK
<1> HIDE DEF f, more
<1> QED BY <1>1, <1>2, RecordingInOneFile

LEMMA ReportUsePreserves == ASSUME IInv, ReportUse PROVE IInv'
<1> DEFINE r == reports[next]
           f == r.file
<1>1. /\ Early /\ UNCHANGED <<tu, phase, waiting, current, uses>>
      /\ \E more \in ReportedUses(file_infos[f], r) :
            file_infos' = [file_infos EXCEPT ![f] = more]
  BY DEF ReportUse, Early, constants, cover_vars
<1>2. PICK more \in ReportedUses(file_infos[f], r) :
        file_infos' = [file_infos EXCEPT ![f] = more]
  BY <1>1
<1>3. f \in Files => Records(file_infos[f], more)
  BY ReportRecords DEF IInv, StateOK
<1> HIDE DEF f, r
<1> QED BY <1>1, <1>2, <1>3, RecordingInOneFile

LEMMA StartingPreserves ==
  ASSUME IInv, StartTraversal \/ StartReports
  PROVE  IInv'
<1>1. /\ UNCHANGED <<tu, file_infos, waiting, current, uses>>
      /\ Early /\ Early' /\ ~Working /\ ~Working' /\ phase # "cover" /\ phase' # "cover"
  BY DEF StartTraversal, StartReports, constants, cover_vars, Early, Working
<1>2. IsSeq(uses')
  BY <1>1 DEF IInv, StateOK
<1> QED BY <1>1, <1>2, SameFilesPreserve

LEMMA ResolvePendingAnalysisPreserves ==
  ASSUME IInv, ResolvePendingAnalysis
  PROVE  IInv'
<1>1. /\ UNCHANGED <<tu, waiting, current, uses>>
      /\ Early /\ ~Working /\ ~Early' /\ ~Working' /\ phase' # "cover"
      /\ DOMAIN file_infos' = Files
  BY DEF ResolvePendingAnalysis, constants, cover_vars, Early, Working
<1>2. ASSUME NEW f \in Files PROVE Records(file_infos[f], file_infos'[f])
  <2> DEFINE info == file_infos[f]
             all == info.symbol_uses \o PendingUses(f)
             more == [info EXCEPT !.symbol_uses = all]
  <2>1. InfoOK(info)
    BY DEF IInv, StateOK
  <2>2. file_infos'[f] = info \/ file_infos'[f] = more
    BY DEF ResolvePendingAnalysis
  <2>3. IsSeq(PendingUses(f))
    <3> DEFINE pending == SetToSeq(UnreferencedUsings(info))
    <3>1. UnreferencedUsings(info) \subseteq DOMAIN info.using_decl_referenced
      BY DEF UnreferencedUsings
    <3>2. IsFiniteSet(UnreferencedUsings(info))
      BY <2>1, <3>1, FS_Subset DEF InfoOK
    <3>3. IsSeq(pending)
      BY <3>2, SetToSeqIsSeq
    <3> HIDE DEF pending
    <3> DEFINE us == [i \in DOMAIN pending |->
                       DeclUse(f, DeclInfo[pending[i]].line, FirstTarget(pending[i]), FALSE, {})]
    <3>4. PendingUses(f) = us
      BY DEF PendingUses, pending
    <3>5. DOMAIN us = DOMAIN pending /\ us = [i \in DOMAIN us |-> us[i]]
      OBVIOUS
    <3> HIDE DEF us
    <3> QED BY <3>3, <3>4, <3>5, SameDomainIsSeq
  <2>4. IsSeq(all)
    BY <2>1, <2>3, Joined DEF InfoOK
  <2> HIDE DEF all, info
  <2>5. /\ DOMAIN more = InfoFields /\ more.lines = info.lines /\ more.symbol_uses = all
        /\ more.using_decl_referenced = info.using_decl_referenced
        /\ more.desired_includes = info.desired_includes
        /\ more.calculated = info.calculated
    BY <2>1 DEF InfoOK, InfoFields
  <2> HIDE DEF more
  <2>6. Records(info, more)
    BY <2>1, <2>4, <2>5 DEF Records, InfoOK
  <2> QED BY <2>1, <2>2, <2>6, RecordsNothing DEF info
<1>3. StateOK'
  BY <1>1, <1>2 DEF IInv, StateOK, Records
<1>4. OrderOK'
  <2>1. waiting \subseteq Files /\ waiting = tu.files_to_report
    BY <1>1, ProgramOK DEF IInv, OrderOK
  <2> QED BY <1>1, <1>2, <2>1 DEF IInv, OrderOK, Records
<1>5. LinesOK'
  <2>1. tu.files_to_report \subseteq Files /\ waiting = tu.files_to_report
    BY <1>1, ProgramOK DEF IInv, OrderOK
  <2>2. \A f \in tu.files_to_report : Fresh(file_infos[f].lines)
    BY <2>1 DEF IInv, LinesOK, Unfinished
  <2> QED BY <1>1, <1>2, <2>1, <2>2 DEF LinesOK, Unfinished, Records
<1> QED BY <1>3, <1>4, <1>5 DEF IInv

-----------------------------------------------------------------------------
(* CalculateIwyuViolations. *)
LEMMA ProcessedIsSeq ==
  ASSUME NEW us, IsSeq(us)
  PROVE  IsSeq(ProcessSymbolUses(ProcessFullUses(ProcessForwardDeclares(us))))
<1> DEFINE a == ProcessForwardDeclares(us)
           b == ProcessFullUses(a)
           c == ProcessSymbolUses(b)
<1>1. DOMAIN a = DOMAIN us /\ a = [i \in DOMAIN a |-> a[i]]
  BY DEF ProcessForwardDeclares
<1> HIDE DEF a
<1>2. DOMAIN b = DOMAIN a /\ b = [i \in DOMAIN b |-> b[i]]
  BY DEF ProcessFullUses
<1> HIDE DEF b
<1>3. DOMAIN c = DOMAIN b /\ c = [i \in DOMAIN c |-> c[i]]
  BY DEF ProcessSymbolUses
<1> HIDE DEF c
<1>4. IsSeq(a)
  BY <1>1, SameDomainIsSeq
<1>5. IsSeq(b)
  BY <1>2, <1>4, SameDomainIsSeq
<1>6. IsSeq(c)
  BY <1>3, <1>5, SameDomainIsSeq
<1> QED BY <1>6 DEF a, b, c

LEMMA AssociatedIncludeUsesIsSeq ==
  ASSUME NEW f, IsFiniteSet(tu.associated[f])
  PROVE  IsSeq(AssociatedIncludeUses(f))
<1> DEFINE gs == SetToSeq(tu.associated[f])
           us == [i \in DOMAIN gs |-> IncludeFileUse(f, gs[i], QuotedInclude[gs[i]])]
<1>1. IsSeq(gs)
  BY SetToSeqIsSeq
<1> HIDE DEF gs
<1>2. AssociatedIncludeUses(f) = us
  BY DEF AssociatedIncludeUses, gs
<1>3. DOMAIN us = DOMAIN gs /\ us = [i \in DOMAIN us |-> us[i]]
  OBVIOUS
<1> HIDE DEF us
<1> QED BY <1>1, <1>2, <1>3, SameDomainIsSeq

LEMMA StartFilePreserves ==
  ASSUME IInv, NEW f \in Files, StartFile(f)
  PROVE  IInv'
<1>1. /\ phase = "choose" /\ f \in waiting /\ InOrder(f) /\ AssociatedCalculated(f)
      /\ current' = f /\ waiting' = waiting \ {f} /\ phase' = "cover"
      /\ UNCHANGED <<tu, file_infos>>
  BY DEF StartFile, constants
<1>2. /\ ~Working /\ Working' /\ ~Early' /\ f \in tu.files_to_report
      /\ f = tu.main \/ tu.main \in waiting'
  BY <1>1 DEF IInv, OrderOK, Working, Early
<1>3. IsSeq(uses')
  <2> DEFINE processed == ProcessSymbolUses(ProcessFullUses(ProcessForwardDeclares(
                            file_infos[f].symbol_uses)))
             all == processed \o AssociatedIncludeUses(f)
             us == [i \in DOMAIN all |-> WithHeaders(all[i])]
  <2>1. uses' = us
    BY DEF StartFile
  <2>2. IsSeq(processed)
    BY ProcessedIsSeq DEF IInv, StateOK, InfoOK
  <2>3. IsSeq(AssociatedIncludeUses(f))
    BY <1>2, ProgramOK, AssociatedIncludeUsesIsSeq DEF IInv
  <2>4. IsSeq(all)
    BY <2>2, <2>3, Joined
  <2> HIDE DEF all
  <2>5. DOMAIN us = DOMAIN all /\ us = [i \in DOMAIN us |-> us[i]]
    OBVIOUS
  <2> HIDE DEF us
  <2> QED BY <2>1, <2>4, <2>5, SameDomainIsSeq
<1>4. StateOK'
  BY <1>1, <1>3 DEF IInv, StateOK
<1>5. OrderOK'
  <2>1. waiting' # {} => tu.main \in waiting'
    BY <1>1 DEF IInv, OrderOK, InOrder
  <2>2. \A g \in tu.files_to_report \ waiting' :
          (file_infos[g].calculated \/ g = f) /\ AssociatedCalculated(g)
    BY <1>1 DEF IInv, OrderOK
  <2>3. waiting' \subseteq tu.files_to_report
    BY <1>1 DEF IInv, OrderOK
  <2>4. f \in tu.files_to_report \ waiting'
    BY <1>1, <1>2
  <2>5. /\ \A g \in waiting' : ~file_infos'[g].calculated
        /\ ~file_infos'[current'].calculated
    BY <1>1 DEF IInv, OrderOK
  <2>6. \A g : AssociatedCalculated(g)' <=> AssociatedCalculated(g)
    BY <1>1 DEF AssociatedCalculated
  <2> QED BY <1>1, <1>2, <2>1, <2>2, <2>3, <2>4, <2>5, <2>6 DEF OrderOK
<1>6. LinesOK'
  <2>1. \A g : Unfinished(g)' <=> Unfinished(g)
    BY <1>1, <1>2 DEF Unfinished
  <2> QED BY <1>1, <2>1 DEF IInv, LinesOK, OnlyIfKept, AssociatedDesiredIncludes
<1> QED BY <1>4, <1>5, <1>6 DEF IInv

LEMMA CalculateMinimalIncludesPreserves ==
  ASSUME IInv, CalculateMinimalIncludes
  PROVE  IInv'
<1>1. /\ UNCHANGED <<tu, file_infos, waiting, current, phase>>
      /\ MinimalIncludes!Next
  BY DEF CalculateMinimalIncludes, constants
<1>2. DOMAIN uses' = DOMAIN uses /\ uses' = [i \in DOMAIN uses' |-> uses'[i]]
  <2>1. IsSeq(uses)
    BY DEF IInv, StateOK
  <2>2. uses = [i \in DOMAIN uses |-> uses[i]]
    BY <2>1, SeqDomain
  <2>3. CASE MinimalIncludes!TakeSuggested
    BY <2>2, <2>3 DEF MinimalIncludes!TakeSuggested
  <2>4. CASE MinimalIncludes!GiveHeader
    <3> DEFINE header == MinimalIncludes!Pick(uses[next_use])
    <3>1. uses' = [uses EXCEPT ![next_use].suggested_header = header]
      BY <2>4 DEF MinimalIncludes!GiveHeader
    <3> HIDE DEF header
    <3> QED BY <2>2, <3>1
  <2>5. CASE MinimalIncludes!PassOver
    BY <2>2, <2>5 DEF MinimalIncludes!PassOver
  <2>6. CASE MinimalIncludes!NextPass
    BY <2>2, <2>6 DEF MinimalIncludes!NextPass
  <2>7. ASSUME NEW header \in Headers, MinimalIncludes!Cover(header)
        PROVE  DOMAIN uses' = DOMAIN uses /\ uses' = [i \in DOMAIN uses' |-> uses'[i]]
    <3> DEFINE given == {i \in DOMAIN uses : i \in MinimalIncludes!UnmappedUses
                                      /\ header \in MinimalIncludes!Candidates(uses[i])}
    <3>1. uses' = [i \in DOMAIN uses |->
                     IF i \in given THEN [uses[i] EXCEPT !.suggested_header = header]
                     ELSE uses[i]]
      BY <2>7 DEF MinimalIncludes!Cover
    <3> HIDE DEF given
    <3> QED BY <3>1
  <2>8. CASE MinimalIncludes!Return
    BY <2>2, <2>8 DEF MinimalIncludes!Return
  <2> QED BY <1>1, <2>3, <2>4, <2>5, <2>6, <2>7, <2>8 DEF MinimalIncludes!Next
<1>3. IsSeq(uses')
  BY <1>2, SameDomainIsSeq DEF IInv, StateOK
<1> QED BY <1>1, <1>3, SameFilesPreserve DEF Working, Early

LEMMA JudgeUsePreserves == ASSUME IInv, JudgeUse PROVE IInv'
<1>1. UNCHANGED <<tu, file_infos, waiting, current, phase>>
  BY DEF JudgeUse, constants
<1>2. PICK use : uses' = [uses EXCEPT ![next_use] = use]
  BY DEF JudgeUse
<1>3. DOMAIN uses' = DOMAIN uses /\ uses' = [i \in DOMAIN uses' |-> uses'[i]]
  BY <1>2
<1>4. IsSeq(uses')
  BY <1>3, SameDomainIsSeq DEF IInv, StateOK
<1> QED BY <1>1, <1>4, SameFilesPreserve DEF Working, Early

LEMMA ExitPreserves == ASSUME IInv, Exit PROVE IInv'
<1>1. /\ UNCHANGED <<tu, file_infos, waiting, current, uses>>
      /\ ~Working /\ ~Working' /\ ~Early' /\ phase # "cover" /\ phase' # "cover"
  BY DEF Exit, constants, cover_vars, Early, Working
<1>2. IsSeq(uses')
  BY <1>1 DEF IInv, StateOK
<1> QED BY <1>1, <1>2, SameFilesPreserve

(* The CHECK_ of desired_includes() ends the program. *)
LEMMA FailCheckPreserves == ASSUME IInv, NEW f, FailCheck(f) PROVE IInv'
<1>1. /\ UNCHANGED <<tu, file_infos, waiting, current, uses>>
      /\ ~Working /\ ~Working' /\ ~Early' /\ phase # "cover" /\ phase' # "cover"
  BY DEF FailCheck, constants, cover_vars, Early, Working
<1>2. IsSeq(uses')
  BY <1>1 DEF IInv, StateOK
<1> QED BY <1>1, <1>2, SameFilesPreserve

(* Nothing that is done inherits from a file that is under way.            *)
LEMMA DoneFilesDoNotInherit ==
  ASSUME IInv, phase = "cover",
         NEW f \in tu.files_to_report, ~Unfinished(f)
  PROVE  current \notin tu.associated[f]
BY DEF IInv, OrderOK, Unfinished, Working, AssociatedCalculated

LEMMA SetDesiredIncludesPreserves ==
  ASSUME IInv, SetDesiredIncludes
  PROVE  IInv'
<1> DEFINE info == file_infos[current]
           D == DesiredIncludes
           more == [info EXCEPT !.desired_includes = D, !.calculated = TRUE]
<1>1. /\ phase = "cover" /\ phase' = "judge"
      /\ UNCHANGED <<tu, waiting, current, uses>>
      /\ file_infos' = [file_infos EXCEPT ![current].desired_includes = D,
                                          ![current].calculated = TRUE]
  BY DEF SetDesiredIncludes, constants
<1>2. /\ Working /\ Working' /\ ~Early'
      /\ current \in tu.files_to_report \ waiting /\ current \in Files
  BY <1>1, ProgramOK DEF IInv, OrderOK, Working, Early
<1>3. DOMAIN file_infos = Files /\ InfoOK(info)
  BY <1>2 DEF IInv, StateOK
<1> HIDE DEF D
<1>4. /\ DOMAIN file_infos' = Files /\ file_infos'[current] = more
      /\ \A g \in Files \ {current} : file_infos'[g] = file_infos[g]
  BY <1>1, <1>2, <1>3
<1>5. /\ DOMAIN more = InfoFields
      /\ more.lines = info.lines /\ more.symbol_uses = info.symbol_uses
      /\ more.using_decl_referenced = info.using_decl_referenced
      /\ more.calculated
  BY <1>3 DEF InfoOK, InfoFields
<1> HIDE DEF info, more
<1>6. StateOK'
  BY <1>1, <1>3, <1>4, <1>5 DEF IInv, StateOK, InfoOK
<1>7. OrderOK'
  <2>1. /\ waiting \subseteq tu.files_to_report /\ tu.files_to_report \subseteq Files
        /\ \A g \in tu.files_to_report : tu.associated[g] \subseteq Files
    BY ProgramOK DEF IInv, OrderOK
  <2>2. \A g \in Files : file_infos[g].calculated => file_infos'[g].calculated
    BY <1>4, <1>5
  <2>3. \A g \in tu.files_to_report \ waiting : file_infos'[g].calculated
    BY <1>4, <1>5, <2>1 DEF IInv, OrderOK
  <2>4. \A g \in tu.files_to_report \ waiting : AssociatedCalculated(g)'
    BY <1>1, <2>1, <2>2 DEF IInv, OrderOK, AssociatedCalculated
  <2>5. \A g \in waiting' : ~file_infos'[g].calculated
    BY <1>1, <1>2, <1>4, <2>1 DEF IInv, OrderOK
  <2> QED BY <1>1, <1>2, <2>3, <2>4, <2>5 DEF IInv, OrderOK
<1>8. LinesOK'
  <2> SUFFICES ASSUME NEW f \in tu.files_to_report
               PROVE  IF Unfinished(f)' THEN Fresh(file_infos'[f].lines)
                      ELSE /\ AddedOnce(file_infos'[f].lines)
                           /\ OnlyIfKept(file_infos[f].lines, f)'
    BY <1>1 DEF LinesOK
  <2>1. (Unfinished(f)' <=> Unfinished(f)) /\ file_infos'[f].lines = file_infos[f].lines
    BY <1>1, <1>2, <1>4, <1>5, ProgramOK DEF Unfinished, IInv, info
  <2>2. CASE Unfinished(f)
    BY <2>1, <2>2 DEF IInv, LinesOK
  <2>3. CASE ~Unfinished(f)
    <3>1. tu.associated[f] \subseteq Files \ {current}
      BY <1>1, <2>3, DoneFilesDoNotInherit, ProgramOK DEF IInv
    <3>2. \A g \in tu.associated[f] : file_infos'[g] = file_infos[g]
      BY <1>4, <3>1
    <3>3. AssociatedDesiredIncludes(f)' = AssociatedDesiredIncludes(f)
      BY <1>1, <3>2 DEF AssociatedDesiredIncludes
    <3>4. OnlyIfKept(file_infos[f].lines, f)
      BY <2>3 DEF IInv, LinesOK
    <3>5. OnlyIfKept(file_infos[f].lines, f)'
      BY <1>1, <2>1, <3>3, <3>4 DEF OnlyIfKept
    <3> QED BY <2>1, <2>3, <3>5 DEF IInv, LinesOK
  <2> QED BY <2>2, <2>3
<1> QED BY <1>6, <1>7, <1>8 DEF IInv

LEMMA CalculateAndReportPreserves ==
  ASSUME IInv, CalculateAndReportIwyuViolations
  PROVE  IInv'
<1> DEFINE info == file_infos[current]
           L == FinishedLines(info.lines)
           more == [info EXCEPT !.lines = L, !.symbol_uses = uses]
<1>1. /\ phase = "judge" /\ phase' = "choose" /\ current' = NoFile /\ uses' = <<>>
      /\ UNCHANGED <<tu, waiting>>
      /\ file_infos' = [file_infos EXCEPT ![current].lines = L, ![current].symbol_uses = uses]
  BY DEF CalculateAndReportIwyuViolations, FinishedLines, constants
<1>2. /\ Working /\ ~Working' /\ ~Early'
      /\ current \in tu.files_to_report \ waiting /\ current \in Files
  BY <1>1, ProgramOK DEF IInv, OrderOK, Working, Early
<1>3. DOMAIN file_infos = Files /\ InfoOK(info) /\ IsSeq(uses) /\ IsSeq(uses')
  BY <1>1, <1>2, EmptyIsSeq DEF IInv, StateOK
<1>4. AddedOnce(L) /\ OnlyIfKept(L, current)
  <2>1. Fresh(info.lines)
    BY <1>2 DEF IInv, LinesOK, Unfinished
  <2> QED BY <1>3, <2>1, FinishedOnce
<1> HIDE DEF L
<1>5. /\ DOMAIN file_infos' = Files /\ file_infos'[current] = more
      /\ \A g \in Files \ {current} : file_infos'[g] = file_infos[g]
  BY <1>1, <1>2, <1>3
<1>6. /\ DOMAIN more = InfoFields
      /\ more.lines = L /\ more.symbol_uses = uses
      /\ more.using_decl_referenced = info.using_decl_referenced
      /\ more.desired_includes = info.desired_includes
      /\ more.calculated = info.calculated
  BY <1>3 DEF InfoOK, InfoFields
<1> HIDE DEF more
<1>7. StateOK'
  BY <1>1, <1>3, <1>5, <1>6 DEF IInv, StateOK, InfoOK
<1>8. OrderOK'
  <2>1. /\ waiting \subseteq tu.files_to_report /\ tu.files_to_report \subseteq Files
        /\ \A g \in tu.files_to_report : tu.associated[g] \subseteq Files
    BY ProgramOK DEF IInv, OrderOK
  <2>2. \A g \in Files : file_infos'[g].calculated = file_infos[g].calculated
    BY <1>5, <1>6
  <2>3. \A g \in tu.files_to_report \ waiting : file_infos'[g].calculated
    BY <1>1, <2>1, <2>2 DEF IInv, OrderOK
  <2>4. \A g \in tu.files_to_report \ waiting : AssociatedCalculated(g)'
    BY <1>1, <2>1, <2>2 DEF IInv, OrderOK, AssociatedCalculated
  <2>5. \A g \in waiting' : ~file_infos'[g].calculated
    BY <1>1, <2>1, <2>2 DEF IInv, OrderOK
  <2> QED BY <1>1, <1>2, <2>3, <2>4, <2>5 DEF IInv, OrderOK
<1>9. LinesOK'
  <2> SUFFICES ASSUME NEW f \in tu.files_to_report
               PROVE  IF Unfinished(f)' THEN Fresh(file_infos'[f].lines)
                      ELSE /\ AddedOnce(file_infos'[f].lines)
                           /\ OnlyIfKept(file_infos[f].lines, f)'
    BY <1>1 DEF LinesOK
  <2>1. \A g \in Files : file_infos'[g].desired_includes = file_infos[g].desired_includes
    BY <1>5, <1>6
  <2>2. AssociatedDesiredIncludes(f)' = AssociatedDesiredIncludes(f)
    BY <1>1, <2>1, ProgramOK DEF IInv, AssociatedDesiredIncludes
  <2>3. Unfinished(f)' <=> f \in waiting
    BY <1>1, <1>2 DEF Unfinished
  <2>4. CASE f = current
    BY <1>1, <1>2, <1>4, <1>5, <1>6, <2>2, <2>3, <2>4 DEF OnlyIfKept
  <2>5. CASE f # current
    <3>1. file_infos'[f] = file_infos[f]
      BY <1>5, <2>5, ProgramOK DEF IInv
    <3>2. Unfinished(f)' <=> Unfinished(f)
      BY <2>3, <2>5 DEF Unfinished
    <3>3. OnlyIfKept(file_infos[f].lines, f) <=> OnlyIfKept(file_infos[f].lines, f)'
      BY <1>1, <2>2, <3>1 DEF OnlyIfKept
    <3> QED BY <3>1, <3>2, <3>3 DEF IInv, LinesOK
  <2> QED BY <2>4, <2>5
<1> QED BY <1>7, <1>8, <1>9 DEF IInv

-----------------------------------------------------------------------------
LEMMA InitIInv == Init => IInv
<1> SUFFICES ASSUME Init PROVE IInv
  OBVIOUS
<1> DEFINE none == [d \in {} |-> FALSE]
           info == [lines |-> <<>>, symbol_uses |-> <<>>, using_decl_referenced |-> none,
                    desired_includes |-> {}, calculated |-> FALSE]
<1>1. /\ tu \in Programs /\ phase = "preprocess" /\ current = NoFile
      /\ waiting = tu.files_to_report /\ uses = <<>>
      /\ file_infos = [f \in Files |-> info]
  BY DEF Init
<1>2. IsFiniteSet(DOMAIN none)
  BY FS_EmptySet
<1> HIDE DEF none
<1>3. InfoOK(info) /\ info.lines = <<>>
  BY <1>2, EmptyIsSeq DEF InfoOK, InfoFields
<1> HIDE DEF info
<1>4. StateOK
  BY <1>1, <1>3, EmptyIsSeq DEF StateOK
<1>5. /\ tu.files_to_report \subseteq Files /\ tu.main \in tu.files_to_report
  BY <1>4, ProgramOK
<1>6. \A f \in Files : ~file_infos[f].calculated
  BY <1>1 DEF info
<1>7. OrderOK
  BY <1>1, <1>5, <1>6 DEF OrderOK, Early, Working
<1>8. Fresh(<<>>)
  BY EmptyIsSeq DEF Fresh
<1>9. LinesOK
  BY <1>1, <1>3, <1>5, <1>8 DEF LinesOK, Unfinished
<1> QED BY <1>4, <1>7, <1>9 DEF IInv

LEMMA NextPreserves ==
  ASSUME IInv, [Next]_vars
  PROVE  IInv'
<1>1. CASE SeeInclude
  BY <1>1, SeeIncludePreserves
<1>2. CASE StartTraversal \/ StartReports
  BY <1>2, StartingPreserves
<1>3. CASE VisitDecl
  BY <1>3, VisitDeclPreserves
<1>4. CASE ReportUse
  BY <1>4, ReportUsePreserves
<1>5. CASE ResolvePendingAnalysis
  BY <1>5, ResolvePendingAnalysisPreserves
<1>6. ASSUME NEW f \in Files, StartFile(f) PROVE IInv'
  BY <1>6, StartFilePreserves
<1>7. CASE CalculateMinimalIncludes
  BY <1>7, CalculateMinimalIncludesPreserves
<1>8. CASE SetDesiredIncludes
  BY <1>8, SetDesiredIncludesPreserves
<1>9. CASE JudgeUse
  BY <1>9, JudgeUsePreserves
<1>10. CASE CalculateAndReportIwyuViolations
  BY <1>10, CalculateAndReportPreserves
<1>11. CASE Exit
  BY <1>11, ExitPreserves
<1>12. ASSUME NEW f \in Files, FailCheck(f) PROVE IInv'
  BY <1>12, FailCheckPreserves
<1>13. CASE UNCHANGED vars
  <2>1. /\ UNCHANGED <<tu, file_infos, waiting, current, uses, phase>>
    BY <1>13 DEF vars, constants, cover_vars
  <2> QED BY <2>1, SameFilesPreserve DEF Working, Early, IInv, StateOK
<1> QED BY <1>1, <1>2, <1>3, <1>4, <1>5, <1>6, <1>7, <1>8, <1>9, <1>10, <1>11, <1>12,
           <1>13 DEF Next

(* Headers are calculated before the main file, the lines of a file are    *)
(* those that were read until it is its turn, and after that every line    *)
(* that was added is the only one of its kind.                             *)
THEOREM InductiveInvariant == Spec => []IInv
<1>1. IInv /\ [Next]_vars => IInv'
  BY NextPreserves
<1> QED BY InitIInv, <1>1, PTL DEF Spec

(* HandleTranslationUnit, and the CHECK_ in desired_includes(): the order  *)
(* in which files are calculated never fails the check for the headers that *)
(* are associated with the main file by name; where it fails, a pragma has  *)
(* given associates to a header or the main file to itself.                 *)
THEOREM FailsOnlyForPragmasAlways == Spec => []FailsOnlyForPragmas
<1>1. Init => FailsOnlyForPragmas
  BY DEF Init, FailsOnlyForPragmas
<1>2. ASSUME IInv, FailsOnlyForPragmas, [Next]_vars PROVE FailsOnlyForPragmas'
  <2>1. ASSUME NEW f \in Files, FailCheck(f) PROVE FailsOnlyForPragmas'
    <3>1. /\ phase = "choose" /\ f \in waiting /\ InOrder(f) /\ tu' = tu
      BY <2>1 DEF FailCheck, constants
    <3>2. PICK g \in tu.associated[f] : ~file_infos[g].calculated
      BY <2>1 DEF FailCheck, AssociatedCalculated
    <3>3. f \in tu.files_to_report /\ g \in tu.files_to_report
      BY <1>2, <3>1, <3>2, ProgramOK DEF IInv, OrderOK
    <3>4. g \in waiting
      BY <1>2, <3>1, <3>2, <3>3 DEF IInv, OrderOK
    <3>5. CASE f = tu.main
      BY <3>1, <3>2, <3>4, <3>5 DEF InOrder, FailsOnlyForPragmas
    <3>6. CASE f # tu.main
      BY <3>1, <3>2, <3>3, <3>6 DEF FailsOnlyForPragmas
    <3> QED BY <3>5, <3>6
  <2>2. CASE UNCHANGED vars
    BY <1>2, <2>2 DEF FailsOnlyForPragmas, vars, constants
  <2>3. CASE SeeInclude \/ VisitDecl \/ ReportUse \/ JudgeUse \/ CalculateMinimalIncludes
    BY <2>3 DEF FailsOnlyForPragmas, SeeInclude, VisitDecl, ReportUse, JudgeUse,
                CalculateMinimalIncludes
  <2>4. CASE \/ StartTraversal \/ StartReports \/ ResolvePendingAnalysis
             \/ SetDesiredIncludes \/ CalculateAndReportIwyuViolations \/ Exit
    BY <2>4 DEF FailsOnlyForPragmas, StartTraversal, StartReports, ResolvePendingAnalysis,
                SetDesiredIncludes, CalculateAndReportIwyuViolations, Exit
  <2>5. ASSUME NEW f \in Files, StartFile(f) PROVE FailsOnlyForPragmas'
    BY <2>5 DEF FailsOnlyForPragmas, StartFile
  <2> QED BY <1>2, <2>1, <2>2, <2>3, <2>4, <2>5 DEF Next
<1> QED BY <1>1, <1>2, InductiveInvariant, PTL DEF Spec

(* CalculateDesiredIncludesAndForwardDeclares: no #include and no forward  *)
(* declaration is added that a line of the file already is, and none that  *)
(* an associated header desires, except for the sake of a file that is     *)
(* kept.                                                                   *)
THEOREM NothingAddedTwiceAlways == Spec => []NothingAddedTwice
<1>1. IInv => NothingAddedTwice
  <2> SUFFICES ASSUME IInv, NEW f \in tu.files_to_report,
                      NEW i \in DOMAIN file_infos[f].lines,
                      file_infos[f].lines[i].desired, ~file_infos[f].lines[i].present
               PROVE  LET line(j) == file_infos[f].lines[j]
                      IN  /\ \A j \in DOMAIN file_infos[f].lines :
                               j # i /\ line(j).desired =>
                                 IF IsIncludeLine(line(i)) THEN line(j).header # line(i).header
                                 ELSE IsIncludeLine(line(j))
                                      \/ DeclInfo[line(j).decl].entity # DeclInfo[line(i).decl].entity
                          /\ \A g \in tu.associated[f] :
                               IsIncludeLine(line(i))
                               /\ line(i).header \in file_infos[g].desired_includes
                               => <<f, line(i).included_file>> \in tu.kept_includes
    BY DEF NothingAddedTwice
  <2> DEFINE lines == file_infos[f].lines
  <2>1. AddedOnce(lines) /\ OnlyIfKept(lines, f)
    BY DEF IInv, LinesOK, Fresh
  <2>2. \A j \in DOMAIN lines : j # i => Apart(lines[i], lines[j])
    BY <2>1 DEF AddedOnce
  <2>3. \A g \in tu.associated[f] :
          file_infos[g].desired_includes \subseteq AssociatedDesiredIncludes(f)
    BY DEF AssociatedDesiredIncludes
  <2> QED BY <2>1, <2>2, <2>3 DEF Apart, OnlyIfKept
<1> QED BY <1>1, InductiveInvariant, PTL

-----------------------------------------------------------------------------
(* The last of finitely many declarations, and the first.                  *)
LEMMA LastInOrder ==
  ASSUME NEW S, IsFiniteSet(S), S # {}, NEW R,
         \A x \in S : <<x, x>> \notin R,
         \A x, y, z \in S : <<x, y>> \in R /\ <<y, z>> \in R => <<x, z>> \in R
  PROVE  \E m \in S : \A x \in S : <<m, x>> \notin R
<1> DEFINE Above(m) == {x \in S : <<m, x>> \in R}
           counts == {Cardinality(Above(m)) : m \in S}
<1>1. \A m \in S : IsFiniteSet(Above(m)) /\ Cardinality(Above(m)) \in Nat
  <2> SUFFICES ASSUME NEW m \in S
               PROVE  IsFiniteSet(Above(m)) /\ Cardinality(Above(m)) \in Nat
    OBVIOUS
  <2>1. Above(m) \subseteq S
    OBVIOUS
  <2> HIDE DEF Above
  <2> QED BY <2>1, FS_Subset, FS_CardinalityType
<1>2. \A x \in S : \A y \in S : y \in Above(x) <=> <<x, y>> \in R
  OBVIOUS
<1>3. \A x \in S : Above(x) \subseteq S
  OBVIOUS
<1> HIDE DEF Above
<1>4. PICK least \in counts : \A n \in counts : least <= n
  <2>1. counts \subseteq Nat /\ counts # {}
    BY <1>1
  <2> HIDE DEF counts
  <2> QED BY <2>1, LeastNumber
<1>5. PICK m \in S : least = Cardinality(Above(m))
  OBVIOUS
<1>6. SUFFICES ASSUME NEW x \in S, <<m, x>> \in R PROVE FALSE
  OBVIOUS
<1>7. Above(x) \subseteq Above(m) /\ x \in Above(m) /\ x \notin Above(x)
  BY <1>2, <1>3, <1>6
<1>8. Cardinality(Above(x)) \in counts
  OBVIOUS
<1>9. Cardinality(Above(m)) <= Cardinality(Above(x))
  <2> HIDE DEF counts
  <2> QED BY <1>4, <1>5, <1>8
<1>10. /\ Cardinality(Above(x)) <= Cardinality(Above(m))
       /\ Cardinality(Above(m)) = Cardinality(Above(x)) => Above(m) = Above(x)
  BY <1>1, <1>7, FS_Subset
<1> QED BY <1>1, <1>7, <1>9, <1>10

LEMMA PositionType ==
  ASSUME NEW d \in Decls
  PROVE  Position(d) \in Nat \X Nat
BY FilesAssumption, DeclsAssumption DEF Position

LEMMA PositionsOrdered ==
  ASSUME NEW p \in Nat \X Nat, NEW q \in Nat \X Nat, NEW r \in Nat \X Nat
  PROVE  ~IsBefore(p, p) /\ (IsBefore(p, q) /\ IsBefore(q, r) => IsBefore(p, r))
BY DEF IsBefore

LEMMA LastDecl ==
  ASSUME NEW S, S \subseteq Decls, IsFiniteSet(S), S # {}
  PROVE  \E m \in S : \A d \in S : ~IsBefore(Position(m), Position(d))
<1> DEFINE R == {p \in S \X S : IsBefore(Position(p[1]), Position(p[2]))}
<1>1. \A x, y \in S : <<x, y>> \in R <=> IsBefore(Position(x), Position(y))
  OBVIOUS
<1> HIDE DEF R
<1>2. \A x \in S : Position(x) \in Nat \X Nat
  BY PositionType
<1>3. \A x \in S : <<x, x>> \notin R
  BY <1>1, <1>2, PositionsOrdered
<1>4. \A x, y, z \in S : <<x, y>> \in R /\ <<y, z>> \in R => <<x, z>> \in R
  BY <1>1, <1>2, PositionsOrdered
<1>5. \E m \in S : \A x \in S : <<m, x>> \notin R
  BY <1>3, <1>4, LastInOrder
<1> QED BY <1>1, <1>5

LEMMA FirstDecl ==
  ASSUME NEW S, S \subseteq Decls, IsFiniteSet(S), S # {}
  PROVE  \E m \in S : \A d \in S : ~IsBefore(Position(d), Position(m))
<1> DEFINE R == {p \in S \X S : IsBefore(Position(p[2]), Position(p[1]))}
<1>1. \A x, y \in S : <<x, y>> \in R <=> IsBefore(Position(y), Position(x))
  OBVIOUS
<1> HIDE DEF R
<1>2. \A x \in S : Position(x) \in Nat \X Nat
  BY PositionType
<1>3. \A x \in S : <<x, x>> \notin R
  BY <1>1, <1>2, PositionsOrdered
<1>4. \A x, y, z \in S : <<x, y>> \in R /\ <<y, z>> \in R => <<x, z>> \in R
  BY <1>1, <1>2, PositionsOrdered
<1>5. \E m \in S : \A x \in S : <<m, x>> \notin R
  BY <1>3, <1>4, LastInOrder
<1> QED BY <1>1, <1>5

-----------------------------------------------------------------------------
(* Declarations that stand for each other: what is asked about one of them *)
(* is answered for the same symbol.                                        *)
TheDecls == Range(tu.decls)

StandsFor(e, d) == e \in TheDecls /\ Symbol(e) = Symbol(d)

LEMMA DeclsOK ==
  ASSUME StateOK
  PROVE  /\ TheDecls \subseteq Decls /\ IsFiniteSet(TheDecls) /\ NoDecl \notin TheDecls
         /\ \A d \in TheDecls : DeclaredAsNeeded(tu, d) /\ DeclInfo[d].file \in Files
<1>1. tu \in Programs /\ tu.decls \in Seq(Decls) /\ \A d \in TheDecls : DeclaredAsNeeded(tu, d)
  BY ProgramsAssumption DEF StateOK, TheDecls
<1>2. TheDecls \subseteq Decls
  BY <1>1 DEF TheDecls, Range
<1>3. IsFiniteSet(TheDecls)
  <2> DEFINE n == Len(tu.decls)
             D == 1..n
  <2>1. n \in Nat /\ tu.decls \in [D -> Decls]
    BY <1>1
  <2>2. 1 \in Int /\ n \in Int
    BY <2>1
  <2> HIDE DEF n
  <2>3. IsFiniteSet(D)
    BY <2>2, FS_Interval
  <2> HIDE DEF D
  <2>4. tu.decls \in Surjection(D, TheDecls)
    BY <2>1 DEF TheDecls, Range, Surjection
  <2> QED BY <2>3, <2>4, FS_Surjection
<1> QED BY <1>1, <1>2, <1>3, DeclsAssumption

LEMMA RedeclsOK ==
  ASSUME StateOK, NEW e
  PROVE  /\ Redecls(e) \subseteq TheDecls /\ Redecls(e) \subseteq Decls
         /\ IsFiniteSet(Redecls(e)) /\ NoDecl \notin Redecls(e)
         /\ \A d \in Redecls(e) : DeclInfo[d].entity = e
<1>1. Redecls(e) \subseteq TheDecls /\ \A d \in Redecls(e) : DeclInfo[d].entity = e
  BY DEF Redecls, TheDecls
<1> QED BY <1>1, DeclsOK, FS_Subset

(* Redeclarations, of an entity or of the template of a specialization. *)
LEMMA RedeclStandsFor ==
  ASSUME StateOK, NEW d \in TheDecls,
         NEW e \in Redecls(DeclInfo[d].entity) \cup Redecls(Symbol(d))
  PROVE  StandsFor(e, d)
<1>1. e \in TheDecls
  BY RedeclsOK
<1>2. CASE DeclInfo[e].entity = DeclInfo[d].entity
  BY <1>1, <1>2 DEF StandsFor, Symbol, Kind
<1>3. CASE DeclInfo[e].entity = Symbol(d)
  <2>1. EntityInfo[Symbol(d)].kind # "specialization"
    BY DeclsOK, DeclsAssumption
  <2>2. Symbol(e) = DeclInfo[e].entity
    BY <1>3, <2>1 DEF Symbol, Kind
  <2> QED BY <1>1, <1>3, <2>2 DEF StandsFor
<1> QED BY <1>2, <1>3, RedeclsOK

LEMMA TagRedeclStandsFor ==
  ASSUME StateOK, NEW d \in TheDecls, NEW e \in GetTagRedecls(d)
  PROVE  StandsFor(e, d)
<1>1. e \in Redecls(Symbol(d))
  BY DEF GetTagRedecls, NotFriend
<1> QED BY <1>1, RedeclStandsFor

LEMMA DeclItself ==
  ASSUME StateOK, NEW d \in TheDecls
  PROVE  StandsFor(d, d) /\ d \in Redecls(DeclInfo[d].entity)
BY DEF StandsFor, Redecls, TheDecls

LEMMA NonfriendStandsFor ==
  ASSUME StateOK, NEW d \in TheDecls
  PROVE  /\ GetNonfriendClassRedecls(d) # {}
         /\ \A e \in GetNonfriendClassRedecls(d) : StandsFor(e, d)
<1>1. \A e \in GetNonfriendClassRedecls(d) : StandsFor(e, d)
  BY TagRedeclStandsFor, DeclItself DEF GetNonfriendClassRedecls
<1>2. CASE ~(Kind(d) \in TagKinds /\ "friend" \in DeclInfo[d].traits)
  BY <1>1, <1>2 DEF GetNonfriendClassRedecls
<1>3. CASE Kind(d) \in TagKinds /\ Kind(d) = "specialization"
  <2>1. PICK t \in TheDecls : /\ DeclInfo[t].entity = Symbol(d)
                              /\ "friend" \notin DeclInfo[t].traits
    BY <1>3, DeclsOK DEF DeclaredAsNeeded, TheDecls
  <2>2. t \in GetTagRedecls(d)
    BY <1>3, <2>1 DEF GetTagRedecls, NotFriend, Redecls, TheDecls
  <2>3. GetNonfriendClassRedecls(d) \in {{d}, GetTagRedecls(d)}
    BY DEF GetNonfriendClassRedecls
  <2> QED BY <1>1, <2>2, <2>3
<1>4. CASE Kind(d) \in TagKinds /\ Kind(d) # "specialization"
  <2>1. Symbol(d) = DeclInfo[d].entity
    BY <1>4 DEF Symbol
  <2>2. d \in GetTagRedecls(d)
    BY <1>4, <2>1, DeclItself DEF GetTagRedecls, NotFriend
  <2>3. GetNonfriendClassRedecls(d) \in {{d}, GetTagRedecls(d)}
    BY DEF GetNonfriendClassRedecls
  <2> QED BY <1>1, <2>2, <2>3
<1> QED BY <1>2, <1>3, <1>4

LEMMA DefinitionIsRedecl ==
  ASSUME NEW e, Definition(e) # NoDecl
  PROVE  Definition(e) \in Redecls(e)
BY DEF Definition

LEMMA TagDefinitionStandsFor ==
  ASSUME StateOK, NEW d \in TheDecls, GetTagDefinition(d) # NoDecl
  PROVE  StandsFor(GetTagDefinition(d), d)
<1>1. \/ GetTagDefinition(d) = Definition(DeclInfo[d].entity)
      \/ GetTagDefinition(d) = Definition(Symbol(d))
  BY DEF GetTagDefinition
<1>2. GetTagDefinition(d) \in Redecls(DeclInfo[d].entity) \cup Redecls(Symbol(d))
  BY <1>1, DefinitionIsRedecl
<1> QED BY <1>2, RedeclStandsFor

LEMMA AsWrittenStandsFor ==
  ASSUME StateOK, NEW d \in TheDecls
  PROVE  StandsFor(GetDefinitionAsWritten(d), d)
<1>1. \/ GetDefinitionAsWritten(d) = d
      \/ /\ Definition(DeclInfo[d].entity) # NoDecl
         /\ GetDefinitionAsWritten(d) = Definition(DeclInfo[d].entity)
      \/ /\ GetTagDefinition(d) # NoDecl
         /\ GetDefinitionAsWritten(d) = GetTagDefinition(d)
  BY DEF GetDefinitionAsWritten
<1> QED BY <1>1, DeclItself, DefinitionIsRedecl, RedeclStandsFor, TagDefinitionStandsFor

LEMMA DefinitionsStandFor ==
  ASSUME StateOK, NEW use, use.decl \in TheDecls, NEW d \in Definitions(use)
  PROVE  StandsFor(d, use.decl)
<1>1. d # NoDecl
  BY DEF Definitions
<1>2. CASE d = GetTagDefinition(use.decl)
  BY <1>1, <1>2, TagDefinitionStandsFor
<1>3. CASE \E e \in DOMAIN EntityInfo :
             /\ EntityInfo[e].kind = "specialization" /\ EntityInfo[e].of = Symbol(use.decl)
             /\ d = Definition(e)
  <2>1. PICK e \in DOMAIN EntityInfo :
             /\ EntityInfo[e].kind = "specialization" /\ EntityInfo[e].of = Symbol(use.decl)
             /\ d = Definition(e)
    BY <1>3
  <2>2. d \in Redecls(e)
    BY <1>1, <2>1, DefinitionIsRedecl
  <2>3. d \in TheDecls /\ DeclInfo[d].entity = e
    BY <2>2, RedeclsOK
  <2> QED BY <2>1, <2>3 DEF StandsFor, Symbol, Kind
<1> QED BY <1>2, <1>3 DEF Definitions

-----------------------------------------------------------------------------
(* Uses that the decls and the headers account for: those of a           *)
(* declaration are of one of the decls, and whatever may be suggested    *)
(* for them is among the headers.                                          *)
UseFields ==
  {"use_file", "use_line", "decl", "symbol", "decl_filepath", "decl_file", "decl_loc",
   "full", "flags", "public_headers", "canonical_headers", "suggested_header",
   "ignore_use", "is_iwyu_violation"}

OfDecl(use, decls) ==
  /\ use.decl \in decls
  /\ use.symbol = Symbol(use.decl)
  /\ use.decl_filepath = DeclInfo[use.decl].file

WithoutDecl(use, headers) ==
  /\ use.decl = NoDecl /\ use.full
  /\ HasSuggestedHeader(use)
     \/ /\ use.decl_filepath \in Files
        /\ WithCanonical(GetMappedPublicHeaders(use.symbol, use.decl_filepath)) \subseteq headers

Explained(use, decls, headers) ==
  /\ DOMAIN use = UseFields
  /\ use.decl_file \in headers
  /\ use.suggested_header \in headers \cup {NoHeader}
  /\ use.public_headers \in Seq(headers) /\ use.canonical_headers \in Seq(headers)
  /\ OfDecl(use, decls) \/ WithoutDecl(use, headers)

(* Whatever declares the same is accounted for with it.                    *)
Accounted(decls, headers) ==
  /\ decls \subseteq TheDecls
  /\ \A d \in decls : \A e : StandsFor(e, d) => e \in decls
  /\ \A d \in decls : HeadersOf(Symbol(d)) \subseteq headers

LEMMA OfDeclHasDecl ==
  ASSUME StateOK, NEW decls, NEW headers, Accounted(decls, headers),
         NEW use, OfDecl(use, decls)
  PROVE  use.decl # NoDecl /\ use.decl \in TheDecls
BY DeclsOK DEF OfDecl, Accounted

LEMMA HeadersOfDecl ==
  ASSUME NEW d \in TheDecls
  PROVE  /\ QuotedInclude[DeclInfo[d].file] \in HeadersOf(Symbol(d))
         /\ WithCanonical(DefinitionHeaders(d)) \subseteq HeadersOf(Symbol(d))
         /\ WithCanonical(Lookup(FwdHeaders, Symbol(d))) \subseteq HeadersOf(Symbol(d))
BY DEF TheDecls, HeadersOf, DefinitionHeaders

LEMMA MoreExplains ==
  ASSUME NEW use, NEW decls, NEW headers, Explained(use, decls, headers),
         NEW decls2, decls \subseteq decls2, NEW headers2, headers \subseteq headers2
  PROVE  Explained(use, decls2, headers2)
<1>1. use.public_headers \in Seq(headers2) /\ use.canonical_headers \in Seq(headers2)
  BY DEF Explained
<1> QED BY <1>1 DEF Explained, OfDecl, WithoutDecl

(* Operations on a use. *)
LEMMA MarkedExplained ==
  ASSUME NEW use, NEW decls, NEW headers, Explained(use, decls, headers)
  PROVE  /\ Explained(FullUse(use), decls, headers)
         /\ Explained(IgnoredUse(use), decls, headers)
         /\ Explained(Violation(use), decls, headers)
         /\ OfDecl(use, decls) => Explained(ForwardDeclareUse(use), decls, headers)
         /\ FullUse(use).decl = use.decl /\ IgnoredUse(use).decl = use.decl
         /\ Violation(use).decl = use.decl /\ ForwardDeclareUse(use).decl = use.decl
<1>1. ASSUME NEW more, DOMAIN more = UseFields, more.decl = use.decl, more.symbol = use.symbol,
             more.decl_filepath = use.decl_filepath, more.decl_file = use.decl_file,
             more.suggested_header = use.suggested_header,
             more.public_headers = use.public_headers,
             more.canonical_headers = use.canonical_headers,
             OfDecl(use, decls) \/ more.full = use.full \/ more.full = TRUE
      PROVE  Explained(more, decls, headers)
  BY <1>1 DEF Explained, OfDecl, WithoutDecl, HasSuggestedHeader
<1>2. Explained(FullUse(use), decls, headers) /\ FullUse(use).decl = use.decl
  <2> DEFINE more == FullUse(use)
  <2>1. /\ DOMAIN more = UseFields /\ more.decl = use.decl /\ more.symbol = use.symbol
        /\ more.decl_filepath = use.decl_filepath /\ more.decl_file = use.decl_file
        /\ more.suggested_header = use.suggested_header
        /\ more.public_headers = use.public_headers
        /\ more.canonical_headers = use.canonical_headers /\ more.full = TRUE
    BY DEF FullUse, Explained, UseFields
  <2> HIDE DEF more
  <2>2. Explained(more, decls, headers)
    BY <1>1, <2>1
  <2> QED BY <2>1, <2>2 DEF more
<1>3. Explained(IgnoredUse(use), decls, headers) /\ IgnoredUse(use).decl = use.decl
  <2> DEFINE more == IgnoredUse(use)
  <2>1. /\ DOMAIN more = UseFields /\ more.decl = use.decl /\ more.symbol = use.symbol
        /\ more.decl_filepath = use.decl_filepath /\ more.decl_file = use.decl_file
        /\ more.suggested_header = use.suggested_header
        /\ more.public_headers = use.public_headers
        /\ more.canonical_headers = use.canonical_headers /\ more.full = use.full
    BY DEF IgnoredUse, Explained, UseFields
  <2> HIDE DEF more
  <2>2. Explained(more, decls, headers)
    BY <1>1, <2>1
  <2> QED BY <2>1, <2>2 DEF more
<1>4. Explained(Violation(use), decls, headers) /\ Violation(use).decl = use.decl
  <2> DEFINE more == Violation(use)
  <2>1. /\ DOMAIN more = UseFields /\ more.decl = use.decl /\ more.symbol = use.symbol
        /\ more.decl_filepath = use.decl_filepath /\ more.decl_file = use.decl_file
        /\ more.suggested_header = use.suggested_header
        /\ more.public_headers = use.public_headers
        /\ more.canonical_headers = use.canonical_headers /\ more.full = use.full
    BY DEF Violation, Explained, UseFields
  <2> HIDE DEF more
  <2>2. Explained(more, decls, headers)
    BY <1>1, <2>1
  <2> QED BY <2>1, <2>2 DEF more
<1>5. /\ OfDecl(use, decls) => Explained(ForwardDeclareUse(use), decls, headers)
      /\ ForwardDeclareUse(use).decl = use.decl
  <2> DEFINE more == ForwardDeclareUse(use)
  <2>1. /\ DOMAIN more = UseFields /\ more.decl = use.decl /\ more.symbol = use.symbol
        /\ more.decl_filepath = use.decl_filepath /\ more.decl_file = use.decl_file
        /\ more.suggested_header = use.suggested_header
        /\ more.public_headers = use.public_headers
        /\ more.canonical_headers = use.canonical_headers
    BY DEF ForwardDeclareUse, Explained, UseFields
  <2> HIDE DEF more
  <2>2. OfDecl(use, decls) => Explained(more, decls, headers)
    BY <1>1, <2>1
  <2> QED BY <2>1, <2>2 DEF more
<1> QED BY <1>2, <1>3, <1>4, <1>5

LEMMA SuggestedExplained ==
  ASSUME NEW use, NEW decls, NEW headers, Explained(use, decls, headers),
         NEW header \in headers, header # NoHeader
  PROVE  LET given == [use EXCEPT !.suggested_header = header]
         IN  /\ Explained(given, decls, headers)
             /\ HasSuggestedHeader(given) /\ given.decl = use.decl
             /\ given.ignore_use = use.ignore_use
<1> DEFINE given == [use EXCEPT !.suggested_header = header]
<1>1. /\ DOMAIN given = UseFields /\ given.decl = use.decl /\ given.symbol = use.symbol
      /\ given.decl_filepath = use.decl_filepath /\ given.decl_file = use.decl_file
      /\ given.suggested_header = header /\ given.full = use.full
      /\ given.public_headers = use.public_headers
      /\ given.canonical_headers = use.canonical_headers
      /\ given.ignore_use = use.ignore_use
  BY DEF Explained, UseFields
<1> HIDE DEF given
<1>2. Explained(given, decls, headers) /\ HasSuggestedHeader(given)
  BY <1>1 DEF Explained, OfDecl, WithoutDecl, HasSuggestedHeader
<1> QED BY <1>1, <1>2 DEF given

LEMMA ResetExplained ==
  ASSUME StateOK, NEW decls, NEW headers, Accounted(decls, headers),
         NEW use, Explained(use, decls, headers), OfDecl(use, decls),
         NEW d, StandsFor(d, use.decl)
  PROVE  LET reset == reset_decl(use, d)
         IN  /\ Explained(reset, decls, headers) /\ OfDecl(reset, decls)
             /\ reset.decl = d
<1> DEFINE reset == reset_decl(use, d)
<1>1. /\ DOMAIN reset = UseFields /\ reset.decl = d /\ reset.symbol = Symbol(d)
      /\ reset.decl_filepath = DeclInfo[d].file
      /\ reset.decl_file = QuotedInclude[DeclInfo[d].file]
      /\ reset.suggested_header = use.suggested_header
      /\ reset.public_headers = use.public_headers
      /\ reset.canonical_headers = use.canonical_headers
  BY DEF reset_decl, Explained, UseFields
<1> HIDE DEF reset
<1>2. d \in TheDecls /\ d \in decls
  BY DEF StandsFor, OfDecl, Accounted
<1>3. reset.decl_file \in headers
  BY <1>1, <1>2, HeadersOfDecl DEF Accounted
<1>4. OfDecl(reset, decls)
  BY <1>1, <1>2 DEF OfDecl
<1>5. Explained(reset, decls, headers)
  BY <1>1, <1>3, <1>4 DEF Explained
<1> QED BY <1>1, <1>4, <1>5 DEF reset

(* Lists of headers that the picker answers with. *)
LEMMA MappedType ==
  ASSUME NEW symbol, NEW f \in Files
  PROVE  GetMappedPublicHeaders(symbol, f) \in Seq(Headers)
BY AnswersAssumption DEF GetMappedPublicHeaders

LEMMA LookupType ==
  ASSUME NEW map \in {SymbolHeaders, FwdHeaders, HeaderHeaders}, NEW key
  PROVE  Lookup(map, key) \in Seq(Headers)
BY AnswersAssumption DEF Lookup

LEMMA AnswersWithin ==
  ASSUME NEW public \in Seq(Headers), public # <<>>,
         NEW headers, WithCanonical(public) \subseteq headers
  PROVE  /\ public \in Seq(headers)
         /\ <<public[1]>> \o Lookup(HeaderHeaders, public[1]) \in Seq(headers)
<1> DEFINE canonical == Lookup(HeaderHeaders, public[1])
<1>1. \A i \in 1 .. Len(public) : public[i] \in headers
  BY DEF WithCanonical, Range
<1>2. public \in Seq(headers) /\ public[1] \in headers
  BY <1>1
<1>3. canonical \in Seq(Headers) /\ Range(canonical) \subseteq headers
  BY LookupType DEF WithCanonical
<1> HIDE DEF canonical
<1>4. \A i \in 1 .. Len(canonical) : canonical[i] \in headers
  BY <1>3 DEF Range
<1>5. canonical \in Seq(headers)
  BY <1>3, <1>4
<1>6. <<public[1]>> \in Seq(headers)
  BY <1>2
<1>7. <<public[1]>> \o canonical \in Seq(headers)
  BY <1>5, <1>6
<1> QED BY <1>2, <1>7 DEF canonical

LEMMA FileHeaderType ==
  ASSUME NEW f \in Files
  PROVE  QuotedInclude[f] \in Headers /\ QuotedInclude[f] # NoHeader
BY FilesAssumption

LEMMA DeclMeansOfDecl ==
  ASSUME StateOK, NEW decls, NEW headers, Accounted(decls, headers),
         NEW use, Explained(use, decls, headers)
  PROVE  use.decl # NoDecl <=> OfDecl(use, decls)
BY OfDeclHasDecl DEF Explained, WithoutDecl

(* New uses. *)
LEMMA DeclUseExplained ==
  ASSUME StateOK, NEW decls, NEW headers, Accounted(decls, headers),
         NEW f, NEW line, NEW d \in decls,
         NEW full, NEW use_flags
  PROVE  Explained(DeclUse(f, line, d, full, use_flags), decls, headers)
<1> DEFINE use == DeclUse(f, line, d, full, use_flags)
<1>1. /\ DOMAIN use = UseFields /\ use.decl = d /\ use.symbol = Symbol(d)
      /\ use.decl_filepath = DeclInfo[d].file
      /\ use.decl_file = QuotedInclude[DeclInfo[d].file]
      /\ use.suggested_header = NoHeader
      /\ use.public_headers = <<>> /\ use.canonical_headers = <<>>
  BY DEF DeclUse, reset_decl, AUse, UseFields
<1> HIDE DEF use
<1>2. use.decl_file \in headers
  BY <1>1, HeadersOfDecl DEF Accounted
<1>3. OfDecl(use, decls)
  BY <1>1 DEF OfDecl
<1>4. <<>> \in Seq(headers)
  OBVIOUS
<1>5. Explained(use, decls, headers)
  BY <1>1, <1>2, <1>3, <1>4 DEF Explained
<1> QED BY <1>5 DEF use

LEMMA SymbolUseExplained ==
  ASSUME NEW decls, NEW headers, NEW f, NEW line, NEW symbol, NEW dfn_file \in Files,
         QuotedInclude[dfn_file] \in headers,
         WithCanonical(GetMappedPublicHeaders(symbol, dfn_file)) \subseteq headers
  PROVE  Explained(SymbolUse(f, line, symbol, dfn_file), decls, headers)
<1> DEFINE use == SymbolUse(f, line, symbol, dfn_file)
<1>1. /\ DOMAIN use = UseFields /\ use.decl = NoDecl /\ use.symbol = symbol /\ use.full
      /\ use.decl_filepath = dfn_file /\ use.decl_file = QuotedInclude[dfn_file]
      /\ use.suggested_header = NoHeader
      /\ use.public_headers = <<>> /\ use.canonical_headers = <<>>
  BY DEF SymbolUse, AUse, UseFields
<1> HIDE DEF use
<1>2. <<>> \in Seq(headers)
  OBVIOUS
<1>3. Explained(use, decls, headers)
  BY <1>1, <1>2 DEF Explained, WithoutDecl
<1> QED BY <1>3 DEF use

LEMMA IncludeFileUseExplained ==
  ASSUME NEW decls, NEW headers, NEW f, NEW included \in Files,
         QuotedInclude[included] \in headers
  PROVE  Explained(IncludeFileUse(f, included, QuotedInclude[included]), decls, headers)
<1> DEFINE header == QuotedInclude[included]
           use == IncludeFileUse(f, included, header)
<1>1. header # NoHeader
  BY FileHeaderType
<1>2. /\ DOMAIN use = UseFields /\ use.decl = NoDecl /\ use.full
      /\ use.decl_file = header /\ use.suggested_header = header
      /\ use.public_headers = <<>> /\ use.canonical_headers = <<>>
  BY DEF IncludeFileUse, SymbolUse, AUse, UseFields
<1> HIDE DEF use, header
<1>3. <<>> \in Seq(headers)
  OBVIOUS
<1>4. Explained(use, decls, headers)
  BY <1>1, <1>2, <1>3 DEF Explained, WithoutDecl, HasSuggestedHeader, header
<1> QED BY <1>4 DEF use, header

(* Headers are asked for. *)
LEMMA AnswersExplained ==
  ASSUME StateOK, NEW decls, NEW headers, Accounted(decls, headers),
         NEW use, Explained(use, decls, headers),
         OfDecl(use, decls) \/ ~HasSuggestedHeader(use)
  PROVE  /\ Explained(SetPublicHeaders(use), decls, headers)
         /\ SetPublicHeaders(use).decl = use.decl
         /\ SetPublicHeaders(use).full = use.full
<1> DEFINE public == IF use.full
                     THEN GetMappedPublicHeaders(use.symbol, use.decl_filepath)
                     ELSE Lookup(FwdHeaders, use.symbol)
           canonical == <<public[1]>> \o Lookup(HeaderHeaders, public[1])
           given == [use EXCEPT !.public_headers = public, !.canonical_headers = canonical]
<1>1. SetPublicHeaders(use) \in {use, given}
      /\ (SetPublicHeaders(use) = use \/ public # <<>>)
  BY DEF SetPublicHeaders
<1>2. public \in Seq(Headers) /\ WithCanonical(public) \subseteq headers
  <2>1. CASE OfDecl(use, decls)
    <3>1. /\ use.decl \in TheDecls /\ use.symbol = Symbol(use.decl)
          /\ use.decl_filepath = DeclInfo[use.decl].file /\ use.decl_filepath \in Files
          /\ HeadersOf(Symbol(use.decl)) \subseteq headers
      BY <2>1, DeclsOK DEF OfDecl, Accounted
    <3>2. CASE use.full
      <4>1. public = DefinitionHeaders(use.decl)
        BY <3>1, <3>2 DEF DefinitionHeaders
      <4>2. public \in Seq(Headers)
        BY <3>1, <3>2, MappedType
      <4> QED BY <3>1, <4>1, <4>2, HeadersOfDecl
    <3>3. CASE ~use.full
      <4>1. public = Lookup(FwdHeaders, Symbol(use.decl))
        BY <3>1, <3>3
      <4>2. public \in Seq(Headers)
        BY <4>1, LookupType
      <4> QED BY <3>1, <4>1, <4>2, HeadersOfDecl
    <3> QED BY <3>2, <3>3
  <2>2. CASE WithoutDecl(use, headers) /\ ~HasSuggestedHeader(use)
    <3>1. /\ use.full /\ use.decl_filepath \in Files
          /\ WithCanonical(GetMappedPublicHeaders(use.symbol, use.decl_filepath)) \subseteq headers
      BY <2>2 DEF WithoutDecl
    <3> QED BY <3>1, MappedType
  <2> QED BY <2>1, <2>2 DEF Explained
<1> HIDE DEF public
<1>3. public # <<>> => public \in Seq(headers) /\ canonical \in Seq(headers)
  BY <1>2, AnswersWithin
<1> HIDE DEF canonical
<1>4. /\ DOMAIN given = UseFields /\ given.decl = use.decl /\ given.symbol = use.symbol
      /\ given.decl_filepath = use.decl_filepath /\ given.decl_file = use.decl_file
      /\ given.suggested_header = use.suggested_header /\ given.full = use.full
      /\ given.public_headers = public /\ given.canonical_headers = canonical
  BY DEF Explained, UseFields
<1> HIDE DEF given
<1>5. public # <<>> => Explained(given, decls, headers)
  BY <1>3, <1>4 DEF Explained, OfDecl, WithoutDecl, HasSuggestedHeader
<1> QED BY <1>1, <1>4, <1>5

LEMMA WithHeadersExplained ==
  ASSUME StateOK, NEW decls, NEW headers, Accounted(decls, headers),
         NEW use, Explained(use, decls, headers)
  PROVE  Explained(WithHeaders(use), decls, headers)
BY AnswersExplained DEF WithHeaders

-----------------------------------------------------------------------------
(* Steps A and B. *)
LEMMA UseExportedDeclExplained ==
  ASSUME StateOK, NEW decls, NEW headers, Accounted(decls, headers),
         NEW use, Explained(use, decls, headers), OfDecl(use, decls)
  PROVE  /\ Explained(UseExportedDecl(use), decls, headers)
         /\ OfDecl(UseExportedDecl(use), decls)
<1>1. CASE use.full \/ ExportedRedecls(use) = {}
  BY <1>1 DEF UseExportedDecl
<1>2. CASE ~(use.full \/ ExportedRedecls(use) = {})
  <2> DEFINE d == CHOOSE e \in ExportedRedecls(use) : TRUE
             reset == reset_decl(use, d)
             header == QuotedInclude[DeclInfo[d].file]
             given == [reset EXCEPT !.suggested_header = header]
  <2>1. UseExportedDecl(use) = given
    BY <1>2 DEF UseExportedDecl
  <2>2. d \in ExportedRedecls(use)
    BY <1>2
  <2> HIDE DEF d
  <2>3. StandsFor(d, use.decl)
    BY <2>2, RedeclStandsFor DEF OfDecl, ExportedRedecls, Accounted
  <2>4. Explained(reset, decls, headers) /\ OfDecl(reset, decls) /\ reset.decl = d
    BY <2>3, ResetExplained
  <2>5. header \in headers /\ header # NoHeader
    <3>1. d \in TheDecls /\ d \in decls
      BY <2>3 DEF StandsFor, OfDecl, Accounted
    <3> QED BY <3>1, HeadersOfDecl, DeclsOK, FileHeaderType DEF Accounted
  <2> HIDE DEF reset, header
  <2>6. Explained(given, decls, headers) /\ given.decl = d
    BY <2>4, <2>5, SuggestedExplained
  <2>7. d # NoDecl
    BY <2>4, OfDeclHasDecl
  <2> HIDE DEF given
  <2> QED BY <2>1, <2>6, <2>7, DeclMeansOfDecl
<1> QED BY <1>1, <1>2

LEMMA PromoteExplained ==
  ASSUME StateOK, NEW decls, NEW headers, Accounted(decls, headers),
         NEW use, Explained(use, decls, headers), OfDecl(use, decls)
  PROVE  Explained(PromoteToFullUse(use), decls, headers)
<1> DEFINE previous == {d \in Redecls(DeclInfo[use.decl].entity) :
                          ~IsBefore(Position(use.decl), Position(d))}
           elsewhere == {d \in previous :
                           /\ DeclInfo[d].file # use.use_file
                           /\ FileOrder[DeclInfo[d].file] < FileOrder[use.use_file]}
           last == CHOOSE d \in elsewhere :
                     \A e \in elsewhere : ~IsBefore(Position(d), Position(e))
           reset == reset_decl(use, last)
<1>1. \/ PromoteToFullUse(use) \in {use, FullUse(use)}
      \/ elsewhere # {} /\ PromoteToFullUse(use) = FullUse(reset)
  BY DEF PromoteToFullUse
<1>2. elsewhere \subseteq Redecls(DeclInfo[use.decl].entity)
  OBVIOUS
<1> HIDE DEF elsewhere
<1>3. ASSUME elsewhere # {} PROVE StandsFor(last, use.decl)
  <2>1. elsewhere \subseteq Decls /\ IsFiniteSet(elsewhere)
    BY <1>2, RedeclsOK, FS_Subset
  <2>2. \E d \in elsewhere : \A e \in elsewhere : ~IsBefore(Position(d), Position(e))
    BY <1>3, <2>1, LastDecl
  <2>3. last \in elsewhere
    BY <2>2
  <2> HIDE DEF last
  <2> QED BY <1>2, <2>3, RedeclStandsFor DEF OfDecl, Accounted
<1> HIDE DEF last
<1>4. elsewhere # {} => Explained(reset, decls, headers)
  BY <1>3, ResetExplained
<1> HIDE DEF reset
<1>5. elsewhere # {} => Explained(FullUse(reset), decls, headers)
  BY <1>4, MarkedExplained
<1>6. Explained(FullUse(use), decls, headers)
  BY MarkedExplained
<1> QED BY <1>1, <1>5, <1>6

LEMMA ProcessForwardDeclareExplained ==
  ASSUME StateOK, NEW decls, NEW headers, Accounted(decls, headers),
         NEW use, Explained(use, decls, headers), use.decl # NoDecl
  PROVE  Explained(ProcessForwardDeclare(use), decls, headers)
<1> DEFINE asked == IF IsInStd(use.decl) \/ ~DeclCanBeForwardDeclared(use.decl)
                    THEN SetPublicHeaders(use) ELSE use
           sorted == IF NeedsMoreThanDeclaration(use) THEN FullUse(asked) ELSE asked
<1>1. ProcessForwardDeclare(use) \in
        {use, FullUse(use), IgnoredUse(sorted), PromoteToFullUse(UseExportedDecl(sorted))}
  BY DEF ProcessForwardDeclare
<1>2. OfDecl(use, decls)
  BY DeclMeansOfDecl
<1>3. Explained(asked, decls, headers) /\ asked.decl = use.decl
  BY <1>2, AnswersExplained
<1> HIDE DEF asked
<1>4. Explained(sorted, decls, headers) /\ sorted.decl = use.decl
  BY <1>3, MarkedExplained
<1> HIDE DEF sorted
<1>5. OfDecl(sorted, decls)
  BY <1>4, DeclMeansOfDecl
<1> DEFINE exported == UseExportedDecl(sorted)
<1>6. Explained(exported, decls, headers) /\ OfDecl(exported, decls)
  BY <1>4, <1>5, UseExportedDeclExplained
<1> HIDE DEF exported
<1>7. Explained(PromoteToFullUse(exported), decls, headers)
  BY <1>6, PromoteExplained
<1>8. Explained(FullUse(use), decls, headers) /\ Explained(IgnoredUse(sorted), decls, headers)
  BY <1>4, MarkedExplained
<1> QED BY <1>1, <1>7, <1>8 DEF exported

LEMMA ProcessFullUseExplained ==
  ASSUME StateOK, NEW decls, NEW headers, Accounted(decls, headers),
         NEW use, Explained(use, decls, headers), use.decl # NoDecl, NEW all
  PROVE  Explained(ProcessFullUse(use, all), decls, headers)
<1>1. ProcessFullUse(use, all) \in {use, IgnoredUse(use), ForwardDeclareUse(use)}
  BY DEF ProcessFullUse
<1>2. OfDecl(use, decls)
  BY DeclMeansOfDecl
<1> QED BY <1>1, <1>2, MarkedExplained

LEMMA ProcessSymbolUseExplained ==
  ASSUME NEW decls, NEW headers, NEW use, Explained(use, decls, headers)
  PROVE  Explained(ProcessSymbolUse(use), decls, headers)
BY MarkedExplained DEF ProcessSymbolUse

(* All uses of a file. *)
AllExplained(us, decls, headers) == \A i \in DOMAIN us : Explained(us[i], decls, headers)

LEMMA ProcessedExplained ==
  ASSUME StateOK, NEW decls, NEW headers, Accounted(decls, headers),
         NEW us, AllExplained(us, decls, headers)
  PROVE  AllExplained(ProcessSymbolUses(ProcessFullUses(ProcessForwardDeclares(us))),
                      decls, headers)
<1> DEFINE a == ProcessForwardDeclares(us)
           b == ProcessFullUses(a)
           c == ProcessSymbolUses(b)
<1>1. AllExplained(a, decls, headers)
  <2>1. DOMAIN a = DOMAIN us
    BY DEF ProcessForwardDeclares
  <2>2. \A i \in DOMAIN us : \/ a[i] = us[i]
                             \/ us[i].decl # NoDecl /\ a[i] = ProcessForwardDeclare(us[i])
    BY DEF ProcessForwardDeclares
  <2> HIDE DEF a
  <2> QED BY <2>1, <2>2, ProcessForwardDeclareExplained DEF AllExplained
<1> HIDE DEF a
<1>2. AllExplained(b, decls, headers)
  <2>1. DOMAIN b = DOMAIN a
    BY DEF ProcessFullUses
  <2>2. \A i \in DOMAIN a : \/ b[i] = a[i]
                            \/ a[i].decl # NoDecl /\ b[i] = ProcessFullUse(a[i], a)
    BY DEF ProcessFullUses
  <2> HIDE DEF b
  <2> QED BY <1>1, <2>1, <2>2, ProcessFullUseExplained DEF AllExplained
<1> HIDE DEF b
<1>3. AllExplained(c, decls, headers)
  <2>1. DOMAIN c = DOMAIN b
    BY DEF ProcessSymbolUses
  <2>2. \A i \in DOMAIN b : c[i] = b[i] \/ c[i] = ProcessSymbolUse(b[i])
    BY DEF ProcessSymbolUses
  <2> HIDE DEF c
  <2> QED BY <1>2, <2>1, <2>2, ProcessSymbolUseExplained DEF AllExplained
<1> HIDE DEF c
<1> QED BY <1>3 DEF a, b, c

-----------------------------------------------------------------------------
(* CalculateMinimalIncludes suggests what the uses provide.                *)
LEMMA FirstInIsOne ==
  ASSUME NEW headers, NEW choices \in Seq(headers), NEW set,
         MinimalIncludes!FirstIn(choices, set) # NoHeader
  PROVE  MinimalIncludes!FirstIn(choices, set) \in headers
<1> DEFINE hits == {i \in DOMAIN choices : choices[i] \in set}
           first == CHOOSE i \in hits : \A j \in hits : i <= j
<1>1. hits # {} /\ MinimalIncludes!FirstIn(choices, set) = choices[first]
  BY DEF MinimalIncludes!FirstIn
<1>2. DOMAIN choices \subseteq Nat /\ \A i \in DOMAIN choices : choices[i] \in headers
  OBVIOUS
<1>3. hits \subseteq DOMAIN choices
  OBVIOUS
<1> HIDE DEF hits
<1>4. \E i \in hits : \A j \in hits : i <= j
  BY <1>1, <1>2, <1>3, LeastNumber
<1>5. first \in hits
  BY <1>4
<1> HIDE DEF first
<1> QED BY <1>1, <1>2, <1>3, <1>5

LEMMA FirstPickIsOne ==
  ASSUME NEW a, NEW b, NEW c, NEW d, MinimalIncludes!FirstPick(<<a, b, c, d>>) # NoHeader
  PROVE  MinimalIncludes!FirstPick(<<a, b, c, d>>) \in {a, b, c, d}
<1> DEFINE picks == <<a, b, c, d>>
           hits == {i \in DOMAIN picks : picks[i] # NoHeader}
           first == CHOOSE i \in hits : \A j \in hits : i <= j
<1>1. hits # {} /\ MinimalIncludes!FirstPick(picks) = picks[first]
  BY DEF MinimalIncludes!FirstPick
<1>2. DOMAIN picks \subseteq Nat /\ \A i \in DOMAIN picks : picks[i] \in {a, b, c, d}
  OBVIOUS
<1>3. hits \subseteq DOMAIN picks
  OBVIOUS
<1> HIDE DEF hits, picks
<1>4. \E i \in hits : \A j \in hits : i <= j
  BY <1>1, <1>2, <1>3, LeastNumber
<1>5. first \in hits
  BY <1>4
<1> HIDE DEF first
<1>6. MinimalIncludes!FirstPick(picks) \in {a, b, c, d}
  BY <1>1, <1>2, <1>3, <1>5
<1> QED BY <1>6 DEF picks

LEMMA PickIsProvided ==
  ASSUME NEW decls, NEW headers, NEW use, Explained(use, decls, headers),
         pass \in {"easy", "present", "needed"},
         MinimalIncludes!Pick(use) # NoHeader
  PROVE  MinimalIncludes!Pick(use) \in headers
<1>1. /\ use.decl_file \in headers
      /\ use.public_headers \in Seq(headers) /\ use.canonical_headers \in Seq(headers)
  BY DEF Explained
<1>2. CASE pass = "easy"
  <2>1. \/ MinimalIncludes!Pick(use) = use.decl_file
        \/ /\ Len(use.public_headers) = 1
           /\ MinimalIncludes!Pick(use) = use.public_headers[1]
    BY <1>2 DEF MinimalIncludes!Pick, MinimalIncludes!EasyPick
  <2> QED BY <1>1, <2>1
<1>3. CASE pass = "present"
  <2> DEFINE a == MinimalIncludes!FirstIn(use.public_headers, {QuotedInclude[current]})
             b == MinimalIncludes!FirstIn(use.public_headers, AssociatedDesiredIncludes(current))
             c == MinimalIncludes!FirstIn(use.public_headers,
                    DirectIncludes(current) \cap desired_headers)
             d == MinimalIncludes!FirstIn(use.canonical_headers, DirectIncludes(current))
  <2>1. MinimalIncludes!Pick(use) = MinimalIncludes!FirstPick(<<a, b, c, d>>)
    BY <1>3 DEF MinimalIncludes!Pick, MinimalIncludes!PresentPick
  <2>2. /\ a # NoHeader => a \in headers
        /\ b # NoHeader => b \in headers
        /\ c # NoHeader => c \in headers
        /\ d # NoHeader => d \in headers
    BY <1>1, FirstInIsOne
  <2> HIDE DEF a, b, c, d
  <2>3. MinimalIncludes!Pick(use) \in {a, b, c, d}
    BY <2>1, FirstPickIsOne
  <2> QED BY <2>2, <2>3
<1>4. CASE pass = "needed"
  BY <1>1, <1>4, FirstInIsOne DEF MinimalIncludes!Pick, MinimalIncludes!NeededPick
<1> QED BY <1>2, <1>3, <1>4

(* A use that the include lines are there for, if anything is. *)
Settled(use) == use.ignore_use \/ HasSuggestedHeader(use) \/ use.decl # NoDecl

LEMMA MinimalIncludesExplained ==
  ASSUME StateOK, NEW decls, NEW headers, Accounted(decls, headers),
         AllExplained(uses, decls, headers),
         CalculateMinimalIncludes
  PROVE  /\ AllExplained(uses', decls, headers)
         /\ pass' = "done" => \A i \in DOMAIN uses' : Settled(uses'[i])
<1>1. DOMAIN uses = 1 .. Len(uses) /\ uses = [i \in DOMAIN uses |-> uses[i]]
  BY SeqDomain DEF StateOK
<1>2. CASE UNCHANGED uses /\ pass' # "done"
  BY <1>2 DEF AllExplained
<1>3. CASE MinimalIncludes!GiveHeader
  <2> DEFINE use == uses[next_use]
             header == MinimalIncludes!Pick(use)
             given == [use EXCEPT !.suggested_header = header]
  <2>1. /\ pass \in {"easy", "present", "needed"} /\ pass' = pass
        /\ header # NoHeader /\ uses' = [uses EXCEPT ![next_use].suggested_header = header]
    BY <1>3 DEF MinimalIncludes!GiveHeader, MinimalIncludes!InPass
  <2>2. Explained(use, decls, headers) => Explained(given, decls, headers)
    <3> SUFFICES ASSUME Explained(use, decls, headers)
                 PROVE  Explained(given, decls, headers)
      OBVIOUS
    <3>1. header \in headers
      BY <2>1, PickIsProvided
    <3> HIDE DEF header
    <3> QED BY <2>1, <3>1, SuggestedExplained
  <2> HIDE DEF header
  <2>3. DOMAIN uses' = DOMAIN uses
        /\ \A i \in DOMAIN uses : uses'[i] = uses[i] \/ (i = next_use /\ uses'[i] = given)
    BY <2>1
  <2> HIDE DEF given
  <2> QED BY <2>1, <2>2, <2>3 DEF AllExplained
<1>4. ASSUME NEW header \in Headers, MinimalIncludes!Cover(header)
      PROVE  AllExplained(uses', decls, headers) /\ pass' # "done"
  <2> DEFINE served == {i \in DOMAIN uses : i \in MinimalIncludes!UnmappedUses
                                     /\ header \in MinimalIncludes!Candidates(uses[i])}
             given(i) == [uses[i] EXCEPT !.suggested_header = header]
  <2>1. /\ uses' = [i \in DOMAIN uses |-> IF i \in served THEN given(i) ELSE uses[i]]
        /\ pass' # "done"
    BY <1>4 DEF MinimalIncludes!Cover
  <2>2. ASSUME NEW i \in served PROVE Explained(given(i), decls, headers)
    <3>1. Explained(uses[i], decls, headers)
      BY DEF AllExplained
    <3>2. header \in headers
      BY <3>1 DEF MinimalIncludes!Candidates, Explained
    <3>3. header # NoHeader
      BY FilesAssumption
    <3> QED BY <3>1, <3>2, <3>3, SuggestedExplained
  <2>3. \A i \in DOMAIN uses : i \notin served => Explained(uses[i], decls, headers)
    BY DEF AllExplained
  <2> HIDE DEF served, given
  <2> QED BY <2>1, <2>2, <2>3 DEF AllExplained
<1>5. CASE MinimalIncludes!Return
  <2>1. uses' = uses /\ MinimalIncludes!UnmappedUses = {}
    BY <1>5 DEF MinimalIncludes!Return
  <2>2. ASSUME NEW i \in DOMAIN uses PROVE Settled(uses[i])
    <3>1. Explained(uses[i], decls, headers)
      BY DEF AllExplained
    <3>2. ~MinimalIncludes!NeedsSuggestedHeader(uses[i])
      BY <2>1 DEF MinimalIncludes!UnmappedUses
    <3>3. uses[i].ignore_use \/ HasSuggestedHeader(uses[i]) \/ ~uses[i].full
      BY <3>2 DEF MinimalIncludes!NeedsSuggestedHeader, MinimalIncludes!HasSuggestedHeader,
                  HasSuggestedHeader
    <3>4. ~uses[i].full => uses[i].decl # NoDecl
      BY <3>1, OfDeclHasDecl DEF Explained, WithoutDecl
    <3> QED BY <3>3, <3>4 DEF Settled
  <2> QED BY <2>1, <2>2
<1>6. CASE MinimalIncludes!TakeSuggested
  <2>1. UNCHANGED uses /\ pass' # "done"
    BY <1>6 DEF MinimalIncludes!TakeSuggested
  <2> QED BY <1>2, <2>1
<1>7. CASE MinimalIncludes!PassOver
  <2>1. UNCHANGED uses /\ pass' # "done"
    BY <1>7 DEF MinimalIncludes!PassOver, MinimalIncludes!InPass
  <2> QED BY <1>2, <2>1
<1>8. CASE MinimalIncludes!NextPass
  <2>1. UNCHANGED uses /\ pass' # "done"
    BY <1>8 DEF MinimalIncludes!NextPass
  <2> QED BY <1>2, <2>1
<1>9. MinimalIncludes!Next
  BY DEF CalculateMinimalIncludes
<1> QED BY <1>3, <1>4, <1>5, <1>6, <1>7, <1>8, <1>9 DEF MinimalIncludes!Next

-----------------------------------------------------------------------------
(* Steps D and E.                                                          *)
LEMMA GreatestNumber ==
  ASSUME NEW n \in Nat, NEW numbers, numbers \subseteq 1..n, numbers # {}
  PROVE  \E m \in numbers : \A i \in numbers : i <= m
<1> DEFINE short == {n - i : i \in numbers}
<1>1. short \subseteq Nat /\ short # {}
  <2>1. \A i \in numbers : n - i \in Nat
    OBVIOUS
  <2>2. PICK i \in numbers : TRUE
    OBVIOUS
  <2>3. n - i \in short
    OBVIOUS
  <2> QED BY <2>1, <2>3
<1>2. \A i \in numbers : n - i \in short
  OBVIOUS
<1>3. \A s \in short : \E i \in numbers : s = n - i
  OBVIOUS
<1> HIDE DEF short
<1>4. PICK least \in short : \A s \in short : least <= s
  BY <1>1, LeastNumber
<1>5. PICK m \in numbers : least = n - m
  BY <1>3
<1>6. \A i \in numbers : i \in Nat /\ n - m <= n - i
  BY <1>2, <1>4, <1>5
<1> QED BY <1>6

LEMMA DesiredHeaderIsListed ==
  ASSUME StateOK, NEW d \in TheDecls, NEW desired, IsDefinedIn(d, desired)
  PROVE  /\ DesiredHeader(d, desired) \in HeadersOf(Symbol(d))
         /\ DesiredHeader(d, desired) # NoHeader
<1> DEFINE list == DefinitionHeaders(d)
           hits == {i \in DOMAIN list : list[i] \in desired}
           last == CHOOSE i \in hits : \A j \in hits : j <= i
<1>1. list \in Seq(Headers) /\ WithCanonical(list) \subseteq HeadersOf(Symbol(d))
  BY DeclsOK, HeadersOfDecl, MappedType DEF DefinitionHeaders
<1>2. DesiredHeader(d, desired) = list[last]
  BY DEF DesiredHeader
<1>3. hits # {} /\ hits \subseteq DOMAIN list
  BY DEF IsDefinedIn, Range
<1> HIDE DEF hits
<1>4. Len(list) \in Nat /\ DOMAIN list = 1 .. Len(list)
  BY <1>1
<1> HIDE DEF list
<1>5. \E i \in hits : \A j \in hits : j <= i
  BY <1>3, <1>4, GreatestNumber
<1>6. last \in hits
  BY <1>5
<1> HIDE DEF last
<1>7. list[last] \in Range(list) /\ list[last] \in Headers
  BY <1>1, <1>3, <1>6 DEF Range
<1> QED BY <1>1, <1>2, <1>7, FilesAssumption DEF WithCanonical

LEMMA AsTemplateExplained ==
  ASSUME StateOK, NEW decls, NEW headers, Accounted(decls, headers),
         NEW use, Explained(use, decls, headers), OfDecl(use, decls)
  PROVE  Explained(AsTemplate(use), decls, headers) /\ OfDecl(AsTemplate(use), decls)
<1>1. CASE Kind(use.decl) # "specialization"
  BY <1>1 DEF AsTemplate
<1>2. CASE Kind(use.decl) = "specialization"
  <2> DEFINE e == Symbol(use.decl)
             first == CHOOSE d \in Redecls(e) : IsFirstRedecl(d)
  <2>1. use.decl \in TheDecls
    BY DEF OfDecl, Accounted
  <2>2. Redecls(e) # {}
    BY <1>2, <2>1, DeclsOK DEF DeclaredAsNeeded, Redecls
  <2>3. \A d \in Redecls(e) : Symbol(d) = e
    BY <2>1, DeclsOK, DeclsAssumption, RedeclsOK DEF Symbol, Kind
  <2>4. PICK m \in Redecls(e) : \A d \in Redecls(e) : ~IsBefore(Position(d), Position(m))
    BY <2>2, RedeclsOK, FirstDecl
  <2>5. IsFirstRedecl(m)
    BY <2>3, <2>4 DEF IsFirstRedecl, GetTagRedecls, NotFriend
  <2>6. first \in Redecls(e)
    BY <2>4, <2>5
  <2> HIDE DEF first
  <2>7. StandsFor(first, use.decl)
    BY <2>1, <2>6, RedeclStandsFor
  <2>8. AsTemplate(use) = reset_decl(use, first)
    BY <1>2 DEF AsTemplate, first
  <2> QED BY <2>7, <2>8, ResetExplained
<1> QED BY <1>1, <1>2

LEMMA MarkedSettled ==
  ASSUME NEW use, NEW decls, NEW headers, Explained(use, decls, headers)
  PROVE  Settled(IgnoredUse(use)) /\ (Settled(use) => Settled(Violation(use)))
<1>1. IgnoredUse(use).ignore_use
  BY DEF IgnoredUse, Explained, UseFields
<1>2. /\ Violation(use).ignore_use = use.ignore_use
      /\ Violation(use).suggested_header = use.suggested_header
      /\ Violation(use).decl = use.decl
  BY DEF Violation, Explained, UseFields
<1> QED BY <1>1, <1>2 DEF Settled, HasSuggestedHeader

LEMMA JudgedForwardExplained ==
  ASSUME StateOK, NEW decls, NEW headers, Accounted(decls, headers),
         NEW use, Explained(use, decls, headers), OfDecl(use, decls),
         NEW actual, NEW desired, NEW associated_files,
         NEW more \in CalculateIwyuForForwardDeclareUse(use, actual, desired, associated_files)
  PROVE  Explained(more, decls, headers) /\ Settled(more)
<1> DEFINE defined == {d \in Definitions(use) : IsDefinedIn(d, desired)}
           specialized == defined \ {GetTagDefinition(use.decl)}
           redecls == SameFileRedecls(use)
           header(d) == DesiredHeader(d, desired)
           satisfied ==
             IF defined # {}
             THEN {[reset_decl(use, d) EXCEPT !.suggested_header = header(d)] :
                   d \in IF specialized = {} THEN defined ELSE specialized}
             ELSE IF redecls # {} THEN {reset_decl(use, d) : d \in redecls}
             ELSE {use}
<1>1. \/ more = IgnoredUse(use)
      \/ \E u \in satisfied : more \in {Violation(AsTemplate(u)), AsTemplate(u)}
  BY DEF CalculateIwyuForForwardDeclareUse
<1>2. ASSUME NEW d \in defined
      PROVE  LET u == [reset_decl(use, d) EXCEPT !.suggested_header = header(d)]
             IN  Explained(u, decls, headers) /\ OfDecl(u, decls)
  <2> DEFINE reset == reset_decl(use, d)
             u == [reset EXCEPT !.suggested_header = header(d)]
  <2>1. use.decl \in TheDecls
    BY DEF OfDecl, Accounted
  <2>2. StandsFor(d, use.decl)
    BY <2>1, DefinitionsStandFor
  <2>3. Explained(reset, decls, headers) /\ OfDecl(reset, decls) /\ reset.decl = d
    BY <2>2, ResetExplained
  <2>4. d \in TheDecls /\ d \in decls
    BY <2>2 DEF StandsFor, OfDecl, Accounted
  <2>5. header(d) \in headers /\ header(d) # NoHeader
    BY <2>4, DesiredHeaderIsListed DEF Accounted
  <2> HIDE DEF header, reset
  <2>6. Explained(u, decls, headers) /\ u.decl = d
    BY <2>3, <2>5, SuggestedExplained
  <2>7. d # NoDecl
    BY <2>4, DeclsOK
  <2>8. OfDecl(u, decls)
    BY <2>6, <2>7, DeclMeansOfDecl
  <2> QED BY <2>6, <2>8 DEF reset
<1>3. ASSUME NEW d \in redecls
      PROVE  Explained(reset_decl(use, d), decls, headers) /\ OfDecl(reset_decl(use, d), decls)
  <2>1. d \in GetTagRedecls(use.decl) /\ use.decl \in TheDecls
    BY DEF SameFileRedecls, OfDecl, Accounted
  <2>2. StandsFor(d, use.decl)
    BY <2>1, TagRedeclStandsFor
  <2> QED BY <2>2, ResetExplained
<1>4. specialized \subseteq defined
  OBVIOUS
<1> HIDE DEF defined, specialized, redecls, header
<1>5. ASSUME NEW u \in satisfied
      PROVE  Explained(u, decls, headers) /\ OfDecl(u, decls)
  <2>1. CASE defined # {}
    BY <1>2, <1>4, <2>1
  <2>2. CASE defined = {} /\ redecls # {}
    BY <1>3, <2>2
  <2>3. CASE defined = {} /\ redecls = {}
    BY <2>3
  <2> QED BY <2>1, <2>2, <2>3
<1> HIDE DEF satisfied
<1>6. CASE more = IgnoredUse(use)
  BY <1>6, MarkedExplained, MarkedSettled
<1>7. ASSUME NEW u \in satisfied, more \in {Violation(AsTemplate(u)), AsTemplate(u)}
      PROVE  Explained(more, decls, headers) /\ Settled(more)
  <2> DEFINE t == AsTemplate(u)
  <2>1. Explained(t, decls, headers) /\ OfDecl(t, decls)
    BY <1>5, AsTemplateExplained
  <2>2. more \in {t, Violation(t)}
    BY <1>7
  <2> HIDE DEF t
  <2>3. Settled(t)
    BY <2>1, OfDeclHasDecl DEF Settled
  <2> QED BY <2>1, <2>2, <2>3, MarkedExplained, MarkedSettled
<1> QED BY <1>1, <1>6, <1>7

LEMMA JudgedExplained ==
  ASSUME StateOK, NEW decls, NEW headers, Accounted(decls, headers),
         NEW use, Explained(use, decls, headers), Settled(use),
         NEW more \in JudgedUses(use)
  PROVE  Explained(more, decls, headers) /\ Settled(more)
<1>1. CASE use.ignore_use
  BY <1>1 DEF JudgedUses
<1>2. CASE ~use.ignore_use /\ use.full
  <2>1. more \in {use, IgnoredUse(use), Violation(use)}
    BY <1>2 DEF JudgedUses, CalculateIwyuForFullUse
  <2> QED BY <2>1, MarkedExplained, MarkedSettled
<1>3. CASE ~use.ignore_use /\ ~use.full
  <2>1. OfDecl(use, decls)
    BY <1>3 DEF Explained, WithoutDecl
  <2> QED BY <1>3, <2>1, JudgedForwardExplained DEF JudgedUses
<1> QED BY <1>1, <1>2, <1>3

-----------------------------------------------------------------------------
(* What a file's uses may be reported for, and what they all are in the    *)
(* end, with the headers that they call for.                               *)
UsedSymbols(f) == ReportedSymbols(f) \cup UsingSymbols(f)

ReportedDecls(f) == {d \in TheDecls : Symbol(d) \in ReportedSymbols(f)}
UsedDecls(f) == {d \in TheDecls : Symbol(d) \in UsedSymbols(f)}

ReportedReasons(f) == Reasons(f, ReportedSymbols(f))
UsedReasons(f) == Reasons(f, UsedSymbols(f))

UsingDecls == {d \in TheDecls : Kind(d) = "using"}

LEMMA DeclsAccounted ==
  ASSUME NEW symbols, NEW headers, \A x \in symbols : HeadersOf(x) \subseteq headers
  PROVE  Accounted({d \in TheDecls : Symbol(d) \in symbols}, headers)
BY DEF Accounted, StandsFor

LEMMA FilesAccounted ==
  ASSUME NEW f
  PROVE  /\ Accounted(ReportedDecls(f), ReportedReasons(f))
         /\ Accounted(UsedDecls(f), UsedReasons(f))
         /\ ReportedDecls(f) \subseteq UsedDecls(f)
         /\ ReportedReasons(f) \subseteq UsedReasons(f)
         /\ \A g \in tu.associated[f] : QuotedInclude[g] \in UsedReasons(f)
<1>1. \A x \in ReportedSymbols(f) : HeadersOf(x) \subseteq ReportedReasons(f)
  BY DEF ReportedReasons, Reasons
<1>2. \A x \in UsedSymbols(f) : HeadersOf(x) \subseteq UsedReasons(f)
  BY DEF UsedReasons, Reasons
<1>3. ReportedSymbols(f) \subseteq UsedSymbols(f)
  BY DEF UsedSymbols
<1>4. ReportedDecls(f) \subseteq UsedDecls(f)
  BY <1>3 DEF ReportedDecls, UsedDecls
<1>5. ReportedReasons(f) \subseteq UsedReasons(f)
  <2>1. UNION {HeadersOf(x) : x \in ReportedSymbols(f)}
          \subseteq UNION {HeadersOf(x) : x \in UsedSymbols(f)}
    BY <1>3
  <2> QED BY <2>1 DEF ReportedReasons, UsedReasons, Reasons
<1>6. \A g \in tu.associated[f] : QuotedInclude[g] \in UsedReasons(f)
  BY DEF UsedReasons, Reasons
<1> QED BY <1>1, <1>2, <1>4, <1>5, <1>6, DeclsAccounted DEF ReportedDecls, UsedDecls

LEMMA SameReports ==
  ASSUME UNCHANGED <<tu, reports>>, NEW f
  PROVE  /\ TheDecls' = TheDecls /\ UsingDecls' = UsingDecls
         /\ ReportedDecls(f)' = ReportedDecls(f)
         /\ ReportedReasons(f)' = ReportedReasons(f)
<1>1. TheDecls' = TheDecls
  BY DEF TheDecls
<1>2. ReportedSymbols(f)' = ReportedSymbols(f)
  BY DEF ReportedSymbols
<1>3. ReportedReasons(f)' = ReportedReasons(f)
  BY <1>2 DEF ReportedReasons, Reasons, HeadersOf, HeadersWithout
<1> QED BY <1>1, <1>2, <1>3 DEF UsingDecls, ReportedDecls

LEMMA SameUsings ==
  ASSUME UNCHANGED <<tu, reports>>, NEW f,
         file_infos'[f].using_decl_referenced = file_infos[f].using_decl_referenced
  PROVE  UsedDecls(f)' = UsedDecls(f) /\ UsedReasons(f)' = UsedReasons(f)
<1>1. TheDecls' = TheDecls
  BY DEF TheDecls
<1>2. ReportedSymbols(f)' = ReportedSymbols(f)
  BY DEF ReportedSymbols
<1>3. UnreferencedUsings(file_infos[f])' = UnreferencedUsings(file_infos[f])
  BY DEF UnreferencedUsings
<1>4. \A d : FirstTarget(d)' = FirstTarget(d)
  BY DEF FirstTarget, Redecls
<1>5. UsingSymbols(f)' = UsingSymbols(f)
  BY <1>3, <1>4 DEF UsingSymbols
<1>6. UsedSymbols(f)' = UsedSymbols(f)
  BY <1>2, <1>5 DEF UsedSymbols
<1>7. UsedReasons(f)' = UsedReasons(f)
  BY <1>6 DEF UsedReasons, Reasons, HeadersOf, HeadersWithout
<1> QED BY <1>1, <1>6, <1>7 DEF UsedDecls

-----------------------------------------------------------------------------
(* While a file is read, its #includes are not desired yet, and its uses   *)
(* are accounted for.                                                      *)
IsPlain(line) == IsIncludeLine(line) => ~line.desired /\ line.decl = NoDecl

PlainLines(lines) == IsSeq(lines) /\ \A i \in DOMAIN lines : IsPlain(lines[i])

InfoExplained(info, usings, decls, headers) ==
  /\ InfoOK(info)
  /\ PlainLines(info.lines)
  /\ AllExplained(info.symbol_uses, decls, headers)
  /\ DOMAIN info.using_decl_referenced \subseteq usings

LEMMA PlainLine ==
  ASSUME NEW lines, PlainLines(lines), NEW line, IsPlain(line)
  PROVE  PlainLines(Append(lines, line))
<1> DEFINE more == Append(lines, line)
<1>1. /\ IsSeq(more) /\ DOMAIN more = DOMAIN lines \cup {Len(lines) + 1}
      /\ \A i \in DOMAIN lines : more[i] = lines[i]
      /\ more[Len(lines) + 1] = line
  BY Appended DEF PlainLines
<1> HIDE DEF more
<1>2. PlainLines(more)
  BY <1>1 DEF PlainLines
<1> QED BY <1>2 DEF more

LEMMA LineExplained ==
  ASSUME NEW usings, NEW decls, NEW headers,
         NEW info, InfoExplained(info, usings, decls, headers),
         NEW line, IsLine(line), line.present, IsPlain(line)
  PROVE  InfoExplained([info EXCEPT !.lines = Append(@, line)], usings, decls, headers)
<1> DEFINE lines == Append(info.lines, line)
           more == [info EXCEPT !.lines = lines]
<1>1. PlainLines(lines)
  BY PlainLine DEF InfoExplained
<1>2. InfoOK(more)
  BY RecordsLine DEF InfoExplained, Records
<1> HIDE DEF lines
<1>3. /\ more.lines = lines /\ more.symbol_uses = info.symbol_uses
      /\ more.using_decl_referenced = info.using_decl_referenced
  BY DEF InfoExplained, InfoOK, InfoFields
<1> HIDE DEF more
<1>4. InfoExplained(more, usings, decls, headers)
  BY <1>1, <1>2, <1>3 DEF InfoExplained
<1> QED BY <1>4 DEF more, lines

LEMMA OneMoreUseExplained ==
  ASSUME NEW usings, NEW decls, NEW headers,
         NEW info, InfoExplained(info, usings, decls, headers),
         NEW use, Explained(use, decls, headers)
  PROVE  InfoExplained([info EXCEPT !.symbol_uses = Append(@, use)], usings, decls, headers)
<1> DEFINE us == info.symbol_uses
           all == Append(us, use)
           more == [info EXCEPT !.symbol_uses = all]
<1>1. /\ DOMAIN all = DOMAIN us \cup {Len(us) + 1}
      /\ \A i \in DOMAIN us : all[i] = us[i]
      /\ all[Len(us) + 1] = use
  BY Appended DEF InfoExplained, InfoOK
<1>2. InfoOK(more)
  BY RecordsUse DEF InfoExplained, Records
<1> HIDE DEF all
<1>3. AllExplained(all, decls, headers)
  BY <1>1 DEF InfoExplained, AllExplained
<1>4. /\ more.lines = info.lines /\ more.symbol_uses = all
      /\ more.using_decl_referenced = info.using_decl_referenced
  BY DEF InfoExplained, InfoOK, InfoFields
<1> HIDE DEF more
<1>5. InfoExplained(more, usings, decls, headers)
  BY <1>2, <1>3, <1>4 DEF InfoExplained
<1> QED BY <1>5 DEF more, all

LEMMA OtherUsingsExplained ==
  ASSUME NEW usings, NEW decls, NEW headers,
         NEW info, InfoExplained(info, usings, decls, headers),
         NEW other, IsFiniteSet(DOMAIN other), DOMAIN other \subseteq usings
  PROVE  InfoExplained([info EXCEPT !.using_decl_referenced = other], usings, decls, headers)
<1> DEFINE more == [info EXCEPT !.using_decl_referenced = other]
<1>1. InfoOK(more)
  BY RecordsUsings DEF InfoExplained, Records
<1>2. /\ more.lines = info.lines /\ more.symbol_uses = info.symbol_uses
      /\ more.using_decl_referenced = other
  BY DEF InfoExplained, InfoOK, InfoFields
<1> HIDE DEF more
<1>3. InfoExplained(more, usings, decls, headers)
  BY <1>1, <1>2 DEF InfoExplained
<1> QED BY <1>3 DEF more

(* The operations on a file's info, once more. *)
LEMMA AddIncludeExplained ==
  ASSUME NEW usings, NEW decls, NEW headers,
         NEW info, InfoExplained(info, usings, decls, headers), NEW include
  PROVE  InfoExplained(AddInclude(info, include), usings, decls, headers)
<1> DEFINE line == [AnIncludeLine(include.includee, include.quoted, include.line)
                      EXCEPT !.present = TRUE]
<1>1. IsLine(line) /\ line.present /\ IsPlain(line)
  BY DEF AnIncludeLine, IsLine, LineFields, IsPlain
<1> HIDE DEF line
<1>2. InfoExplained([info EXCEPT !.lines = Append(@, line)], usings, decls, headers)
  BY <1>1, LineExplained
<1> QED BY <1>2 DEF AddInclude, line

LEMMA AddForwardDeclareExplained ==
  ASSUME NEW usings, NEW decls, NEW headers,
         NEW info, InfoExplained(info, usings, decls, headers), NEW d, NEW definitely_keep
  PROVE  InfoExplained(AddForwardDeclare(info, d, definitely_keep), usings, decls, headers)
<1> DEFINE line == [AForwardDeclareLine(d) EXCEPT
                      !.present = TRUE, !.desired = definitely_keep]
<1>1. IsLine(line) /\ line.present /\ IsPlain(line)
  BY DEF AForwardDeclareLine, IsLine, LineFields, IsPlain, IsIncludeLine
<1> HIDE DEF line
<1>2. InfoExplained([info EXCEPT !.lines = Append(@, line)], usings, decls, headers)
  BY <1>1, LineExplained
<1> QED BY <1>2 DEF AddForwardDeclare, line

LEMMA AddOwningTagTypeExplained ==
  ASSUME NEW usings, NEW decls, NEW headers,
         NEW info, InfoExplained(info, usings, decls, headers), NEW d
  PROVE  InfoExplained(AddOwningTagType(info, d), usings, decls, headers)
<1> DEFINE line == [AForwardDeclareLine(d) EXCEPT
                      !.present = TRUE, !.desired = TRUE, !.elaborated = TRUE]
<1>1. IsLine(line) /\ line.present /\ IsPlain(line)
  BY DEF AForwardDeclareLine, IsLine, LineFields, IsPlain, IsIncludeLine
<1> HIDE DEF line
<1>2. InfoExplained([info EXCEPT !.lines = Append(@, line)], usings, decls, headers)
  BY <1>1, LineExplained
<1> QED BY <1>2 DEF AddOwningTagType, line

LEMMA AddUsingDeclExplained ==
  ASSUME NEW usings, NEW decls, NEW headers,
         NEW info, InfoExplained(info, usings, decls, headers), NEW d \in usings
  PROVE  InfoExplained(AddUsingDecl(info, d), usings, decls, headers)
<1> DEFINE old == info.using_decl_referenced
           other == [u \in DOMAIN old \cup {d} |-> IF u \in DOMAIN old THEN old[u] ELSE FALSE]
<1>1. IsFiniteSet(DOMAIN other) /\ DOMAIN other \subseteq usings
  <2>1. IsFiniteSet(DOMAIN old \cup {d})
    BY FS_AddElement DEF InfoExplained, InfoOK
  <2>2. DOMAIN other = DOMAIN old \cup {d}
    OBVIOUS
  <2> HIDE DEF other
  <2> QED BY <2>1, <2>2 DEF InfoExplained
<1>2. AddUsingDecl(info, d) = [info EXCEPT !.using_decl_referenced = other]
  BY DEF AddUsingDecl
<1> HIDE DEF other
<1> QED BY <1>1, <1>2, OtherUsingsExplained

LEMMA ForwardUseExplained ==
  ASSUME StateOK, NEW usings, NEW decls, NEW headers, Accounted(decls, headers),
         NEW info, InfoExplained(info, usings, decls, headers),
         NEW f, NEW line, NEW d \in decls, NEW use_flags
  PROVE  InfoExplained(ReportForwardDeclareUse(info, f, line, d, use_flags),
                       usings, decls, headers)
<1>1. Explained(DeclUse(f, line, d, FALSE, use_flags), decls, headers)
  BY DeclUseExplained
<1> QED BY <1>1, OneMoreUseExplained DEF ReportForwardDeclareUse

LEMMA FullUseExplained ==
  ASSUME StateOK, NEW usings, NEW decls, NEW headers, Accounted(decls, headers),
         NEW info, InfoExplained(info, usings, decls, headers),
         NEW f, NEW line, NEW d \in decls, NEW use_flags
  PROVE  InfoExplained(ReportFullSymbolUse(info, f, line, d, use_flags),
                       usings, decls, headers)
<1> DEFINE report_decl == IF use_flags \cap AsWrittenFlags = {}
                          THEN GetDefinitionAsWritten(d) ELSE d
<1>1. report_decl \in decls
  BY AsWrittenStandsFor DEF Accounted
<1> DEFINE use == DeclUse(f, line, report_decl, TRUE, use_flags)
<1>2. ReportFullSymbolUse(info, f, line, d, use_flags) =
        [info EXCEPT !.symbol_uses = Append(@, use)]
  BY DEF ReportFullSymbolUse
<1> HIDE DEF report_decl
<1>3. Explained(use, decls, headers)
  BY <1>1, DeclUseExplained
<1> HIDE DEF use
<1>4. InfoExplained([info EXCEPT !.symbol_uses = Append(@, use)], usings, decls, headers)
  BY <1>3, OneMoreUseExplained
<1> QED BY <1>2, <1>4

LEMMA UsingDeclUseExplained ==
  ASSUME StateOK, NEW usings, NEW decls, NEW headers, Accounted(decls, headers),
         NEW info, InfoExplained(info, usings, decls, headers),
         NEW f, NEW line, NEW d \in decls, NEW use_flags
  PROVE  InfoExplained(ReportUsingDeclUse(info, f, line, d, use_flags),
                       usings, decls, headers)
<1> DEFINE old == info.using_decl_referenced
           other == [u \in DOMAIN old |-> old[u] \/ u = d]
           referenced == [info EXCEPT !.using_decl_referenced = other]
<1>1. IsFiniteSet(DOMAIN other) /\ DOMAIN other \subseteq usings
  BY DEF InfoExplained, InfoOK
<1>2. ReportUsingDeclUse(info, f, line, d, use_flags)
        = ReportFullSymbolUse(referenced, f, line, d, use_flags)
  BY DEF ReportUsingDeclUse
<1> HIDE DEF other
<1>3. InfoExplained(referenced, usings, decls, headers)
  BY <1>1, OtherUsingsExplained
<1> HIDE DEF referenced
<1> QED BY <1>2, <1>3, FullUseExplained

(* A class or a member that is defined by a qualified name has been        *)
(* declared before.                                                        *)
LEMMA PreviousStandsFor ==
  ASSUME StateOK, NEW d \in TheDecls, "qualified" \in DeclInfo[d].traits
  PROVE  StandsFor(Previous(d), d) /\ Previous(d) \in TheDecls
<1> DEFINE before == {p \in Redecls(DeclInfo[d].entity) : IsBefore(Position(p), Position(d))}
<1>1. before # {}
  BY DeclsOK DEF DeclaredAsNeeded, Redecls
<1>2. before \subseteq Redecls(DeclInfo[d].entity)
  OBVIOUS
<1>3. before \subseteq Decls /\ IsFiniteSet(before)
  <2> HIDE DEF before
  <2> QED BY <1>2, RedeclsOK, FS_Subset
<1>4. PICK last \in before : \A p \in before : ~IsBefore(Position(last), Position(p))
  <2> HIDE DEF before
  <2> QED BY <1>1, <1>3, LastDecl
<1>5. Previous(d) \in Redecls(DeclInfo[d].entity)
  BY <1>4 DEF Previous
<1> QED BY <1>5, RedeclStandsFor, RedeclsOK

LEMMA VisitTagDeclExplained ==
  ASSUME StateOK, NEW usings, NEW decls, NEW headers, Accounted(decls, headers),
         NEW info, InfoExplained(info, usings, decls, headers),
         NEW d \in TheDecls, "qualified" \in DeclInfo[d].traits => d \in decls
  PROVE  InfoExplained(VisitTagDecl(info, d), usings, decls, headers)
<1> DEFINE declared == IF IsForwardDecl(d) THEN AddForwardDeclare(info, d, DefinitelyKeep(d))
                       ELSE info
           used == CHOOSE r \in GetNonfriendClassRedecls(Previous(d)) : TRUE
           flag == {"redecl"}
           f == DeclInfo[d].file
           line == DeclInfo[d].line
<1>1. InfoExplained(declared, usings, decls, headers)
  BY AddForwardDeclareExplained
<1>2. VisitTagDecl(info, d) = IF "qualified" \notin DeclInfo[d].traits
                              THEN declared
                              ELSE ReportForwardDeclareUse(declared, f, line, used, flag)
  BY DEF VisitTagDecl
<1>3. "qualified" \in DeclInfo[d].traits => used \in decls
  <2> SUFFICES ASSUME "qualified" \in DeclInfo[d].traits PROVE used \in decls
    OBVIOUS
  <2>1. StandsFor(Previous(d), d) /\ Previous(d) \in TheDecls
    BY PreviousStandsFor
  <2>2. Previous(d) \in decls
    BY <2>1 DEF Accounted
  <2>3. used \in GetNonfriendClassRedecls(Previous(d))
    BY <2>1, NonfriendStandsFor
  <2> HIDE DEF used
  <2>4. StandsFor(used, Previous(d))
    BY <2>1, <2>3, NonfriendStandsFor
  <2> QED BY <2>2, <2>4 DEF Accounted
<1> HIDE DEF declared, used, flag, f, line
<1>4. "qualified" \in DeclInfo[d].traits =>
        InfoExplained(ReportForwardDeclareUse(declared, f, line, used, flag),
                      usings, decls, headers)
  BY <1>1, <1>3, ForwardUseExplained
<1> QED BY <1>1, <1>2, <1>4

LEMMA ReportExplained ==
  ASSUME StateOK, NEW usings, NEW decls, NEW headers, Accounted(decls, headers),
         NEW info, InfoExplained(info, usings, decls, headers),
         NEW r,
         IF r.kind \in {"full", "using", "forward"} THEN r.decl \in decls
         ELSE /\ r.dfn_file \in Files /\ QuotedInclude[r.dfn_file] \in headers
              /\ WithCanonical(GetMappedPublicHeaders(r.symbol, r.dfn_file)) \subseteq headers,
         NEW more \in ReportedUses(info, r)
  PROVE  InfoExplained(more, usings, decls, headers)
<1>1. CASE r.kind = "full"
  BY <1>1, FullUseExplained DEF ReportedUses
<1>2. CASE r.kind = "using"
  BY <1>2, UsingDeclUseExplained DEF ReportedUses
<1>3. CASE r.kind = "forward"
  <2>1. PICK d \in GetNonfriendClassRedecls(r.decl) :
               more = ReportForwardDeclareUse(info, r.file, r.line, d, r.flags)
    BY <1>3 DEF ReportedUses
  <2>2. r.decl \in decls /\ r.decl \in TheDecls
    BY <1>3 DEF Accounted
  <2>3. d \in decls
    BY <2>2, NonfriendStandsFor DEF Accounted
  <2> QED BY <2>1, <2>3, ForwardUseExplained
<1>4. CASE r.kind = "symbol"
  <2> DEFINE use == SymbolUse(r.file, r.line, r.symbol, r.dfn_file)
  <2>1. Explained(use, decls, headers)
    BY <1>4, SymbolUseExplained
  <2>2. more = [info EXCEPT !.symbol_uses = Append(@, use)]
    BY <1>4 DEF ReportedUses
  <2> HIDE DEF use
  <2> QED BY <2>1, <2>2, OneMoreUseExplained
<1>5. CASE r.kind \notin {"full", "using", "forward", "symbol"}
  <2> DEFINE use == IncludeFileUse(r.file, r.dfn_file, QuotedInclude[r.dfn_file])
  <2>1. Explained(use, decls, headers)
    BY <1>5, IncludeFileUseExplained
  <2>2. more = [info EXCEPT !.symbol_uses = Append(@, use)]
    BY <1>5 DEF ReportedUses
  <2> HIDE DEF use
  <2> QED BY <2>1, <2>2, OneMoreUseExplained
<1> QED BY <1>1, <1>2, <1>3, <1>4, <1>5

-----------------------------------------------------------------------------
(* The invariant that NoIncludeWithoutReason needs besides IInv. *)
UsesOK ==
  /\ next \in Nat \ {0}
  /\ reports \in Seq(tu.uses)
  /\ Early => \A f \in Files :
       InfoExplained(file_infos[f], UsingDecls, ReportedDecls(f), ReportedReasons(f))
  /\ ~Early => \A f \in waiting :
       InfoExplained(file_infos[f], UsingDecls, UsedDecls(f), UsedReasons(f))
  /\ \A f \in waiting : ~file_infos[f].calculated

WorkOK ==
  Working =>
    /\ PlainLines(file_infos[current].lines)
    /\ AllExplained(uses, UsedDecls(current), UsedReasons(current))
    /\ phase = "judge" \/ pass = "done" => \A i \in DOMAIN uses : Settled(uses[i])

LinesHaveReasons(f) ==
  \A i \in DOMAIN file_infos[f].lines :
    LET line == file_infos[f].lines[i]
    IN  line.desired /\ IsIncludeLine(line) =>
          <<f, line.included_file>> \in tu.kept_includes \/ line.header \in UsedReasons(f)

DoneOK == \A f \in tu.files_to_report : ~Unfinished(f) => LinesHaveReasons(f)

ReasonsInv == IInv /\ UsesOK /\ WorkOK /\ DoneOK

LEMMA WaitingStays ==
  ASSUME UsesOK, ~Early, ~Early', UNCHANGED <<tu, reports, next>>,
         waiting' \subseteq waiting,
         \A f \in waiting' : file_infos'[f] = file_infos[f]
  PROVE  UsesOK'
<1>1. ASSUME NEW f \in waiting'
      PROVE  /\ InfoExplained(file_infos[f], UsingDecls, UsedDecls(f), UsedReasons(f))'
             /\ ~file_infos'[f].calculated
  <2>1. file_infos'[f] = file_infos[f] /\ f \in waiting
    OBVIOUS
  <2>2. UsedDecls(f)' = UsedDecls(f) /\ UsedReasons(f)' = UsedReasons(f)
    BY <2>1, SameUsings
  <2>3. UsingDecls' = UsingDecls
    BY SameReports
  <2> QED BY <2>1, <2>2, <2>3 DEF UsesOK
<1> QED BY <1>1 DEF UsesOK

LEMMA ReasonsStay ==
  ASSUME UNCHANGED <<tu, reports>>, NEW f, LinesHaveReasons(f),
         file_infos'[f].using_decl_referenced = file_infos[f].using_decl_referenced,
         file_infos'[f].lines = file_infos[f].lines
  PROVE  LinesHaveReasons(f)'
<1>1. UsedReasons(f)' = UsedReasons(f)
  BY SameUsings
<1> QED BY <1>1 DEF LinesHaveReasons

(* Steps of preprocessing and traversal. *)
LEMMA RecordingExplained ==
  ASSUME ReasonsInv, Early, UNCHANGED <<tu, reports, phase, waiting>>, next' = next + 1,
         NEW f, NEW more, file_infos' = [file_infos EXCEPT ![f] = more],
         f \in Files =>
           /\ Records(file_infos[f], more)
           /\ InfoExplained(more, UsingDecls, ReportedDecls(f), ReportedReasons(f))
  PROVE  UsesOK' /\ WorkOK' /\ DoneOK'
<1>1. Early' /\ ~Working'
  BY DEF Early, Working
<1>2. waiting = tu.files_to_report /\ waiting \subseteq Files /\ DOMAIN file_infos = Files
  BY ProgramOK DEF ReasonsInv, IInv, OrderOK, StateOK
<1>3. UsesOK'
  <2>1. ASSUME NEW g \in Files
        PROVE  InfoExplained(file_infos[g], UsingDecls, ReportedDecls(g), ReportedReasons(g))'
               /\ (g \in waiting => ~file_infos'[g].calculated)
    <3>1. /\ UsingDecls' = UsingDecls /\ ReportedDecls(g)' = ReportedDecls(g)
          /\ ReportedReasons(g)' = ReportedReasons(g)
      BY SameReports
    <3>2. CASE g = f
      <4>1. file_infos'[g] = more
        BY <1>2, <3>2
      <4> QED BY <3>1, <3>2, <4>1 DEF ReasonsInv, UsesOK, Records
    <3>3. CASE g # f
      <4>1. file_infos'[g] = file_infos[g]
        BY <1>2, <3>3
      <4> QED BY <3>1, <3>3, <4>1 DEF ReasonsInv, UsesOK
    <3> QED BY <3>2, <3>3
  <2>2. next' \in Nat \ {0} /\ (reports \in Seq(tu.uses))'
    BY DEF ReasonsInv, UsesOK
  <2> QED BY <1>1, <1>2, <2>1, <2>2 DEF UsesOK
<1>4. WorkOK'
  BY <1>1 DEF WorkOK
<1>5. DoneOK'
  BY <1>2 DEF DoneOK, Unfinished
<1> QED BY <1>3, <1>4, <1>5

LEMMA SeeIncludeExplained ==
  ASSUME ReasonsInv, SeeInclude
  PROVE  UsesOK' /\ WorkOK' /\ DoneOK'
<1> DEFINE include == tu.includes[next]
           f == include.includer
           more == AddInclude(file_infos[f], include)
<1>1. /\ Early /\ UNCHANGED <<tu, reports, phase, waiting>> /\ next' = next + 1
      /\ file_infos' = [file_infos EXCEPT ![f] = more]
  BY DEF SeeInclude, Early, constants
<1>2. f \in Files => /\ Records(file_infos[f], more)
                     /\ InfoExplained(more, UsingDecls, ReportedDecls(f), ReportedReasons(f))
  BY <1>1, AddIncludeRecords, AddIncludeExplained DEF ReasonsInv, IInv, StateOK, UsesOK
<1> HIDE DEF f, more
<1> QED BY <1>1, <1>2, RecordingExplained

LEMMA VisitDeclExplained ==
  ASSUME ReasonsInv, VisitDecl
  PROVE  UsesOK' /\ WorkOK' /\ DoneOK'
<1> DEFINE d == tu.decls[next]
           f == DeclInfo[d].file
           info == file_infos[f]
           more == IF Kind(d) = "using" THEN AddUsingDecl(info, d)
                   ELSE IF f \notin tu.files_to_report \/ Kind(d) \notin TagKinds THEN info
                   ELSE IF "owned_tag" \in DeclInfo[d].traits THEN AddOwningTagType(info, d)
                   ELSE VisitTagDecl(info, d)
<1>1. /\ Early /\ UNCHANGED <<tu, reports, phase, waiting>> /\ next' = next + 1
      /\ file_infos' = [file_infos EXCEPT ![f] = more]
      /\ next <= Len(tu.decls)
  BY DEF VisitDecl, Early, constants
<1>2. StateOK
  BY DEF ReasonsInv, IInv
<1>3. d \in TheDecls
  <2>1. next \in Nat \ {0} /\ tu.decls \in Seq(Decls)
    BY <1>2, ProgramsAssumption DEF ReasonsInv, UsesOK, StateOK
  <2>2. next \in DOMAIN tu.decls
    BY <1>1, <2>1
  <2> QED BY <2>2 DEF TheDecls, Range
<1>4. "qualified" \in DeclInfo[d].traits => d \in ReportedDecls(f)
  BY <1>3 DEF ReportedDecls, ReportedSymbols, TheDecls
<1>5. Kind(d) = "using" => d \in UsingDecls
  BY <1>3 DEF UsingDecls
<1> HIDE DEF d
<1>6. f \in Files => Records(info, more)
  BY <1>2, AddUsingDeclRecords, AddOwningTagTypeRecords, VisitTagDeclRecords, RecordsNothing
     DEF StateOK
<1>7. ASSUME f \in Files
      PROVE  InfoExplained(more, UsingDecls, ReportedDecls(f), ReportedReasons(f))
  <2> DEFINE decls == ReportedDecls(f)
             headers == ReportedReasons(f)
             usings == UsingDecls
  <2>1. InfoExplained(info, usings, decls, headers)
    BY <1>1, <1>7 DEF ReasonsInv, UsesOK
  <2>2. Accounted(decls, headers)
    BY FilesAccounted
  <2>3. "qualified" \in DeclInfo[d].traits => d \in decls
    BY <1>4
  <2>4. Kind(d) = "using" => d \in usings
    BY <1>5
  <2> HIDE DEF decls, headers, usings, info
  <2>5. /\ Kind(d) = "using" => InfoExplained(AddUsingDecl(info, d), usings, decls, headers)
        /\ InfoExplained(AddOwningTagType(info, d), usings, decls, headers)
        /\ InfoExplained(VisitTagDecl(info, d), usings, decls, headers)
    BY <1>2, <1>3, <2>1, <2>2, <2>3, <2>4, AddUsingDeclExplained, AddOwningTagTypeExplained,
       VisitTagDeclExplained
  <2>6. InfoExplained(more, usings, decls, headers)
    BY <2>1, <2>5
  <2> QED BY <2>6 DEF decls, headers, usings, info
<1> HIDE DEF f, more
<1> QED BY <1>1, <1>6, <1>7, RecordingExplained DEF info

LEMMA ReportUseExplained ==
  ASSUME ReasonsInv, ReportUse
  PROVE  UsesOK' /\ WorkOK' /\ DoneOK'
<1> DEFINE r == reports[next]
           f == r.file
           info == file_infos[f]
<1>1. /\ Early /\ UNCHANGED <<tu, reports, phase, waiting>> /\ next' = next + 1
      /\ next <= Len(reports)
      /\ \E more \in ReportedUses(info, r) : file_infos' = [file_infos EXCEPT ![f] = more]
  BY DEF ReportUse, Early, constants
<1>2. PICK more \in ReportedUses(info, r) : file_infos' = [file_infos EXCEPT ![f] = more]
  BY <1>1
<1>3. StateOK
  BY DEF ReasonsInv, IInv
<1>4. next \in DOMAIN reports /\ r \in tu.uses
  <2>1. next \in Nat \ {0} /\ reports \in Seq(tu.uses)
    BY DEF ReasonsInv, UsesOK
  <2> QED BY <1>1, <2>1
<1>5. IF r.kind \in {"full", "using", "forward"} THEN r.decl \in TheDecls
      ELSE r.decl = NoDecl /\ r.dfn_file \in Files
  BY <1>3, <1>4, ProgramsAssumption DEF StateOK, TheDecls
<1>6. CASE f \in Files
  <2> DEFINE decls == ReportedDecls(f)
             headers == ReportedReasons(f)
             usings == UsingDecls
  <2>1. InfoExplained(info, usings, decls, headers)
    BY <1>1, <1>6 DEF ReasonsInv, UsesOK
  <2>2. Accounted(decls, headers)
    BY FilesAccounted
  <2>3. r.kind \in {"full", "using", "forward"} => r.decl \in decls
    <3> SUFFICES ASSUME r.kind \in {"full", "using", "forward"} PROVE r.decl \in decls
      OBVIOUS
    <3>1. r.decl \in TheDecls /\ r.decl # NoDecl
      BY <1>3, <1>5, DeclsOK
    <3>2. next \in {j \in DOMAIN reports : reports[j].file = f /\ reports[j].decl # NoDecl}
      BY <1>4, <3>1
    <3>3. Symbol(r.decl) \in ReportedSymbols(f)
      <4> HIDE DEF f
      <4> QED BY <3>2 DEF ReportedSymbols
    <3> QED BY <3>1, <3>3 DEF ReportedDecls
  <2>4. r.kind \notin {"full", "using", "forward"} =>
          /\ r.dfn_file \in Files /\ QuotedInclude[r.dfn_file] \in headers
          /\ WithCanonical(GetMappedPublicHeaders(r.symbol, r.dfn_file)) \subseteq headers
    <3> SUFFICES ASSUME r.kind \notin {"full", "using", "forward"}
                 PROVE  /\ r.dfn_file \in Files /\ QuotedInclude[r.dfn_file] \in headers
                        /\ WithCanonical(GetMappedPublicHeaders(r.symbol, r.dfn_file))
                             \subseteq headers
      OBVIOUS
    <3>1. r.dfn_file \in Files /\ r.decl = NoDecl
      BY <1>5
    <3>2. next \in {j \in DOMAIN reports : reports[j].file = f /\ reports[j].decl = NoDecl}
      BY <1>4, <3>1
    <3>3. /\ QuotedInclude[r.dfn_file] \in HeadersWithout(f)
          /\ WithCanonical(GetMappedPublicHeaders(r.symbol, r.dfn_file)) \subseteq HeadersWithout(f)
      <4> HIDE DEF f
      <4> QED BY <3>2 DEF HeadersWithout
    <3>4. HeadersWithout(f) \subseteq headers
      BY DEF ReportedReasons, Reasons
    <3> QED BY <3>1, <3>3, <3>4
  <2> HIDE DEF decls, headers, usings, info, r
  <2>5. InfoExplained(more, usings, decls, headers)
    BY <1>2, <1>3, <2>1, <2>2, <2>3, <2>4, ReportExplained
  <2>6. Records(info, more)
    BY <1>2, <2>1, ReportRecords DEF InfoExplained
  <2>7. /\ Records(file_infos[f], more)
        /\ InfoExplained(more, UsingDecls, ReportedDecls(f), ReportedReasons(f))
    BY <2>5, <2>6 DEF decls, headers, usings, info
  <2> HIDE DEF f
  <2> QED BY <1>1, <1>2, <2>7, RecordingExplained
<1>7. CASE f \notin Files
  <2> HIDE DEF f, info, r
  <2> QED BY <1>1, <1>2, <1>7, RecordingExplained
<1> QED BY <1>6, <1>7

LEMMA StartingExplained ==
  ASSUME ReasonsInv, StartTraversal \/ StartReports
  PROVE  UsesOK' /\ WorkOK' /\ DoneOK'
<1>1. /\ UNCHANGED <<tu, reports, file_infos, waiting>> /\ next' = 1
      /\ Early /\ Early' /\ ~Working'
  BY DEF StartTraversal, StartReports, constants, Early, Working
<1>2. waiting = tu.files_to_report
  BY <1>1 DEF ReasonsInv, IInv, OrderOK
<1>3. UsesOK'
  <2>1. ASSUME NEW f \in Files
        PROVE  InfoExplained(file_infos[f], UsingDecls, ReportedDecls(f), ReportedReasons(f))'
    <3>1. /\ UsingDecls' = UsingDecls /\ ReportedDecls(f)' = ReportedDecls(f)
          /\ ReportedReasons(f)' = ReportedReasons(f)
      BY <1>1, SameReports
    <3> QED BY <1>1, <3>1 DEF ReasonsInv, UsesOK
  <2> QED BY <1>1, <2>1 DEF ReasonsInv, UsesOK
<1>4. WorkOK'
  BY <1>1 DEF WorkOK
<1>5. DoneOK'
  BY <1>1, <1>2 DEF DoneOK, Unfinished
<1> QED BY <1>3, <1>4, <1>5

(* A using-declaration names something that is declared. *)
LEMMA PendingUsesExplained ==
  ASSUME StateOK, NEW f, IsFiniteSet(DOMAIN file_infos[f].using_decl_referenced),
         DOMAIN file_infos[f].using_decl_referenced \subseteq UsingDecls
  PROVE  IsSeq(PendingUses(f)) /\ AllExplained(PendingUses(f), UsedDecls(f), UsedReasons(f))
<1> DEFINE info == file_infos[f]
           S == UnreferencedUsings(info)
           pending == SetToSeq(S)
           us == [i \in DOMAIN pending |->
                    DeclUse(f, DeclInfo[pending[i]].line, FirstTarget(pending[i]), FALSE, {})]
<1>1. S \subseteq DOMAIN info.using_decl_referenced
  BY DEF UnreferencedUsings
<1>2. IsFiniteSet(S)
  BY <1>1, FS_Subset
<1>3. IsSeq(pending) /\ \A i \in DOMAIN pending : pending[i] \in S
  BY <1>2, SetToSeqIsSeq
<1>4. PendingUses(f) = us
  BY DEF PendingUses
<1>5. DOMAIN us = DOMAIN pending /\ us = [i \in DOMAIN us |-> us[i]]
  <2> HIDE DEF pending
  <2> QED OBVIOUS
<1>6. ASSUME NEW p \in S PROVE FirstTarget(p) \in UsedDecls(f)
  <2>1. /\ p \in TheDecls /\ Kind(p) = "using"
        /\ EntityInfo[DeclInfo[p].entity].of # NoEntity
    BY <1>1 DEF UsingDecls, UnreferencedUsings
  <2>2. Redecls(EntityInfo[DeclInfo[p].entity].of) # {}
    BY <2>1, DeclsOK DEF DeclaredAsNeeded, Redecls
  <2>3. FirstTarget(p) \in Redecls(EntityInfo[DeclInfo[p].entity].of)
    BY <2>2 DEF FirstTarget
  <2>4. FirstTarget(p) \in TheDecls
    BY <2>3, RedeclsOK
  <2>5. Symbol(FirstTarget(p)) \in UsedSymbols(f)
    BY DEF UsedSymbols, UsingSymbols
  <2> QED BY <2>4, <2>5 DEF UsedDecls
<1>7. ASSUME NEW i \in DOMAIN us PROVE Explained(us[i], UsedDecls(f), UsedReasons(f))
  <2> DEFINE t == FirstTarget(pending[i])
             line == DeclInfo[pending[i]].line
             none == {}
  <2>1. t \in UsedDecls(f)
    <3>1. pending[i] \in S
      BY <1>3, <1>5
    <3> HIDE DEF pending
    <3> QED BY <1>6, <3>1
  <2>2. us[i] = DeclUse(f, line, t, FALSE, none)
    <3>1. i \in DOMAIN pending
      BY <1>5
    <3> HIDE DEF pending
    <3> QED BY <3>1
  <2> HIDE DEF t, line, none, us
  <2>3. Accounted(UsedDecls(f), UsedReasons(f))
    BY FilesAccounted
  <2>4. Explained(DeclUse(f, line, t, FALSE, none), UsedDecls(f), UsedReasons(f))
    BY <2>1, <2>3, DeclUseExplained
  <2> QED BY <2>2, <2>4
<1> HIDE DEF us, pending
<1>8. IsSeq(us)
  BY <1>3, <1>5, SameDomainIsSeq
<1> QED BY <1>4, <1>7, <1>8 DEF AllExplained

LEMMA ResolvePendingAnalysisExplained ==
  ASSUME ReasonsInv, ResolvePendingAnalysis
  PROVE  UsesOK' /\ WorkOK' /\ DoneOK'
<1>1. /\ UNCHANGED <<tu, reports, next, waiting, current>>
      /\ Early /\ ~Working /\ ~Early' /\ ~Working'
      /\ file_infos' = [f \in Files |->
           IF f \notin tu.files_to_report THEN file_infos[f]
           ELSE [file_infos[f] EXCEPT !.symbol_uses = @ \o PendingUses(f)]]
  BY DEF ResolvePendingAnalysis, constants, Early, Working
<1>2. waiting = tu.files_to_report /\ waiting \subseteq Files /\ StateOK
  BY <1>1, ProgramOK DEF ReasonsInv, IInv, OrderOK
<1>3. UsesOK'
  <2>1. ASSUME NEW f \in waiting
        PROVE  /\ InfoExplained(file_infos[f], UsingDecls, UsedDecls(f), UsedReasons(f))'
               /\ ~file_infos'[f].calculated
    <3> DEFINE info == file_infos[f]
               old == info.symbol_uses
               pending == PendingUses(f)
               all == old \o pending
               more == [info EXCEPT !.symbol_uses = all]
    <3>1. file_infos'[f] = more
      BY <1>1, <1>2
    <3>2. InfoExplained(info, UsingDecls, ReportedDecls(f), ReportedReasons(f))
      BY <1>1, <1>2 DEF ReasonsInv, UsesOK
    <3>3. IsSeq(pending) /\ AllExplained(pending, UsedDecls(f), UsedReasons(f))
      BY <1>2, <3>2, PendingUsesExplained DEF InfoExplained, InfoOK
    <3> HIDE DEF pending
    <3>4. IsSeq(old) /\ AllExplained(old, UsedDecls(f), UsedReasons(f))
      BY <3>2, FilesAccounted, MoreExplains DEF InfoExplained, InfoOK, AllExplained
    <3>5. IsSeq(all) /\ AllExplained(all, UsedDecls(f), UsedReasons(f))
      <4>1. /\ IsSeq(all)
            /\ \A i \in DOMAIN all : all[i] \in Elements(old) \cup Elements(pending)
        BY <3>3, <3>4, Joined
      <4> HIDE DEF all, old
      <4> QED BY <3>3, <3>4, <4>1 DEF AllExplained, Elements
    <3> HIDE DEF all
    <3>6. /\ DOMAIN more = InfoFields /\ more.lines = info.lines /\ more.symbol_uses = all
          /\ more.using_decl_referenced = info.using_decl_referenced
          /\ more.calculated = info.calculated
      BY <3>2 DEF InfoExplained, InfoOK, InfoFields
    <3> HIDE DEF more, old
    <3>7. InfoExplained(more, UsingDecls, UsedDecls(f), UsedReasons(f)) /\ ~more.calculated
      BY <3>2, <3>5, <3>6 DEF InfoExplained, InfoOK, ReasonsInv, UsesOK
    <3>8. UsingDecls' = UsingDecls
      BY <1>1, SameReports
    <3>9. UsedDecls(f)' = UsedDecls(f) /\ UsedReasons(f)' = UsedReasons(f)
      BY <1>1, <3>1, <3>6, SameUsings
    <3> QED BY <3>1, <3>7, <3>8, <3>9
  <2> QED BY <1>1, <2>1 DEF ReasonsInv, UsesOK
<1>4. WorkOK'
  BY <1>1 DEF WorkOK
<1>5. DoneOK'
  BY <1>1, <1>2 DEF DoneOK, Unfinished
<1> QED BY <1>3, <1>4, <1>5

LEMMA StartFileExplained ==
  ASSUME ReasonsInv, NEW f \in Files, StartFile(f)
  PROVE  UsesOK' /\ WorkOK' /\ DoneOK'
<1>1. /\ phase = "choose" /\ f \in waiting
      /\ current' = f /\ waiting' = waiting \ {f} /\ phase' = "cover" /\ pass' = "easy"
      /\ UNCHANGED <<tu, reports, next, file_infos>>
  BY DEF StartFile, constants
<1>2. /\ ~Working /\ Working' /\ ~Early /\ ~Early' /\ f \in tu.files_to_report /\ StateOK
  BY <1>1 DEF ReasonsInv, IInv, OrderOK, Working, Early
<1>3. UsesOK'
  BY <1>1, <1>2, WaitingStays DEF ReasonsInv
<1>4. \A g : UsedDecls(g)' = UsedDecls(g) /\ UsedReasons(g)' = UsedReasons(g)
  BY <1>1, SameUsings
<1>5. WorkOK'
  <2> DEFINE decls == UsedDecls(f)
             headers == UsedReasons(f)
             us == file_infos[f].symbol_uses
             processed == ProcessSymbolUses(ProcessFullUses(ProcessForwardDeclares(us)))
             associated == AssociatedIncludeUses(f)
             all == processed \o associated
             asked == [i \in DOMAIN all |-> WithHeaders(all[i])]
  <2>1. uses' = asked
    BY DEF StartFile
  <2>2. Accounted(decls, headers) /\ \A g \in tu.associated[f] : QuotedInclude[g] \in headers
    BY FilesAccounted
  <2>3. InfoExplained(file_infos[f], UsingDecls, decls, headers)
    BY <1>1, <1>2 DEF ReasonsInv, UsesOK
  <2> HIDE DEF decls, headers
  <2>4. IsSeq(us) /\ AllExplained(us, decls, headers) /\ PlainLines(file_infos[f].lines)
    BY <2>3 DEF InfoExplained, InfoOK
  <2> HIDE DEF us
  <2>5. IsSeq(processed) /\ AllExplained(processed, decls, headers)
    BY <1>2, <2>2, <2>4, ProcessedIsSeq, ProcessedExplained
  <2> HIDE DEF processed
  <2>6. IsFiniteSet(tu.associated[f]) /\ tu.associated[f] \subseteq Files
    BY <1>2, ProgramOK
  <2>7. IsSeq(associated)
    BY <2>6, AssociatedIncludeUsesIsSeq
  <2>8. AllExplained(associated, decls, headers)
    <3> DEFINE gs == SetToSeq(tu.associated[f])
    <3>1. \A i \in DOMAIN gs : gs[i] \in tu.associated[f]
      BY <2>6, SetToSeqIsSeq
    <3>2. /\ DOMAIN associated = DOMAIN gs
          /\ \A i \in DOMAIN gs : associated[i] = IncludeFileUse(f, gs[i], QuotedInclude[gs[i]])
      <4> HIDE DEF gs
      <4> QED BY DEF AssociatedIncludeUses, gs
    <3> HIDE DEF gs, associated
    <3> QED BY <2>2, <2>6, <3>1, <3>2, IncludeFileUseExplained DEF AllExplained
  <2> HIDE DEF associated
  <2>9. AllExplained(all, decls, headers)
    <3>1. \A i \in DOMAIN all : all[i] \in Elements(processed) \cup Elements(associated)
      BY <2>5, <2>7, Joined
    <3> HIDE DEF all
    <3> QED BY <2>5, <2>8, <3>1 DEF AllExplained, Elements
  <2> HIDE DEF all
  <2>10. AllExplained(asked, decls, headers)
    BY <1>2, <2>2, <2>9, WithHeadersExplained DEF AllExplained
  <2> HIDE DEF asked
  <2>11. AllExplained(uses', decls, headers)
    BY <2>1, <2>10
  <2> QED BY <1>1, <1>4, <2>4, <2>11 DEF WorkOK, decls, headers
<1>6. DoneOK'
  <2>1. \A g : Unfinished(g)' <=> Unfinished(g)
    BY <1>1, <1>2 DEF Unfinished
  <2>2. ASSUME NEW g \in tu.files_to_report, ~Unfinished(g)
        PROVE  LinesHaveReasons(g)'
    BY <1>1, <2>2, ReasonsStay DEF ReasonsInv, DoneOK
  <2> QED BY <1>1, <2>1, <2>2 DEF DoneOK
<1> QED BY <1>3, <1>5, <1>6

(* Steps that leave the infos of all files alone, after they have been read. *)
LEMMA LaterStepExplained ==
  ASSUME ReasonsInv, ~Early, ~Early',
         UNCHANGED <<tu, reports, next, file_infos, waiting, current>>,
         Working' <=> Working, WorkOK'
  PROVE  UsesOK' /\ WorkOK' /\ DoneOK'
<1>1. UsesOK'
  BY WaitingStays DEF ReasonsInv
<1>2. \A g : Unfinished(g)' <=> Unfinished(g)
  BY DEF Unfinished
<1>3. ASSUME NEW g \in tu.files_to_report, ~Unfinished(g)
      PROVE  LinesHaveReasons(g)'
  BY <1>3, ReasonsStay DEF ReasonsInv, DoneOK
<1>4. DoneOK'
  BY <1>2, <1>3 DEF DoneOK
<1> QED BY <1>1, <1>4

LEMMA CalculateMinimalIncludesExplained ==
  ASSUME ReasonsInv, CalculateMinimalIncludes
  PROVE  UsesOK' /\ WorkOK' /\ DoneOK'
<1>1. /\ phase = "cover" /\ UNCHANGED <<tu, reports, next, file_infos, waiting, current, phase>>
      /\ Working /\ Working' /\ ~Early /\ ~Early'
  BY DEF CalculateMinimalIncludes, constants, Working, Early
<1> DEFINE decls == UsedDecls(current)
           headers == UsedReasons(current)
<1>2. decls' = decls /\ headers' = headers
  BY <1>1, SameUsings
<1>3. Accounted(decls, headers) /\ StateOK
  BY FilesAccounted DEF ReasonsInv, IInv
<1>4. AllExplained(uses, decls, headers) /\ PlainLines(file_infos[current].lines)
  BY <1>1 DEF ReasonsInv, WorkOK
<1> HIDE DEF decls, headers
<1>5. /\ AllExplained(uses', decls, headers)
      /\ pass' = "done" => \A i \in DOMAIN uses' : Settled(uses'[i])
  BY <1>3, <1>4, MinimalIncludesExplained
<1>6. WorkOK'
  BY <1>1, <1>2, <1>4, <1>5 DEF WorkOK, decls, headers
<1> QED BY <1>1, <1>6, LaterStepExplained

LEMMA JudgeUseExplained ==
  ASSUME ReasonsInv, JudgeUse
  PROVE  UsesOK' /\ WorkOK' /\ DoneOK'
<1>1. /\ phase = "judge" /\ UNCHANGED <<tu, reports, next, file_infos, waiting, current, phase>>
      /\ Working /\ Working' /\ ~Early /\ ~Early'
  BY DEF JudgeUse, constants, Working, Early
<1>2. PICK use \in JudgedUses(uses[next_use]) : uses' = [uses EXCEPT ![next_use] = use]
  BY DEF JudgeUse
<1> DEFINE decls == UsedDecls(current)
           headers == UsedReasons(current)
<1>3. decls' = decls /\ headers' = headers
  BY <1>1, SameUsings
<1>4. Accounted(decls, headers) /\ StateOK
  BY FilesAccounted DEF ReasonsInv, IInv
<1>5. /\ AllExplained(uses, decls, headers) /\ PlainLines(file_infos[current].lines)
      /\ \A i \in DOMAIN uses : Settled(uses[i])
  BY <1>1 DEF ReasonsInv, WorkOK
<1> HIDE DEF decls, headers
<1>6. next_use \in DOMAIN uses => Explained(use, decls, headers) /\ Settled(use)
  BY <1>2, <1>4, <1>5, JudgedExplained DEF AllExplained
<1>7. /\ DOMAIN uses' = DOMAIN uses
      /\ \A i \in DOMAIN uses : uses'[i] = IF i = next_use THEN use ELSE uses[i]
  BY <1>2
<1>8. AllExplained(uses', decls, headers) /\ \A i \in DOMAIN uses' : Settled(uses'[i])
  BY <1>5, <1>6, <1>7 DEF AllExplained
<1>9. WorkOK'
  BY <1>1, <1>3, <1>5, <1>8 DEF WorkOK, decls, headers
<1> QED BY <1>1, <1>9, LaterStepExplained

LEMMA EndingExplained ==
  ASSUME ReasonsInv, Exit \/ \E f \in Files : FailCheck(f)
  PROVE  UsesOK' /\ WorkOK' /\ DoneOK'
<1>1. /\ UNCHANGED <<tu, reports, next, file_infos, waiting, current>>
      /\ ~Early /\ ~Early' /\ ~Working /\ ~Working'
  BY DEF Exit, FailCheck, constants, Early, Working
<1>2. WorkOK'
  BY <1>1 DEF WorkOK
<1> QED BY <1>1, <1>2, LaterStepExplained

LEMMA SetDesiredIncludesExplained ==
  ASSUME ReasonsInv, SetDesiredIncludes
  PROVE  UsesOK' /\ WorkOK' /\ DoneOK'
<1> DEFINE info == file_infos[current]
           D == DesiredIncludes
           more == [info EXCEPT !.desired_includes = D, !.calculated = TRUE]
<1>1. /\ phase = "cover" /\ phase' = "judge" /\ pass = "done"
      /\ UNCHANGED <<tu, reports, next, waiting, current, uses>>
      /\ file_infos' = [file_infos EXCEPT ![current].desired_includes = D,
                                          ![current].calculated = TRUE]
      /\ Working /\ Working' /\ ~Early /\ ~Early'
  BY DEF SetDesiredIncludes, constants, Working, Early
<1>2. /\ current \in tu.files_to_report \ waiting /\ current \in Files
      /\ DOMAIN file_infos = Files /\ InfoOK(info) /\ tu.files_to_report \subseteq Files
  BY <1>1, ProgramOK DEF ReasonsInv, IInv, OrderOK, StateOK
<1> HIDE DEF D
<1>3. /\ file_infos'[current] = more
      /\ \A g \in Files \ {current} : file_infos'[g] = file_infos[g]
  BY <1>1, <1>2
<1>4. /\ more.lines = info.lines
      /\ more.using_decl_referenced = info.using_decl_referenced
  BY <1>2 DEF InfoOK, InfoFields
<1> HIDE DEF more
<1>5. \A g \in Files :
        /\ file_infos'[g].lines = file_infos[g].lines
        /\ file_infos'[g].using_decl_referenced = file_infos[g].using_decl_referenced
  BY <1>3, <1>4
<1> HIDE DEF info
<1>6. UsesOK'
  <2>1. waiting \subseteq Files \ {current}
    BY <1>2 DEF ReasonsInv, IInv, OrderOK
  <2> QED BY <1>1, <1>3, <2>1, WaitingStays DEF ReasonsInv
<1>7. WorkOK'
  <2>1. /\ UsedDecls(current)' = UsedDecls(current)
        /\ UsedReasons(current)' = UsedReasons(current)
    <3>1. UsedDecls(current)' = UsedDecls(current)'
      OBVIOUS
    <3> QED BY <1>1, <1>2, <1>5, SameUsings
  <2> QED BY <1>1, <1>2, <1>5, <2>1 DEF ReasonsInv, WorkOK
<1>8. DoneOK'
  <2>1. \A g : Unfinished(g)' <=> Unfinished(g)
    BY <1>1 DEF Unfinished
  <2>2. ASSUME NEW g \in tu.files_to_report, ~Unfinished(g)
        PROVE  LinesHaveReasons(g)'
    BY <1>1, <1>2, <1>5, <2>2, ReasonsStay DEF ReasonsInv, DoneOK
  <2> QED BY <1>1, <2>1, <2>2 DEF DoneOK
<1> QED BY <1>6, <1>7, <1>8

-----------------------------------------------------------------------------
(* The lines in the end. *)
LEMMA AddLinePlain ==
  ASSUME NEW lines, PlainLines(lines), NEW use
  PROVE  PlainLines(AddLine(lines, use))
<1>1. IsPlain(LineFor(use))
  BY DEF LineFor, AnIncludeLine, AForwardDeclareLine, IsPlain, IsIncludeLine
<1>2. AddLine(lines, use) \in {lines, Append(lines, LineFor(use))}
  BY DEF AddLine, LineFor
<1> QED BY <1>1, <1>2, PlainLine

LEMMA ReflectedPlain ==
  ASSUME NEW lines, PlainLines(lines), IsSeq(uses)
  PROVE  PlainLines(WithUsesReflected(lines))
<1> DEFINE U == Elements(lines) \cup {LineFor(uses[n]) : n \in Nat}
           Good == {s \in Seq(U) : PlainLines(s)}
<1>1. lines \in Good
  <2> DEFINE L == Elements(lines)
  <2>1. lines \in Seq(L)
    BY DEF PlainLines, IsSeq
  <2>2. L \subseteq U
    OBVIOUS
  <2> HIDE DEF L, U
  <2> QED BY <2>1, <2>2
<1>2. ASSUME NEW n \in Nat, NEW s \in Good PROVE AddLine(s, uses[n + 1]) \in Good
  <2> DEFINE use == uses[n + 1]
  <2>1. s \in Seq(U) /\ LineFor(use) \in U /\ PlainLines(s)
    OBVIOUS
  <2>2. AddLine(s, use) \in {s, Append(s, LineFor(use))}
    BY DEF AddLine, LineFor
  <2>3. PlainLines(AddLine(s, use))
    BY <2>1, AddLinePlain
  <2>4. AddLine(s, use) \in Seq(U)
    <3> HIDE DEF U, use
    <3> QED BY <2>1, <2>2
  <2> QED BY <2>3, <2>4
<1>3. Len(uses) \in Nat
  BY SeqDomain
<1>4. WithUsesReflected(lines) \in Good
  <2> HIDE DEF Good
  <2> QED BY <1>1, <1>2, <1>3, WithUsesReflectedStays
<1> QED BY <1>4

LEMMA FinishedHaveReasons ==
  ASSUME NEW lines, PlainLines(lines), Fresh(lines), IsSeq(uses),
         NEW decls, NEW headers, AllExplained(uses, decls, headers),
         \A i \in DOMAIN uses : Settled(uses[i]),
         NEW i \in DOMAIN FinishedLines(lines), FinishedLines(lines)[i].desired,
         IsIncludeLine(FinishedLines(lines)[i])
  PROVE  \/ <<current, FinishedLines(lines)[i].included_file>> \in tu.kept_includes
         \/ FinishedLines(lines)[i].header \in headers
<1> DEFINE all == WithUsesReflected(lines)
           line == FinishedLines(lines)[i]
<1>1. PlainLines(all) /\ WantedAmong(all, FinishedLines(lines))
  BY ReflectedPlain, FinishedOnce
<1>2. /\ i \in DOMAIN all
      /\ line.header = all[i].header /\ line.included_file = all[i].included_file
      /\ \/ all[i].desired
         \/ \E j \in DOMAIN uses : IsReasonFor(uses[j], all[i])
         \/ IsKept(all[i])
  BY <1>1 DEF WantedAmong
<1> HIDE DEF all, line
<1>3. IsIncludeLine(all[i])
  BY <1>2 DEF IsIncludeLine, line
<1>4. ~all[i].desired /\ all[i].decl = NoDecl
  BY <1>1, <1>2, <1>3 DEF PlainLines, IsPlain
<1>5. CASE IsKept(all[i])
  BY <1>2, <1>3, <1>5 DEF IsKept, line
<1>6. ASSUME NEW j \in DOMAIN uses, IsReasonFor(uses[j], all[i])
      PROVE  line.header \in headers
  <2>1. Settled(uses[j]) /\ uses[j].suggested_header \in headers \cup {NoHeader}
    BY DEF AllExplained, Explained
  <2>2. HasSuggestedHeader(uses[j]) /\ all[i].header = uses[j].suggested_header
    BY <1>4, <1>6, <2>1 DEF IsReasonFor, Settled
  <2> QED BY <1>2, <2>1, <2>2 DEF HasSuggestedHeader
<1> QED BY <1>2, <1>4, <1>5, <1>6 DEF line

LEMMA CalculateAndReportExplained ==
  ASSUME ReasonsInv, CalculateAndReportIwyuViolations
  PROVE  UsesOK' /\ WorkOK' /\ DoneOK'
<1> DEFINE info == file_infos[current]
           L == FinishedLines(info.lines)
           more == [info EXCEPT !.lines = L, !.symbol_uses = uses]
<1>1. /\ phase = "judge"
      /\ UNCHANGED <<tu, reports, next, waiting>>
      /\ file_infos' = [file_infos EXCEPT ![current].lines = L, ![current].symbol_uses = uses]
      /\ Working /\ ~Working' /\ ~Early /\ ~Early'
  BY DEF CalculateAndReportIwyuViolations, FinishedLines, constants, Working, Early
<1>2. /\ current \in tu.files_to_report \ waiting /\ current \in Files
      /\ waiting \subseteq tu.files_to_report /\ tu.files_to_report \subseteq Files
      /\ DOMAIN file_infos = Files /\ InfoOK(info) /\ IsSeq(uses)
  BY <1>1, ProgramOK DEF ReasonsInv, IInv, OrderOK, StateOK
<1>3. \A i \in DOMAIN L : L[i].desired /\ IsIncludeLine(L[i]) =>
        \/ <<current, L[i].included_file>> \in tu.kept_includes
        \/ L[i].header \in UsedReasons(current)
  <2> DEFINE decls == UsedDecls(current)
             headers == UsedReasons(current)
             lines == info.lines
  <2>1. Fresh(lines)
    BY <1>1, <1>2 DEF ReasonsInv, IInv, LinesOK, Unfinished
  <2>2. /\ PlainLines(lines) /\ AllExplained(uses, decls, headers)
        /\ \A i \in DOMAIN uses : Settled(uses[i])
    BY <1>1 DEF ReasonsInv, WorkOK
  <2> HIDE DEF decls, headers, lines
  <2>3. \A i \in DOMAIN FinishedLines(lines) :
          FinishedLines(lines)[i].desired /\ IsIncludeLine(FinishedLines(lines)[i]) =>
            \/ <<current, FinishedLines(lines)[i].included_file>> \in tu.kept_includes
            \/ FinishedLines(lines)[i].header \in headers
    BY <1>2, <2>1, <2>2, FinishedHaveReasons
  <2> QED BY <2>3 DEF headers, lines
<1> HIDE DEF L
<1>4. /\ file_infos'[current] = more
      /\ \A g \in Files \ {current} : file_infos'[g] = file_infos[g]
  BY <1>1, <1>2
<1>5. more.lines = L /\ more.using_decl_referenced = info.using_decl_referenced
  BY <1>2 DEF InfoOK, InfoFields
<1> HIDE DEF more
<1>6. UsesOK'
  BY <1>1, <1>2, <1>4, WaitingStays DEF ReasonsInv
<1>7. WorkOK'
  BY <1>1 DEF WorkOK
<1>8. DoneOK'
  <2> SUFFICES ASSUME NEW g \in tu.files_to_report, ~Unfinished(g)'
               PROVE  LinesHaveReasons(g)'
    BY <1>1 DEF DoneOK
  <2>1. CASE g = current
    <3>1. file_infos'[g] = more
      BY <1>4, <2>1
    <3>2. UsedReasons(g)' = UsedReasons(g)
      BY <1>1, <1>5, <2>1, <3>1, SameUsings
    <3> QED BY <1>1, <1>3, <1>5, <2>1, <3>1, <3>2 DEF LinesHaveReasons
  <2>2. CASE g # current
    <3>1. file_infos'[g] = file_infos[g]
      BY <1>2, <1>4, <2>2
    <3>2. ~Unfinished(g)
      BY <1>1, <2>2 DEF Unfinished
    <3> QED BY <1>1, <3>1, <3>2, ReasonsStay DEF ReasonsInv, DoneOK
  <2> QED BY <2>1, <2>2
<1> QED BY <1>6, <1>7, <1>8

-----------------------------------------------------------------------------
LEMMA InitReasonsInv == Init => ReasonsInv
<1> SUFFICES ASSUME Init PROVE ReasonsInv
  OBVIOUS
<1>1. IInv
  BY InitIInv
<1> DEFINE none == [d \in {} |-> FALSE]
           info == [lines |-> <<>>, symbol_uses |-> <<>>, using_decl_referenced |-> none,
                    desired_includes |-> {}, calculated |-> FALSE]
<1>2. /\ phase = "preprocess" /\ next = 1 /\ waiting = tu.files_to_report
      /\ file_infos = [f \in Files |-> info]
  BY DEF Init
<1>3. reports \in Seq(tu.uses)
  <2>1. PICK n \in 0..MaxReports : \E rs \in kSubset(n, tu.uses) : reports \in [1..n -> rs]
    BY DEF Init
  <2>2. PICK rs \in kSubset(n, tu.uses) : reports \in [1..n -> rs]
    BY <2>1
  <2>3. rs \subseteq tu.uses
    BY <2>2 DEF kSubset
  <2>4. n \in Nat
    BY <2>1, ReportsAssumption
  <2>5. reports \in [1..n -> tu.uses]
    BY <2>2, <2>3
  <2> QED BY <2>4, <2>5
<1>4. Early /\ ~Working
  BY <1>2 DEF Early, Working
<1>5. tu.files_to_report \subseteq Files /\ \A f \in Files : InfoOK(file_infos[f])
  BY <1>1, ProgramOK DEF IInv, StateOK
<1>6. /\ info.lines = <<>> /\ info.symbol_uses = <<>> /\ ~info.calculated
      /\ DOMAIN info.using_decl_referenced = {}
  OBVIOUS
<1> HIDE DEF info
<1>7. \A f \in Files : file_infos[f] = info
  BY <1>2
<1>8. PlainLines(<<>>) /\ \A decls, headers : AllExplained(<<>>, decls, headers)
  BY EmptyIsSeq DEF PlainLines, AllExplained
<1>9. UsesOK
  <2>1. \A f \in Files :
          /\ InfoExplained(file_infos[f], UsingDecls, ReportedDecls(f), ReportedReasons(f))
          /\ ~file_infos[f].calculated
    BY <1>5, <1>6, <1>7, <1>8 DEF InfoExplained
  <2> QED BY <1>2, <1>3, <1>4, <1>5, <2>1 DEF UsesOK
<1>10. WorkOK /\ DoneOK
  BY <1>2, <1>4 DEF WorkOK, DoneOK, Unfinished
<1> QED BY <1>1, <1>9, <1>10 DEF ReasonsInv

LEMMA NextPreservesReasons ==
  ASSUME ReasonsInv, [Next]_vars
  PROVE  ReasonsInv'
<1>1. IInv'
  BY NextPreserves DEF ReasonsInv
<1>2. UsesOK' /\ WorkOK' /\ DoneOK'
  <2>1. CASE SeeInclude
    BY <2>1, SeeIncludeExplained
  <2>2. CASE StartTraversal \/ StartReports
    BY <2>2, StartingExplained
  <2>3. CASE VisitDecl
    BY <2>3, VisitDeclExplained
  <2>4. CASE ReportUse
    BY <2>4, ReportUseExplained
  <2>5. CASE ResolvePendingAnalysis
    BY <2>5, ResolvePendingAnalysisExplained
  <2>6. ASSUME NEW f \in Files, StartFile(f) PROVE UsesOK' /\ WorkOK' /\ DoneOK'
    BY <2>6, StartFileExplained
  <2>7. CASE CalculateMinimalIncludes
    BY <2>7, CalculateMinimalIncludesExplained
  <2>8. CASE SetDesiredIncludes
    BY <2>8, SetDesiredIncludesExplained
  <2>9. CASE JudgeUse
    BY <2>9, JudgeUseExplained
  <2>10. CASE CalculateAndReportIwyuViolations
    BY <2>10, CalculateAndReportExplained
  <2>11. CASE Exit \/ \E f \in Files : FailCheck(f)
    BY <2>11, EndingExplained
  <2>12. CASE UNCHANGED vars
    <3>1. UNCHANGED <<tu, reports, phase, next, file_infos, waiting, current, uses, pass>>
      BY <2>12 DEF vars, constants, cover_vars
    <3>2. \A f : /\ UsedDecls(f)' = UsedDecls(f) /\ UsedReasons(f)' = UsedReasons(f)
                 /\ ReportedDecls(f)' = ReportedDecls(f)
                 /\ ReportedReasons(f)' = ReportedReasons(f)
      BY <3>1, SameUsings, SameReports
    <3>3. UsingDecls' = UsingDecls
      BY <3>1, SameReports
    <3>4. UsesOK'
      BY <3>1, <3>2, <3>3 DEF ReasonsInv, UsesOK, Early
    <3>5. WorkOK'
      BY <3>1, <3>2 DEF ReasonsInv, WorkOK, Working
    <3>6. DoneOK'
      BY <3>1, <3>2 DEF ReasonsInv, DoneOK, Unfinished, Working, LinesHaveReasons
    <3> QED BY <3>4, <3>5, <3>6
  <2> QED BY <2>1, <2>2, <2>3, <2>4, <2>5, <2>6, <2>7, <2>8, <2>9, <2>10, <2>11, <2>12 DEF Next
<1> QED BY <1>1, <1>2 DEF ReasonsInv

(* CalculateDesiredIncludesAndForwardDeclares: an #include that a file is  *)
(* told to have is one that a use of the file calls for, whatever steps A  *)
(* to E made of the use in between, or one that a pragma keeps.            *)
THEOREM NoIncludeWithoutReasonAlways == Spec => []NoIncludeWithoutReason
<1>1. ReasonsInv => NoIncludeWithoutReason
  <2> SUFFICES ASSUME ReasonsInv, NEW f \in tu.files_to_report,
                      file_infos[f].calculated, current # f,
                      NEW l \in Lines(f), l.desired, IsIncludeLine(l)
               PROVE  \/ <<f, l.included_file>> \in tu.kept_includes
                      \/ l.header \in Reasons(f, ReportedSymbols(f) \cup UsingSymbols(f))
    BY DEF NoIncludeWithoutReason
  <2>1. ~Unfinished(f)
    BY DEF ReasonsInv, UsesOK, Unfinished
  <2>2. PICK i \in DOMAIN file_infos[f].lines : l = file_infos[f].lines[i]
    BY DEF Lines, Range
  <2> QED BY <2>1, <2>2 DEF ReasonsInv, DoneOK, LinesHaveReasons, UsedReasons, UsedSymbols
<1>2. ReasonsInv /\ [Next]_vars => ReasonsInv'
  BY NextPreservesReasons
<1> QED BY InitReasonsInv, <1>1, <1>2, PTL DEF Spec
=============================================================================
