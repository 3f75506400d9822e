------------------------ MODULE MinimalIncludesProofs ------------------------
(* Theorems about MinimalIncludes, for any headers, uses and situations.   *)
EXTENDS MinimalIncludes, WellFoundedInduction, TLAPS

-----------------------------------------------------------------------------
(* What the helpers return.                                                *)

(* The first element of a sequence that passes a test is one of them. *)
LEMMA LeastIndex ==
  ASSUME NEW hits, hits \subseteq Nat, hits # {}
  PROVE  (CHOOSE i \in hits : \A j \in hits : i <= j) \in hits
<1>1. PICK least \in hits : \A j \in hits : <<j, least>> \notin OpToRel(<, Nat)
  BY WFMin, NatLessThanWellFounded
<1>2. ASSUME NEW j \in hits, j < least
      PROVE  <<j, least>> \in OpToRel(<, Nat)
  <2>1. <<j, least>> \in Nat \X Nat
    OBVIOUS
  <2>2. <<j, least>>[1] < <<j, least>>[2]
    BY <1>2
  <2> QED BY <2>1, <2>2, Zenon DEF OpToRel
<1>3. \A j \in hits : ~(j < least)
  BY <1>1, <1>2, Zenon
<1>4. \A j \in hits : least <= j
  BY <1>3
<1> QED BY <1>4

(* FirstIn returns nothing, or an element of the sequence in the set.      *)
LEMMA FirstInChosen ==
  ASSUME NEW choices \in Seq(Headers), NEW set, FirstIn(choices, set) # NoHeader
  PROVE  /\ FirstIn(choices, set) \in set
         /\ \E i \in DOMAIN choices : choices[i] = FirstIn(choices, set)
<1> DEFINE hits == {i \in DOMAIN choices : choices[i] \in set}
           first == CHOOSE i \in hits : \A j \in hits : i <= j
<1>1. hits # {} /\ FirstIn(choices, set) = choices[first]
  BY DEF FirstIn
<1>2. hits \subseteq Nat
  OBVIOUS
<1>3. first \in hits
  BY <1>1, <1>2, LeastIndex
<1> QED BY <1>1, <1>3

LEMMA FirstInNone ==
  ASSUME NEW choices \in Seq(Headers), NEW set, FirstIn(choices, set) = NoHeader
  PROVE  \A i \in DOMAIN choices : choices[i] \notin set
<1> DEFINE hits == {i \in DOMAIN choices : choices[i] \in set}
           first == CHOOSE i \in hits : \A j \in hits : i <= j
<1>1. hits # {} => FirstIn(choices, set) = choices[first]
  BY DEF FirstIn
<1>2. hits \subseteq Nat
  OBVIOUS
<1>3. hits # {} => first \in hits
  BY <1>2, LeastIndex
<1>4. hits # {} => choices[first] \in Headers
  BY <1>3
<1> QED BY <1>1, <1>4, HeadersAssumption

(* FirstPick returns nothing, or one of the four picks. *)
LEMMA FirstPickChosen ==
  ASSUME NEW a, NEW b, NEW c, NEW d, FirstPick(<<a, b, c, d>>) # NoHeader
  PROVE  FirstPick(<<a, b, c, d>>) \in {a, b, c, d}
<1> DEFINE picks == <<a, b, c, d>>
           hits == {i \in DOMAIN picks : picks[i] # NoHeader}
           first == CHOOSE i \in hits : \A j \in hits : i <= j
<1>1. hits # {} /\ FirstPick(picks) = picks[first]
  BY DEF FirstPick
<1>2. hits \subseteq Nat
  OBVIOUS
<1>3. first \in hits
  BY <1>1, <1>2, LeastIndex
<1>4. DOMAIN picks = 1..4
  OBVIOUS
<1> QED BY <1>1, <1>3, <1>4

(* A picked header provides the symbol, and in the passes that look for    *)
(* what is present or needed it is included, desired or the file itself.   *)
LEMMA PickProvides ==
  ASSUME TypeOK, NEW use \in Use, NeedsSuggestedHeader(use),
         pass \in {"easy", "present", "needed"}, Pick(use) # NoHeader
  PROVE  /\ Pick(use) \in Provided(use) \cap Headers
         /\ \/ Pick(use) \in desired_headers \cup direct_includes \cup associated_desired_includes
            \/ pass = "present" /\ use_quoted_include \in Candidates(use)
            \/ use.public_headers # <<>> /\ use.public_headers[1] = Pick(use)
         /\ ~BecomesDesired(use) => Pick(use) = use_quoted_include
<1>1. /\ use.public_headers \in Seq(Headers) /\ use.canonical_headers \in Seq(Headers)
      /\ use.decl_file \in Headers /\ use.ignore_use = FALSE
  BY DEF Use, NeedsSuggestedHeader
<1>2. CASE pass = "easy"
  BY <1>1, <1>2 DEF Pick, EasyPick, Provided, Candidates, BecomesDesired
<1>3. CASE pass = "needed"
  <2>1. Pick(use) = FirstIn(use.public_headers, desired_headers)
    BY <1>3 DEF Pick, NeededPick
  <2> QED BY <1>1, <1>3, <2>1, FirstInChosen DEF Provided, Candidates, BecomesDesired, TypeOK
<1>4. CASE pass = "present"
  <2> DEFINE a == FirstIn(use.public_headers, {use_quoted_include})
             b == FirstIn(use.public_headers, associated_desired_includes)
             c == FirstIn(use.public_headers, direct_includes \cap desired_headers)
             d == FirstIn(use.canonical_headers, direct_includes)
  <2>1. Pick(use) = FirstPick(<<a, b, c, d>>)
    BY <1>4 DEF Pick, PresentPick
  <2>2. CASE Pick(use) = a /\ a # NoHeader
    BY <1>1, <1>4, <2>2, FirstInChosen DEF Provided, Candidates, TypeOK
  <2>3. CASE a = NoHeader
    <3>1. Pick(use) \in {b, c, d}
      BY <2>1, <2>3, FirstPickChosen
    <3>2. use_quoted_include \notin Candidates(use)
      BY <1>1, <2>3, FirstInNone DEF Candidates
    <3> QED BY <1>1, <1>4, <3>1, <3>2, FirstInChosen
            DEF Provided, Candidates, BecomesDesired, TypeOK
  <2>4. a # NoHeader => Pick(use) = a
    BY <2>1 DEF FirstPick
  <2> QED BY <2>2, <2>3, <2>4
<1> QED BY <1>2, <1>3, <1>4

-----------------------------------------------------------------------------
(* What a step does to the uses: nothing, or it gives a header to uses     *)
(* that need one and that it provides for.                                 *)
Gives(header, served) ==
  /\ header \in Headers
  /\ served \subseteq UnmappedUses
  /\ \A i \in served : header \in Provided(uses[i])
  /\ uses' = [i \in DOMAIN uses |->
                IF i \in served THEN [uses[i] EXCEPT !.suggested_header = header]
                ELSE uses[i]]

LEMMA UseAt ==
  ASSUME TypeOK, NEW i \in DOMAIN uses
  PROVE  uses[i] \in Use
BY DEF TypeOK

LEMMA GiveHeaderGives ==
  ASSUME TypeOK, GiveHeader
  PROVE  /\ next_use \in UnmappedUses
         /\ Gives(Pick(uses[next_use]), {next_use})
<1> DEFINE use == uses[next_use]
<1>1. /\ next_use \in DOMAIN uses /\ NeedsSuggestedHeader(use) /\ Pick(use) # NoHeader
      /\ pass \in {"easy", "present", "needed"}
      /\ uses' = [uses EXCEPT ![next_use].suggested_header = Pick(use)]
  BY DEF GiveHeader, InPass, TypeOK
<1>2. Pick(use) \in Provided(use) \cap Headers
  BY <1>1, UseAt, PickProvides
<1>3. uses' = [i \in DOMAIN uses |->
                 IF i \in {next_use}
                 THEN [uses[i] EXCEPT !.suggested_header = Pick(use)] ELSE uses[i]]
  BY <1>1
<1> QED BY <1>1, <1>2, <1>3 DEF Gives, UnmappedUses

LEMMA CoverGives ==
  ASSUME TypeOK, NEW header \in Headers, Cover(header)
  PROVE  /\ Gives(header, {i \in UnmappedUses : header \in Candidates(uses[i])})
         /\ \E i \in UnmappedUses : /\ header \in Candidates(uses[i])
                                   /\ uses[i].public_headers[1] = header
<1> DEFINE served == {i \in UnmappedUses : header \in Candidates(uses[i])}
<1>1. \A i \in served : header \in Provided(uses[i])
  BY DEF Provided, UnmappedUses, NeedsSuggestedHeader
<1>2. uses' = [i \in DOMAIN uses |->
                 IF i \in served THEN [uses[i] EXCEPT !.suggested_header = header]
                 ELSE uses[i]]
  BY DEF Cover
<1>3. PICK a \in Appearances(header) : uses[a[1]].public_headers[1] = header
  BY DEF Cover, BestHeaders, HeaderCounts, FirstAppearances
<1>4. PICK i \in UnmappedUses : a \in {i} \X Listed(header, uses[i])
  BY <1>3 DEF Appearances
<1>5. a[1] = i /\ header \in Candidates(uses[i])
  BY <1>4 DEF Listed, Candidates
<1> QED BY <1>1, <1>2, <1>3, <1>5 DEF Gives

LEMMA GivesKeepsTypes ==
  ASSUME TypeOK, NEW header, NEW served, Gives(header, served)
  PROVE  /\ uses' \in Seq(Use) /\ Len(uses') = Len(uses)
         /\ DOMAIN uses' = DOMAIN uses
         /\ \A i \in DOMAIN uses :
              uses'[i] = IF i \in served
                         THEN [uses[i] EXCEPT !.suggested_header = header]
                         ELSE uses[i]
<1>1. /\ DOMAIN uses = 1..Len(uses) /\ Len(uses) \in Nat
      /\ DOMAIN uses' = DOMAIN uses
  BY DEF TypeOK, Gives
<1>2. \A i \in DOMAIN uses :
        /\ uses'[i] = IF i \in served
                      THEN [uses[i] EXCEPT !.suggested_header = header] ELSE uses[i]
        /\ uses'[i] \in Use
  BY UseAt DEF Gives, Use
<1>3. uses' \in [1..Len(uses) -> Use]
  BY <1>1, <1>2 DEF Gives
<1> QED BY <1>1, <1>2, <1>3

-----------------------------------------------------------------------------
LEMMA InitTypeOK == ASSUME Init PROVE TypeOK
<1>1. PICK s \in Situations : /\ use_quoted_include = s.use_quoted_include
                              /\ direct_includes = s.direct_includes
                              /\ associated_desired_includes = s.associated_desired_includes
  BY DEF Init
<1>2. PICK n \in 0..MaxUses : uses \in [1..n -> Uses]
  BY DEF Init
<1>3. uses \in Seq(Use) /\ Len(uses) \in Nat
  BY <1>2, UsesAssumption
<1>4. s \in Situation
  BY SituationsAssumption
<1> QED BY <1>1, <1>3, <1>4 DEF Init, TypeOK, Situation

LEMMA NextTypeOK == ASSUME TypeOK, [Next]_vars PROVE TypeOK'
<1>1. CASE TakeSuggested
  <2>1. next_use \in DOMAIN uses /\ uses[next_use] \in Use
    BY <1>1, UseAt DEF TakeSuggested, InPass, TypeOK
  <2> QED BY <1>1, <2>1
          DEF TakeSuggested, ComesWithHeader, HasSuggestedHeader, Use, TypeOK, inputs, InPass
<1>2. CASE GiveHeader
  <2>1. Pick(uses[next_use]) \in Headers
    BY <1>2, GiveHeaderGives DEF Gives
  <2>2. uses' \in Seq(Use) /\ Len(uses') = Len(uses)
    BY <1>2, GiveHeaderGives, GivesKeepsTypes
  <2>3. desired_headers' \in SUBSET Headers
    BY <1>2, <2>1 DEF GiveHeader, TypeOK
  <2>4. next_use' \in 1..Len(uses') + 1
    BY <1>2, <2>2 DEF GiveHeader, InPass, TypeOK
  <2> QED BY <1>2, <2>2, <2>3, <2>4 DEF GiveHeader, TypeOK, inputs
<1>3. CASE PassOver
  BY <1>3 DEF PassOver, InPass, TypeOK, inputs
<1>4. CASE NextPass
  BY <1>4 DEF NextPass, TypeOK, inputs
<1>5. CASE \E header \in Headers : Cover(header)
  <2>1. PICK header \in Headers : Cover(header)
    BY <1>5
  <2>2. uses' \in Seq(Use) /\ Len(uses') = Len(uses)
    BY <2>1, CoverGives, GivesKeepsTypes
  <2> QED BY <2>1, <2>2 DEF Cover, TypeOK, inputs
<1>6. CASE Return
  BY <1>6 DEF Return, TypeOK, inputs
<1>7. CASE UNCHANGED vars
  BY <1>7 DEF vars, TypeOK, inputs
<1> QED BY <1>1, <1>2, <1>3, <1>4, <1>5, <1>6, <1>7 DEF Next

(* The variables keep their types: every suggested header is a header the  *)
(* picker named, and no pass runs past the uses.                           *)
THEOREM TypeCorrect == Spec => []TypeOK
BY InitTypeOK, NextTypeOK, PTL DEF Spec

-----------------------------------------------------------------------------
(* The desired headers and the suggested ones agree. In the first pass     *)
(* only the uses it has looked at count.                                   *)
Seen(i) == pass = "easy" => i < next_use

SuggestedSoFar ==
  \A i \in DOMAIN uses :
    /\ ~uses[i].ignore_use /\ HasSuggestedHeader(uses[i]) /\ Seen(i)
    => uses[i].suggested_header \in desired_headers \cup {use_quoted_include}

CoverInv == TypeOK /\ SuggestedSoFar /\ DesiredHasUse

LEMMA InitCoverInv == ASSUME Init PROVE CoverInv
<1>1. TypeOK
  BY InitTypeOK
<1>2. \A i \in DOMAIN uses : ~Seen(i)
  BY <1>1 DEF Init, Seen, TypeOK
<1> QED BY <1>1, <1>2 DEF Init, CoverInv, SuggestedSoFar, DesiredHasUse

(* A step that leaves the uses alone and moves on by at most one use. *)
LEMMA TakeSuggestedCoverInv == ASSUME CoverInv, TakeSuggested PROVE CoverInv'
<1>1. TypeOK'
  BY NextTypeOK DEF CoverInv, Next
<1>2. /\ next_use \in DOMAIN uses /\ next_use \in Nat
      /\ ~uses[next_use].ignore_use
      /\ HasSuggestedHeader(uses[next_use])
  BY DEF CoverInv, TypeOK, TakeSuggested, InPass, ComesWithHeader
<1>3. SuggestedSoFar'
  <2> SUFFICES ASSUME NEW i \in DOMAIN uses, ~uses[i].ignore_use,
                      HasSuggestedHeader(uses[i]), i < next_use + 1
               PROVE  uses[i].suggested_header \in desired_headers' \cup {use_quoted_include}
    BY DEF TakeSuggested, SuggestedSoFar, Seen, HasSuggestedHeader, inputs
  <2>1. i = next_use \/ i < next_use
    BY <1>2 DEF CoverInv, TypeOK
  <2> QED BY <2>1 DEF CoverInv, SuggestedSoFar, Seen, TakeSuggested
<1>4. DesiredHasUse'
  BY <1>2 DEF CoverInv, DesiredHasUse, TakeSuggested
<1> QED BY <1>1, <1>3, <1>4 DEF CoverInv, TakeSuggested

LEMMA PassOverCoverInv == ASSUME CoverInv, PassOver PROVE CoverInv'
<1>1. TypeOK'
  BY NextTypeOK DEF CoverInv, Next
<1>2. SuggestedSoFar'
  <2> SUFFICES ASSUME NEW i \in DOMAIN uses, ~uses[i].ignore_use,
                      HasSuggestedHeader(uses[i]), pass = "easy" => i < next_use + 1
               PROVE  uses[i].suggested_header \in desired_headers \cup {use_quoted_include}
    BY DEF PassOver, SuggestedSoFar, Seen, HasSuggestedHeader, inputs
  <2>1. pass = "easy" => i < next_use
    BY DEF PassOver, ComesWithHeader, CoverInv, TypeOK
  <2> QED BY <2>1 DEF CoverInv, SuggestedSoFar, Seen
<1> QED BY <1>1, <1>2 DEF CoverInv, PassOver, DesiredHasUse, InPass

LEMMA NextPassCoverInv == ASSUME CoverInv, NextPass PROVE CoverInv'
<1>1. TypeOK'
  BY NextTypeOK DEF CoverInv, Next
<1>2. \A i \in DOMAIN uses : Seen(i)
  BY DEF NextPass, Seen, CoverInv, TypeOK
<1> QED BY <1>1, <1>2
        DEF CoverInv, NextPass, SuggestedSoFar, Seen, HasSuggestedHeader, DesiredHasUse,
            inputs

LEMMA GiveHeaderCoverInv == ASSUME CoverInv, GiveHeader PROVE CoverInv'
<1> DEFINE use == uses[next_use]
           header == Pick(use)
<1>1. TypeOK'
  BY NextTypeOK DEF CoverInv, Next
<1>2. /\ next_use \in UnmappedUses /\ next_use \in DOMAIN uses /\ next_use \in Nat
      /\ Gives(header, {next_use})
  BY GiveHeaderGives DEF CoverInv, UnmappedUses, GiveHeader, InPass, TypeOK
<1>3. /\ DOMAIN uses' = DOMAIN uses
      /\ \A i \in DOMAIN uses :
           uses'[i] = IF i = next_use THEN [use EXCEPT !.suggested_header = header]
                      ELSE uses[i]
  BY <1>2, GivesKeepsTypes DEF CoverInv
<1>4. use \in Use /\ ~use.ignore_use /\ use.suggested_header = NoHeader
  BY <1>2, UseAt DEF CoverInv, UnmappedUses, NeedsSuggestedHeader, HasSuggestedHeader
<1>5. [use EXCEPT !.suggested_header = header].suggested_header = header
      /\ [use EXCEPT !.suggested_header = header].ignore_use = FALSE
  BY <1>4 DEF Use
<1>6. header \in desired_headers' \cup {use_quoted_include}
  <2>1. ~BecomesDesired(use) => header = use_quoted_include
    BY <1>2, <1>4, PickProvides DEF CoverInv, GiveHeader, InPass
  <2> QED BY <2>1 DEF GiveHeader
<1>7. SuggestedSoFar'
  <2> SUFFICES ASSUME NEW i \in DOMAIN uses, ~uses'[i].ignore_use,
                      HasSuggestedHeader(uses'[i]), pass = "easy" => i < next_use + 1
               PROVE  uses'[i].suggested_header \in desired_headers' \cup {use_quoted_include}
    BY <1>3 DEF GiveHeader, SuggestedSoFar, Seen, HasSuggestedHeader, inputs
  <2>1. CASE i = next_use
    BY <1>3, <1>5, <1>6, <2>1
  <2>2. CASE i # next_use
    <3>1. pass = "easy" => i < next_use
      BY <1>2, <2>2 DEF CoverInv, TypeOK
    <3>2. uses'[i] = uses[i] /\ HasSuggestedHeader(uses[i])
      BY <1>3, <2>2 DEF HasSuggestedHeader
    <3>3. uses[i].suggested_header \in desired_headers \cup {use_quoted_include}
      BY <3>1, <3>2 DEF CoverInv, SuggestedSoFar, Seen
    <3>4. desired_headers \subseteq desired_headers'
      BY DEF GiveHeader
    <3> QED BY <3>2, <3>3, <3>4
  <2> QED BY <2>1, <2>2
<1>8. DesiredHasUse'
  <2> SUFFICES ASSUME NEW h \in desired_headers'
               PROVE  \E i \in DOMAIN uses' :
                        ~uses'[i].ignore_use /\ uses'[i].suggested_header = h
    BY DEF DesiredHasUse
  <2>1. CASE h = header
    BY <1>2, <1>3, <1>5, <2>1
  <2>2. CASE h \in desired_headers
    <3>1. PICK i \in DOMAIN uses : ~uses[i].ignore_use /\ uses[i].suggested_header = h
      BY <2>2 DEF CoverInv, DesiredHasUse
    <3>2. h # NoHeader
      BY <2>2, HeadersAssumption DEF CoverInv, TypeOK
    <3> QED BY <1>3, <1>4, <3>1, <3>2
  <2> QED BY <2>1, <2>2 DEF GiveHeader
<1> QED BY <1>1, <1>7, <1>8 DEF CoverInv, GiveHeader, InPass

LEMMA CoverCoverInv ==
  ASSUME CoverInv, NEW header \in Headers, Cover(header)
  PROVE  CoverInv'
<1> DEFINE served == {i \in UnmappedUses : header \in Candidates(uses[i])}
<1>1. TypeOK'
  BY NextTypeOK DEF CoverInv, Next
<1>2. /\ Gives(header, served)
      /\ served # {}
  BY CoverGives DEF CoverInv
<1>3. /\ DOMAIN uses' = DOMAIN uses
      /\ \A i \in DOMAIN uses :
           uses'[i] = IF i \in served THEN [uses[i] EXCEPT !.suggested_header = header]
                      ELSE uses[i]
  BY <1>2, GivesKeepsTypes DEF CoverInv
<1>4. \A i \in served : /\ i \in DOMAIN uses
                        /\ uses[i].suggested_header = NoHeader
                        /\ uses'[i].suggested_header = header
                        /\ uses'[i].ignore_use = FALSE
  BY <1>3, UseAt DEF CoverInv, UnmappedUses, NeedsSuggestedHeader, HasSuggestedHeader, Use
<1>5. SuggestedSoFar'
  <2> SUFFICES ASSUME NEW i \in DOMAIN uses, ~uses'[i].ignore_use,
                      HasSuggestedHeader(uses'[i])
               PROVE  uses'[i].suggested_header \in desired_headers' \cup {use_quoted_include}
    BY <1>3 DEF Cover, SuggestedSoFar, HasSuggestedHeader, inputs
  <2>1. CASE i \in served
    <3>1. desired_headers' = desired_headers \cup {header}
      BY DEF Cover
    <3> QED BY <1>4, <2>1, <3>1
  <2>2. CASE i \notin served
    BY <1>3, <2>2 DEF CoverInv, SuggestedSoFar, Seen, Cover, HasSuggestedHeader
  <2> QED BY <2>1, <2>2
<1>6. DesiredHasUse'
  <2> SUFFICES ASSUME NEW h \in desired_headers'
               PROVE  \E i \in DOMAIN uses' :
                        ~uses'[i].ignore_use /\ uses'[i].suggested_header = h
    BY DEF DesiredHasUse
  <2>1. CASE h = header
    BY <1>2, <1>3, <1>4, <2>1
  <2>2. CASE h \in desired_headers
    <3>1. PICK i \in DOMAIN uses : ~uses[i].ignore_use /\ uses[i].suggested_header = h
      BY <2>2 DEF CoverInv, DesiredHasUse
    <3>2. h # NoHeader
      BY <2>2, HeadersAssumption DEF CoverInv, TypeOK
    <3> QED BY <1>3, <1>4, <3>1, <3>2
  <2> QED BY <2>1, <2>2 DEF Cover
<1> QED BY <1>1, <1>5, <1>6 DEF CoverInv, Cover

LEMMA NextCoverInv == ASSUME CoverInv, [Next]_vars PROVE CoverInv'
<1>1. CASE Return
  <2>1. TypeOK'
    BY <1>1, NextTypeOK DEF CoverInv, Next
  <2> QED BY <1>1, <2>1
          DEF CoverInv, Return, SuggestedSoFar, Seen, HasSuggestedHeader, DesiredHasUse,
              inputs
<1>2. CASE UNCHANGED vars
  <2>1. TypeOK'
    BY <1>2, NextTypeOK DEF CoverInv
  <2> QED BY <1>2, <2>1
          DEF CoverInv, vars, SuggestedSoFar, Seen, HasSuggestedHeader, DesiredHasUse,
              inputs
<1> QED BY <1>1, <1>2, TakeSuggestedCoverInv, PassOverCoverInv, NextPassCoverInv,
           GiveHeaderCoverInv, CoverCoverInv DEF Next

(* Every header suggested after the first pass is among the result or is   *)
(* the file itself: what a use relies on will be included.                 *)
THEOREM SuggestedIsDesiredAlways == Spec => []SuggestedIsDesired
<1>1. CoverInv => SuggestedIsDesired
  BY DEF CoverInv, SuggestedSoFar, SuggestedIsDesired, Seen
<1> QED BY <1>1, InitCoverInv, NextCoverInv, PTL DEF Spec

(* The result holds no header that no use asked for. *)
THEOREM DesiredHasUseAlways == Spec => []DesiredHasUse
<1>1. CoverInv => DesiredHasUse
  BY DEF CoverInv
<1> QED BY <1>1, InitCoverInv, NextCoverInv, PTL DEF Spec

-----------------------------------------------------------------------------
(* The third pass leaves no use that a desired header would do for: it     *)
(* makes no header desired that is not, so that what it has found of a use *)
(* stays so, and the cover serves all uses that its header would do for.   *)
Cleaned(i) ==
  \/ pass = "needed" /\ i < next_use
  \/ pass = "cover"

UnservedSoFar ==
  \A i \in UnmappedUses : Cleaned(i) => Candidates(uses[i]) \cap desired_headers = {}

UnservedInv == TypeOK /\ UnservedSoFar

LEMMA InitUnservedInv == ASSUME Init PROVE UnservedInv
BY InitTypeOK DEF Init, UnservedInv, UnservedSoFar, Cleaned

(* A desired header that would do is picked. *)
LEMMA NeededPickMisses ==
  ASSUME TypeOK, NEW use \in Use, NeededPick(use) = NoHeader
  PROVE  Candidates(use) \cap desired_headers = {}
<1>1. use.public_headers \in Seq(Headers)
  BY DEF Use
<1>2. \A i \in DOMAIN use.public_headers : use.public_headers[i] \notin desired_headers
  BY <1>1, FirstInNone DEF NeededPick
<1> QED BY <1>2 DEF Candidates

LEMMA PassOverUnserved ==
  ASSUME UnservedInv, PassOver
  PROVE  UnservedSoFar'
<1> SUFFICES ASSUME NEW i \in UnmappedUses, pass = "needed", i < next_use + 1
             PROVE  Candidates(uses[i]) \cap desired_headers = {}
  BY DEF PassOver, InPass, UnservedSoFar, Cleaned, UnmappedUses, NeedsSuggestedHeader,
         HasSuggestedHeader, Candidates
<1>1. CASE i = next_use
  <2>1. uses[i] \in Use /\ NeededPick(uses[i]) = NoHeader
    BY <1>1, UseAt DEF UnservedInv, PassOver, Pick, UnmappedUses
  <2> QED BY <2>1, NeededPickMisses DEF UnservedInv
<1>2. CASE i # next_use
  <2>1. i < next_use
    BY <1>2 DEF UnservedInv, TypeOK, UnmappedUses
  <2> QED BY <2>1 DEF UnservedInv, UnservedSoFar, Cleaned
<1> QED BY <1>1, <1>2

LEMMA GiveHeaderUnserved ==
  ASSUME UnservedInv, GiveHeader
  PROVE  UnservedSoFar'
<1> DEFINE use == uses[next_use]
           header == Pick(use)
<1>1. /\ next_use \in UnmappedUses /\ next_use \in DOMAIN uses /\ next_use \in Nat
      /\ Gives(header, {next_use})
  BY GiveHeaderGives DEF UnservedInv, UnmappedUses, GiveHeader, InPass, TypeOK
<1>2. /\ DOMAIN uses' = DOMAIN uses
      /\ \A i \in DOMAIN uses \ {next_use} : uses'[i] = uses[i]
      /\ uses'[next_use].suggested_header = header /\ header # NoHeader
  BY <1>1, UseAt, GivesKeepsTypes DEF UnservedInv, Use, GiveHeader
<1> SUFFICES ASSUME NEW i \in UnmappedUses', pass = "needed", i < next_use + 1
             PROVE  Candidates(uses'[i]) \cap desired_headers' = {}
  BY DEF GiveHeader, InPass, UnservedSoFar, Cleaned, Candidates
<1>3. i \in DOMAIN uses /\ i # next_use
  BY <1>2 DEF UnmappedUses, NeedsSuggestedHeader, HasSuggestedHeader
<1>4. i < next_use
  BY <1>1, <1>3 DEF UnservedInv, TypeOK
<1>5. uses'[i] = uses[i] /\ i \in UnmappedUses
  BY <1>2, <1>3 DEF UnmappedUses, NeedsSuggestedHeader, HasSuggestedHeader
<1>6. header \in desired_headers
  <2>1. use.public_headers \in Seq(Headers)
    BY <1>1, UseAt DEF UnservedInv, Use
  <2>2. header = FirstIn(use.public_headers, desired_headers)
    BY DEF Pick, NeededPick
  <2> QED BY <1>2, <2>1, <2>2, FirstInChosen
<1>7. desired_headers' = desired_headers
  BY <1>6 DEF GiveHeader
<1> QED BY <1>4, <1>5, <1>7 DEF UnservedInv, UnservedSoFar, Cleaned

LEMMA CoverUnserved ==
  ASSUME UnservedInv, NEW header \in Headers, Cover(header)
  PROVE  UnservedSoFar'
<1> DEFINE served == {i \in UnmappedUses : header \in Candidates(uses[i])}
<1>1. /\ pass = "cover" /\ desired_headers' = desired_headers \cup {header}
      /\ Gives(header, served)
  BY CoverGives DEF UnservedInv, Cover
<1>2. /\ DOMAIN uses' = DOMAIN uses
      /\ \A i \in DOMAIN uses : i \notin served => uses'[i] = uses[i]
      /\ \A i \in served : uses'[i].suggested_header = header /\ header # NoHeader
  <2>1. /\ DOMAIN uses' = DOMAIN uses
        /\ \A i \in DOMAIN uses :
             uses'[i] = IF i \in served THEN [uses[i] EXCEPT !.suggested_header = header]
                        ELSE uses[i]
    BY <1>1, GivesKeepsTypes DEF UnservedInv
  <2>2. \A i \in served : i \in DOMAIN uses /\ uses[i] \in Use
    BY UseAt DEF UnservedInv, UnmappedUses
  <2> QED BY <2>1, <2>2, HeadersAssumption DEF Use
<1> SUFFICES ASSUME NEW i \in UnmappedUses'
             PROVE  Candidates(uses'[i]) \cap desired_headers' = {}
  BY DEF UnservedSoFar, Candidates
<1>3. i \in DOMAIN uses /\ i \notin served
  BY <1>2 DEF UnmappedUses, NeedsSuggestedHeader, HasSuggestedHeader
<1>4. uses'[i] = uses[i] /\ i \in UnmappedUses /\ header \notin Candidates(uses[i])
  BY <1>2, <1>3 DEF UnmappedUses, NeedsSuggestedHeader, HasSuggestedHeader
<1> QED BY <1>1, <1>4 DEF UnservedInv, UnservedSoFar, Cleaned

LEMMA NextUnservedInv == ASSUME UnservedInv, [Next]_vars PROVE UnservedInv'
<1>1. TypeOK'
  BY NextTypeOK DEF UnservedInv
<1> SUFFICES UnservedSoFar'
  BY <1>1 DEF UnservedInv
<1>2. CASE TakeSuggested
  BY <1>2 DEF TakeSuggested, UnservedSoFar, Cleaned
<1>3. CASE NextPass
  <2>1. \A i \in UnmappedUses : pass = "needed" => i < next_use
    BY <1>3 DEF NextPass, UnservedInv, TypeOK, UnmappedUses
  <2>2. pass' = "cover" => pass = "needed"
    BY <1>3 DEF NextPass
  <2>3. \A i \in UnmappedUses : ~(i < 1)
    BY DEF UnservedInv, TypeOK, UnmappedUses
  <2> QED BY <1>3, <2>1, <2>2, <2>3
          DEF NextPass, UnservedInv, UnservedSoFar, Cleaned, UnmappedUses,
              NeedsSuggestedHeader, HasSuggestedHeader, Candidates
<1>4. CASE Return
  BY <1>4 DEF Return, UnservedSoFar, Cleaned
<1>5. CASE UNCHANGED vars
  BY <1>5 DEF vars, inputs, UnservedInv, UnservedSoFar, Cleaned, UnmappedUses,
              NeedsSuggestedHeader, HasSuggestedHeader, Candidates
<1> QED BY <1>2, <1>3, <1>4, <1>5, PassOverUnserved, GiveHeaderUnserved, CoverUnserved
        DEF Next

(* In the cover, only the uses that are left get a header. *)
LEMMA CoverServesUnmapped ==
  ASSUME TypeOK, [Next]_vars, pass = "cover", NEW i \in DOMAIN uses,
         uses'[i].suggested_header # uses[i].suggested_header
  PROVE  i \in UnmappedUses
<1>1. PICK header \in Headers : Cover(header)
  BY DEF Next, TakeSuggested, GiveHeader, PassOver, NextPass, Return, InPass, vars
<1> QED BY <1>1 DEF Cover

(* The cover gives no header to a use that a desired header would do for:  *)
(* nothing is added for it.                                                *)
THEOREM OnlyUnservedUsesAreCoveredAlways == Spec => OnlyUnservedUsesAreCovered
<1>1. UnservedInv /\ [Next]_vars =>
        [pass = "cover" =>
           \A i \in DOMAIN uses :
             uses'[i].suggested_header # uses[i].suggested_header
               => Candidates(uses[i]) \cap desired_headers = {}]_vars
  BY CoverServesUnmapped DEF UnservedInv, UnservedSoFar, Cleaned
<1> QED BY <1>1, InitUnservedInv, NextUnservedInv, PTL DEF Spec, OnlyUnservedUsesAreCovered

-----------------------------------------------------------------------------
(* A new header is the best of some use. *)
LEMMA NewHeaderStep ==
  ASSUME TypeOK, [Next]_vars, NEW header \in desired_headers',
         header \notin desired_headers \cup direct_includes \cup associated_desired_includes
  PROVE  \E i \in DOMAIN uses :
           \/ uses[i].suggested_header = header
           \/ uses[i].public_headers # <<>> /\ uses[i].public_headers[1] = header
<1>1. CASE TakeSuggested
  BY <1>1 DEF TakeSuggested, InPass, TypeOK
<1>2. CASE GiveHeader
  <2> DEFINE use == uses[next_use]
  <2>1. /\ next_use \in DOMAIN uses /\ use \in Use /\ NeedsSuggestedHeader(use)
        /\ pass \in {"easy", "present", "needed"} /\ Pick(use) # NoHeader
    BY <1>2, UseAt DEF GiveHeader, InPass, TypeOK
  <2>2. header = Pick(use) /\ BecomesDesired(use)
    BY <1>2 DEF GiveHeader
  <2>3. use.public_headers # <<>> /\ use.public_headers[1] = header
    BY <2>1, <2>2, PickProvides DEF BecomesDesired
  <2> QED BY <2>1, <2>3
<1>3. CASE \E h \in Headers : Cover(h)
  <2>1. PICK h \in Headers : Cover(h)
    BY <1>3
  <2>2. header = h
    BY <2>1 DEF Cover
  <2>3. PICK i \in UnmappedUses : /\ header \in Candidates(uses[i])
                                 /\ uses[i].public_headers[1] = header
    BY <2>1, <2>2, CoverGives
  <2>4. uses[i].public_headers # <<>>
    BY <2>3 DEF Candidates
  <2> QED BY <2>3, <2>4 DEF UnmappedUses
<1> QED BY <1>1, <1>2, <1>3 DEF Next, PassOver, NextPass, Return, vars

(* "IWYU should not suggest headers which aren't canonical for at least    *)
(* one symbol": no step adds a header that is nobody's best.               *)
THEOREM NewHeaderIsSomeonesBestAlways == Spec => NewHeaderIsSomeonesBest
<1>1. TypeOK /\ [Next]_vars =>
        [\A header \in desired_headers' :
           \/ header \in desired_headers \cup direct_includes \cup associated_desired_includes
           \/ \E i \in DOMAIN uses :
                 \/ uses[i].suggested_header = header
                 \/ uses[i].public_headers # <<>> /\ uses[i].public_headers[1] = header]_vars
  BY NewHeaderStep
<1> QED BY <1>1, InitTypeOK, NextTypeOK, PTL DEF Spec, NewHeaderIsSomeonesBest

-----------------------------------------------------------------------------
(* HeaderCover. *)
given == [i \in DOMAIN uses |-> uses[i].suggested_header]
provides == [i \in DOMAIN uses |-> Provided(uses[i])]

LEMMA InitRefines == ASSUME Init PROVE Promise!Init
<1>1. TypeOK
  BY InitTypeOK
<1>2. \A i \in DOMAIN uses : uses[i].suggested_header \in Headers \cup {NoHeader}
  BY <1>1, UseAt DEF Use
<1> QED BY <1>2 DEF Promise!Init

LEMMA GivesRefines ==
  ASSUME TypeOK, NEW header, NEW served, Gives(header, served),
         UNCHANGED inputs
  PROVE  Promise!Next
<1>1. /\ DOMAIN uses' = DOMAIN uses
      /\ \A i \in DOMAIN uses :
           uses'[i] = IF i \in served THEN [uses[i] EXCEPT !.suggested_header = header]
                      ELSE uses[i]
  BY GivesKeepsTypes
<1>2. served \subseteq DOMAIN uses /\ header \in Headers
  BY DEF Gives, UnmappedUses
<1>3. \A i \in served : given[i] = NoHeader /\ header \in provides[i]
  BY <1>2 DEF Gives, UnmappedUses, NeedsSuggestedHeader, HasSuggestedHeader, given, provides
<1>4. \A i \in DOMAIN uses :
        /\ uses'[i].suggested_header = IF i \in served THEN header ELSE uses[i].suggested_header
        /\ uses'[i].ignore_use = uses[i].ignore_use
        /\ uses'[i].public_headers = uses[i].public_headers
        /\ uses'[i].canonical_headers = uses[i].canonical_headers
        /\ uses'[i].decl_file = uses[i].decl_file
  BY <1>1, UseAt DEF Use
<1>5. given' = [i \in DOMAIN given |-> IF i \in served THEN header ELSE given[i]]
  BY <1>1, <1>4 DEF given
<1>6. \A i \in DOMAIN uses : Provided(uses[i])' = Provided(uses[i])
  <2> SUFFICES ASSUME NEW i \in DOMAIN uses
               PROVE  Provided(uses[i])' = Provided(uses[i])
    OBVIOUS
  <2>1. Candidates(uses'[i]) = Candidates(uses[i])
    BY <1>4 DEF Candidates
  <2>2. /\ use_quoted_include' = use_quoted_include
        /\ direct_includes' = direct_includes
    BY DEF inputs
  <2>3. Provided(uses[i])' =
          IF uses'[i].ignore_use THEN {}
          ELSE Candidates(uses'[i])
               \cup {uses'[i].canonical_headers[j] : j \in DOMAIN uses'[i].canonical_headers}
               \cup (IF use_quoted_include' \in Candidates(uses'[i])
                     THEN {uses'[i].decl_file} \cap direct_includes' ELSE {})
    BY DEF Provided
  <2> QED BY <1>4, <2>1, <2>2, <2>3 DEF Provided
<1>7. provides' = provides
  BY <1>1, <1>6 DEF provides
<1>8. served \in SUBSET Promise!Waiting
  BY <1>2, <1>3 DEF Promise!Waiting, given, provides
<1>9. Promise!Give(header, served)
  BY <1>3, <1>5, <1>7 DEF Promise!Give, given, provides
<1> QED BY <1>2, <1>8, <1>9 DEF Promise!Next

LEMMA UntouchedRefines ==
  ASSUME UNCHANGED <<uses, inputs>>
  PROVE  UNCHANGED Promise!vars
BY DEF Promise!vars, Provided, Candidates, inputs

LEMMA NextRefines ==
  ASSUME TypeOK, [Next]_vars
  PROVE  [Promise!Next]_Promise!vars
<1>1. CASE GiveHeader
  BY <1>1, GiveHeaderGives, GivesRefines DEF GiveHeader
<1>2. CASE \E h \in Headers : Cover(h)
  <2>1. PICK h \in Headers : Cover(h)
    BY <1>2
  <2>2. UNCHANGED inputs
    BY <2>1 DEF Cover
  <2> QED BY <2>1, <2>2, CoverGives, GivesRefines
<1>3. CASE UNCHANGED <<uses, inputs>>
  BY <1>3, UntouchedRefines
<1> QED BY <1>1, <1>2, <1>3 DEF Next, TakeSuggested, PassOver, NextPass, Return, vars

(* The passes implement the promise: a header is given once, to a use that *)
(* has none, and it provides the use's symbol.                             *)
THEOREM Refinement == Spec => ImplementsHeaderCover
BY InitRefines, NextRefines, InitTypeOK, NextTypeOK, PTL
   DEF Spec, ImplementsHeaderCover, Promise!Spec
=============================================================================
