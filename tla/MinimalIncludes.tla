--------------------------- MODULE MinimalIncludes ---------------------------
(* CalculateMinimalIncludes of iwyu_output.cc: which header each use of a  *)
(* file is to get its symbol from.  The passes over the uses are separate  *)
(* because each looks at the headers that the passes before it made        *)
(* desired; within a pass the uses are taken in their order.               *)
EXTENDS Naturals, Sequences, FiniteSets
CONSTANTS
  Headers,    \* quoted includes: "a.h", <vector>
  NoHeader,   \* the empty suggested_header_
  Uses,       \* the uses a file may have
  MaxUses,    \* how many of them it has at most
  Situations  \* the files: what they include, what their headers desire

Use == [ignore_use : BOOLEAN, full : BOOLEAN, decl_file : Headers,
        suggested_header : Headers \cup {NoHeader},
        public_headers : Seq(Headers), canonical_headers : Seq(Headers)]

Situation == [use_quoted_include : Headers, direct_includes : SUBSET Headers,
              associated_desired_includes : SUBSET Headers]

ASSUME HeadersAssumption == NoHeader \notin Headers
ASSUME UsesAssumption == Uses \subseteq Use /\ MaxUses \in Nat
ASSUME SituationsAssumption == Situations \subseteq Situation

VARIABLES
  use_quoted_include,           \* the file, as others include it
  direct_includes,              \* what it includes now
  associated_desired_includes,  \* what its associated headers will include
  uses,                         \* its uses, in the order they were reported
  desired_headers,              \* the result
  pass,                         \* "easy", "present", "needed", "cover", "done"
  next_use                      \* the use the pass looks at next

inputs == <<use_quoted_include, direct_includes, associated_desired_includes>>
vars == <<inputs, uses, desired_headers, pass, next_use>>

Candidates(use) == {use.public_headers[i] : i \in DOMAIN use.public_headers}

HasSuggestedHeader(use) == use.suggested_header # NoHeader

NeedsSuggestedHeader(use) ==
  /\ ~use.ignore_use
  /\ ~HasSuggestedHeader(use)
  /\ use.full \/ use.public_headers # <<>>

(* The first of the choices that is in the set. *)
FirstIn(choices, set) ==
  LET hits == {i \in DOMAIN choices : choices[i] \in set}
  IN  IF hits = {} THEN NoHeader
      ELSE choices[CHOOSE i \in hits : \A j \in hits : i <= j]

FirstPick(picks) ==
  LET hits == {i \in DOMAIN picks : picks[i] # NoHeader}
  IN  IF hits = {} THEN NoHeader
      ELSE picks[CHOOSE i \in hits : \A j \in hits : i <= j]

-----------------------------------------------------------------------------
(* Step (1): the file re-exports the symbol's private header, which it     *)
(* includes; or there is only one candidate.                               *)
EasyPickUnasked(use) ==
  IF use_quoted_include \in Candidates(use)
  THEN use.decl_file
  ELSE IF Len(use.public_headers) = 1 THEN use.public_headers[1] ELSE NoHeader

EasyPick(use) ==
  IF /\ use_quoted_include \in Candidates(use)
     /\ use.decl_file \in direct_includes
  THEN use.decl_file
  ELSE IF Len(use.public_headers) = 1 THEN use.public_headers[1] ELSE NoHeader

(* Step (2): the file itself, then what associated headers keep, then what *)
(* is included and desired, then canonical headers that are included.      *)
PresentPick(use) ==
  FirstPick(<<FirstIn(use.public_headers, {use_quoted_include}),
              FirstIn(use.public_headers, associated_desired_includes),
              FirstIn(use.public_headers, direct_includes \cap desired_headers),
              FirstIn(use.canonical_headers, direct_includes)>>)

(* Uses that the desired headers happen to satisfy. *)
NeededPick(use) == FirstIn(use.public_headers, desired_headers)

Pick(use) ==
  CASE pass = "easy" -> EasyPick(use)
    [] pass = "present" -> PresentPick(use)
    [] pass = "needed" -> NeededPick(use)

(* In step (2) the file itself is suggested without becoming desired. *)
BecomesDesiredUnlessFound(use) == pass # "present"

BecomesDesired(use) ==
  ~(pass = "present" /\ use_quoted_include \in Candidates(use))

-----------------------------------------------------------------------------
InPass == pass \in {"easy", "present", "needed"} /\ next_use <= Len(uses)

(* Special case #1: the use came with its header. *)
ComesWithHeaderEvenIgnored(use) == HasSuggestedHeader(use)

ComesWithHeader(use) == ~use.ignore_use /\ HasSuggestedHeader(use)

TakeSuggested ==
  /\ pass = "easy" /\ InPass
  /\ ComesWithHeader(uses[next_use])
  /\ desired_headers' = desired_headers \cup {uses[next_use].suggested_header}
  /\ next_use' = next_use + 1
  /\ UNCHANGED <<uses, pass, inputs>>

GiveHeader ==
  /\ InPass
  /\ LET use == uses[next_use]
         header == Pick(use)
     IN  /\ NeedsSuggestedHeader(use)
         /\ header # NoHeader
         /\ uses' = [uses EXCEPT ![next_use].suggested_header = header]
         /\ desired_headers' = IF BecomesDesired(use)
                               THEN desired_headers \cup {header}
                               ELSE desired_headers
  /\ next_use' = next_use + 1
  /\ UNCHANGED <<pass, inputs>>

PassOver ==
  /\ InPass
  /\ LET use == uses[next_use]
     IN  /\ NeedsSuggestedHeader(use) => Pick(use) = NoHeader
         /\ ~(pass = "easy" /\ ComesWithHeader(use))
  /\ next_use' = next_use + 1
  /\ UNCHANGED <<uses, desired_headers, pass, inputs>>

NextPassUncleaned ==
  /\ pass \in {"easy", "present"} /\ next_use > Len(uses)
  /\ pass' = IF pass = "easy" THEN "present" ELSE "cover"
  /\ next_use' = 1
  /\ UNCHANGED <<uses, desired_headers, inputs>>

NextPass ==
  /\ pass \in {"easy", "present", "needed"} /\ next_use > Len(uses)
  /\ pass' = CASE pass = "easy" -> "present"
               [] pass = "present" -> "needed"
               [] pass = "needed" -> "cover"
  /\ next_use' = 1
  /\ UNCHANGED <<uses, desired_headers, inputs>>

-----------------------------------------------------------------------------
(* Step (3): a greedy set cover of the uses that are left.                 *)
UnmappedUses == {i \in DOMAIN uses : NeedsSuggestedHeader(uses[i])}

Listed(header, use) == {i \in DOMAIN use.public_headers : use.public_headers[i] = header}

(* Where a header is listed, and where in a list that begins with it. *)
Appearances(header) ==
  UNION {{i} \X Listed(header, uses[i]) : i \in UnmappedUses}

FirstAppearances(header) ==
  {a \in Appearances(header) : uses[a[1]].public_headers[1] = header}

(* A header that comes first for no use is not considered. *)
HeaderCountsWithSeconds ==
  {h \in Headers : Appearances(h) # {}}

HeaderCounts ==
  {h \in Headers : FirstAppearances(h) # {}}

Outdoes(h, g) ==
  LET total(x) == Cardinality(Appearances(x))
      firsts(x) == Cardinality(FirstAppearances(x))
  IN  \/ total(h) > total(g)
      \/ total(h) = total(g) /\ firsts(h) > firsts(g)

(* The alphabet decides among equals; here any of them may win. *)
BestHeadersInBothOrders ==
  {h \in HeaderCounts : \A g \in HeaderCounts \ {h} : Outdoes(h, g)}

BestHeaders ==
  {h \in HeaderCounts : \A g \in HeaderCounts : ~Outdoes(g, h)}

Cover(header) ==
  /\ pass = "cover" /\ header \in BestHeaders
  /\ uses' = [i \in DOMAIN uses |->
                IF i \in UnmappedUses /\ header \in Candidates(uses[i])
                THEN [uses[i] EXCEPT !.suggested_header = header]
                ELSE uses[i]]
  /\ desired_headers' = desired_headers \cup {header}
  /\ UNCHANGED <<pass, next_use, inputs>>

Return ==
  /\ pass = "cover" /\ UnmappedUses = {}
  /\ pass' = "done"
  /\ UNCHANGED <<uses, desired_headers, next_use, inputs>>

Init ==
  /\ \E s \in Situations :
        /\ use_quoted_include = s.use_quoted_include
        /\ direct_includes = s.direct_includes
        /\ associated_desired_includes = s.associated_desired_includes
  /\ \E n \in 0..MaxUses : uses \in [1..n -> Uses]
  /\ desired_headers = {}
  /\ pass = "easy" /\ next_use = 1

Next ==
  \/ TakeSuggested
  \/ GiveHeader
  \/ PassOver
  \/ NextPass
  \/ \E header \in Headers : Cover(header)
  \/ Return

Spec == Init /\ [][Next]_vars

FairSpec == Spec /\ WF_vars(Next)

-----------------------------------------------------------------------------
TypeOK ==
  /\ use_quoted_include \in Headers
  /\ direct_includes \in SUBSET Headers
  /\ associated_desired_includes \in SUBSET Headers
  /\ uses \in Seq(Use)
  /\ desired_headers \in SUBSET Headers
  /\ pass \in {"easy", "present", "needed", "cover", "done"}
  /\ next_use \in 1..Len(uses) + 1

(* A suggested header will be included: it is among the result, or it is   *)
(* the file itself ("in self").                                            *)
SuggestedIsDesired ==
  \A i \in DOMAIN uses :
    /\ ~uses[i].ignore_use /\ HasSuggestedHeader(uses[i])
    /\ pass # "easy"
    => uses[i].suggested_header \in desired_headers \cup {use_quoted_include}

(* Nothing is desired for nothing: each header in the result is the one    *)
(* some use was given.                                                     *)
DesiredHasUse ==
  \A header \in desired_headers :
    \E i \in DOMAIN uses :
      ~uses[i].ignore_use /\ uses[i].suggested_header = header

(* "IWYU should not suggest headers which aren't canonical for at least    *)
(* one symbol used in a file": a header that neither the file nor its      *)
(* associated headers include becomes desired as the best header of some   *)
(* use, or because a use came with it from outside the mappings.           *)
NewHeaderIsSomeonesBest ==
  [][\A header \in desired_headers' :
       \/ header \in desired_headers \cup direct_includes \cup associated_desired_includes
       \/ \E i \in DOMAIN uses :
             \/ uses[i].suggested_header = header
             \/ uses[i].public_headers # <<>> /\ uses[i].public_headers[1] = header]_vars

(* "Clean out unmapped uses that are satisfied by desired_headers": the    *)
(* greedy cover is for the others.  At each of its steps, whatever header  *)
(* the passes or the cover itself desired last, and for whichever use, no  *)
(* header is given to a use to which one of the desired ones would do.     *)
OnlyUnservedUsesAreCovered ==
  [][pass = "cover" =>
       \A i \in DOMAIN uses :
         uses'[i].suggested_header # uses[i].suggested_header
           => Candidates(uses[i]) \cap desired_headers = {}]_vars

Provided(use) ==
  IF use.ignore_use THEN {}
  ELSE Candidates(use)
       \cup {use.canonical_headers[i] : i \in DOMAIN use.canonical_headers}
       \cup (IF use_quoted_include \in Candidates(use)
             THEN {use.decl_file} \cap direct_includes ELSE {})

Promise == INSTANCE HeaderCover WITH
  provides <- [i \in DOMAIN uses |-> Provided(uses[i])],
  given <- [i \in DOMAIN uses |-> uses[i].suggested_header]

(* The passes implement HeaderCover: headers are only ever given to uses   *)
(* that have none, and only among those that provide the symbol.           *)
ImplementsHeaderCover == Promise!Spec

(* The greedy cover always finds a header for some use that is left.       *)
Terminates == <>(pass = "done")
=============================================================================
