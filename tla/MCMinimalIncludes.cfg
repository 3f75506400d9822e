\* Up to three uses of one file.
SPECIFICATION FairSpec
CONSTANTS
  Headers <- MCHeaders
  NoHeader = ""
  Uses <- MCUses
  MaxUses = 3
  Situations <- MCSituations
INVARIANTS SuggestedIsDesired DesiredHasUse
PROPERTIES OnlyUnservedUsesAreCovered NewHeaderIsSomeonesBest ImplementsHeaderCover Terminates
\* CalculateMinimalIncludes returns.
CHECK_DEADLOCK FALSE
