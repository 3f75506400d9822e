\* Four files without -j and with -j 2, -l 2, loads of 0, 1.5 and 2.5, and
\* exceptions.
SPECIFICATION FairSpec
CONSTANTS
  NumInvocations = 4
  Jobs = {1, 2}
  MaxLoad = 4
  LoadUnit = 2
  Loads = {0, 3, 5}
  ExitCodes <- MCExitCodes
  NotExited = NotExited
  MayRaise = TRUE
INVARIANTS JobsBound NothingLost ResultIsWorst NeverIdle
PROPERTY Terminates
\* execute() returns, or an exception ends it.
CHECK_DEADLOCK FALSE
