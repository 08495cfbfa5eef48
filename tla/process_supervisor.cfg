\* Every program whose silent descendants heed SIGTERM.
SPECIFICATION FairSpec
CONSTANTS
  Timeout = 2
  CoreGrace = 4
  Horizon = 7
  Programs <- TamePrograms
INVARIANTS
  TypeOK
  AnswerMatchesSignals
  TerminatedOncePerReason
  DeadlineIsLast
PROPERTIES
  Answered
  GroupDies
CHECK_DEADLOCK FALSE
