SPECIFICATION FairSpec
CONSTANTS
  None = None
  MaxLinks = 2
  MaxEvents = 3
INVARIANTS
  PageIsTruthful
PROPERTIES
  GenerationsAreKept
  OutcomesAreFinal
  BusyIsSettled
CHECK_DEADLOCK FALSE
