SPECIFICATION FairSpec
CONSTANTS
  NoAction = NoAction
  NoMarker = NoMarker
  NoSession = NoSession
  Tabs = {t1, t2}
  FaultyTabs = {t1}
  MaxCalls = 2
INVARIANTS
  MarkerIsSound
PROPERTIES
  ResetIsAbsorbing
  PendingIsSettled
