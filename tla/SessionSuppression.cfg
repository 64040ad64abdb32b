SPECIFICATION Spec
CONSTANTS
  NoAction = NoAction
  NoMarker = NoMarker
  NoSession = NoSession
  Tabs = {t1, t2}
  FaultyTabs = {t1, t2}
  MaxCalls = 2
SYMMETRY TabSymmetry
PROPERTY LocalSuppressionIsKept
