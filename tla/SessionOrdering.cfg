SPECIFICATION Spec
CONSTANTS
  NoAction = NoAction
  NoMarker = NoMarker
  NoSession = NoSession
  Tabs = {t1, t2}
  FaultyTabs = {}
  MaxCalls = 3
SYMMETRY TabSymmetry

  
PROPERTIES
  ShownIsCurrent
  
