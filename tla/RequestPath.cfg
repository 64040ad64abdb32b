SPECIFICATION MCSpec
CONSTANTS
  None = None
  Malformed = Malformed
  MaxRequests = 2
  MaxRoots = 2
  Attempts = 2
INVARIANTS
  VerdictsAreSound
  PolicyIsKept
  InputIsRead
PROPERTIES
  CookieIsKept
  RequestsEnd
CHECK_DEADLOCK FALSE
