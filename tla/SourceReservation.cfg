SPECIFICATION MCSpec
CONSTANTS
  d1 = d1
  d2 = d2
  o1 = o1
  sha1 = sha1
  sha2 = sha2
  platformSource = platformSource
  otherBucket = otherBucket
  alice = alice
  bob = bob
  NoRow = NoRow
  NoBytes = NoBytes
  Callers = {c1, c2}
  Documents = {d1}
  ObjectIds = {o1}
  Digests = {sha1, sha2}
  Buckets = {platformSource}
  Owners = {alice, bob}
  ConfiguredBucket = platformSource
  DocumentOwner <- AliceOwnsAll
  Requests <- OneDocumentRequests
  LegacyObjects <- LegacySource
  StrayDigests = {sha1, sha2}
  LeaseTicks = 1
  MaxAttempts = 3
  None = None
  Emails = {e1, e2}
  Checks <- FourChecks
  MaxKeys = 1
  SignInAttempts = 2
  SignInWindow = 1
  RegistrationAttempts = 2
  RegistrationWindow = 1
  MaxTime = 2
  Clients = {c1, c2}
  Bodies = {x, y}
  Cut = cut
  MaxPuts = 2
  Nothing = NoRow
  expectedParents <- ReviewedChain
  MaxEdits = 2
SYMMETRY CallerSymmetry
INVARIANTS
  IInv
  SuccessVouches
  LimitsHold
  GateIsNarrow
PROPERTIES
  PromisesAreKept
  BytesAreWrittenOnce
  BudgetsAreKept
CHECK_DEADLOCK FALSE
