SPECIFICATION FairSpec
CONSTANTS
  d1 = d1
  d2 = d2
  o1 = o1
  sha1 = sha1
  sha2 = sha2
  platformSource = platformSource
  otherBucket = otherBucket
  alice = alice
  bob = bob
  NoRow = NoRow
  NoBytes = NoBytes
  Callers = {c1, c2}
  Documents = {d1, d2}
  ObjectIds = {o1}
  Digests = {sha1}
  Buckets = {platformSource, otherBucket}
  Owners = {alice}
  ConfiguredBucket = platformSource
  DocumentOwner <- AliceOwnsAll
  Requests <- TwoDocumentRequests
  LegacyObjects <- LegacySource
  StrayDigests = {}
  LeaseTicks = 1
  MaxAttempts = 2
INVARIANTS
  IdentitiesAreUnique
PROPERTIES
  WriteOncePromise
  RetriesSettle
