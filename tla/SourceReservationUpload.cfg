SPECIFICATION Spec
CONSTANTS
  d1 = d1
  d2 = d2
  o1 = o1
  sha1 = sha1
  sha2 = sha2
  platformSource = platformSource
  otherBucket = otherBucket
  alice = alice
  bob = bob
  NoRow = NoRow
  NoBytes = NoBytes
  Callers = {c1, c2}
  Documents = {d1}
  ObjectIds = {o1}
  Digests = {sha1, sha2}
  Buckets = {platformSource}
  Owners = {alice}
  ConfiguredBucket = platformSource
  DocumentOwner <- AliceOwnsAll
  Requests <- SameRequests
  LegacyObjects <- LegacySource
  StrayDigests = {sha1, sha2}
  LeaseTicks = 1
  MaxAttempts = 3
PROPERTIES
  OnlyLeaseHolderUploads
