SPECIFICATION MCSpec
CONSTANTS
  Callers = {c1, c2}
  Timer = Timer
  BatchSize = 1
  MaxEvents = 2
  MaxFaults = 2
  Mails = {m1, m2, m3, m4}
  ActiveLimit = 2
  WaitingLimit = 1
  Unset = Unset
  Junk = Junk
  GARAGE_OWNERS <- TwoServices
  READINESS_ATTEMPTS = 2
  MaxRuns = 3
  MaxChanges = 1
  Ids = {"first", "second"}
  MaxMails = 2
INVARIANTS
  MailIsBounded
  OutboxIsSound
  ReadyMeansIsolated
  RefusalsHaveACause
  NothingIsForgotten
PROPERTIES
  SettledOnce
  EverythingSettles
CHECK_DEADLOCK FALSE
