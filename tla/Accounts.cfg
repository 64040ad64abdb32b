SPECIFICATION Spec
CONSTANTS
  None = None
  Callers = {c1, c2, c3}
  Emails = {alice}
  Tokens = {t1, t2}
  Sessions = {s1}
  MaxTime = 4
  Cooldown = 1
  TokenTtl = 2
  AbsoluteTtl = 3
  IdleTtl = 2
  WriteInterval = 1
SYMMETRY Symmetry
INVARIANTS
  RegistrationsAreSerialised
  SessionsAreControlled
PROPERTIES
  NewestTokenConfirms
