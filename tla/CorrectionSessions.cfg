SPECIFICATION MCSpec
CONSTANTS
  None = None
  Absent = Absent
  Junk = Junk
  Callers = {c1, c2}
  Users = {u1, u2}
  Edits = {e1}
  MaxCommands = 4
SYMMETRY Symmetry
INVARIANTS
  TypeOK
  SubmissionsAreSerialised
  DraftHasBeenStored
  EditsAreAudited
  TypesAreUsable
CHECK_DEADLOCK FALSE
