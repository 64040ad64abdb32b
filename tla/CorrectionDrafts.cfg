SPECIFICATION Spec
CONSTANTS
  None = None
  Callers = {c1, c2}
  Users = {u1}
  Edits = {e1}
  MaxCommands = 2
INVARIANT EachVersionIsAcceptedOnce
