SPECIFICATION Spec
CONSTANTS
  a = a  b = b  c = c
  Users = {a, b}
  Kept = 1
  Limits = {1, 2}
  MaxAttempts = 3
  MaxLogins = 3
  MaxPasswords = 2
SYMMETRY Symmetry
INVARIANTS AdministratorRemains OldPasswordIsOut LockoutBounds
CHECK_DEADLOCK FALSE
