CONSTANTS
  Workers = {w1, w2}
  Passwords = {p1, p2}
  Keys = {k1, k2, k3}
  None = None
  Remotes = {a1}
  Limit = 2
  Window = 2
  Logins = 4
  Others = 3
  Ticks = 3
SPECIFICATION Spec
SYMMETRY Alike
INVARIANTS
  AccessInv
PROPERTIES
  SecretSettles
  PasswordSettles
CHECK_DEADLOCK FALSE
