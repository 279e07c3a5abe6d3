SPECIFICATION Spec
CONSTANTS
  Users = {admin, user, umlaut}
  ValidNames = {admin, user}
  EnvAdmin = admin
  Logins = {l1, l2, l3}
  Requests = {q1, q2}
  MaxRestarts = 1
  None = None
SYMMETRY Symmetry
INVARIANTS RoleBacked DisabledTokensAreLate
PROPERTIES RevokedCannotWrite LastAdminOnlyByStaleRequest
