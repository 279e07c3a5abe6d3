SPECIFICATION Spec
CONSTANTS
  Users = {admin, umlaut}
  ValidNames = {admin}
  EnvAdmin = admin
  Logins = {l1}
  Requests = {q1}
  MaxRestarts = 0
  None = None
INVARIANTS LdapSessionWorks
