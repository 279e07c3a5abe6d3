SPECIFICATION Spec
CONSTANTS
  Callers = {c1, c2}
  Admins = {a1}
  TTL = 1
  MaxVersion = 1
PROPERTIES ReadYourWrites
