SPECIFICATION Spec
CONSTANTS
  Logins = {l1, l2}
  Users = {u1, u2}
  Sessions = {s1, s2}
  Procs = {p1, p2}
  Faults = {"db", "redis", "crash"}
  NoLogin = NoLogin
  NoUser = NoUser
  NoSession = NoSession
SYMMETRY Symmetry
INVARIANTS
  TypeOK
  OneAccountPerLogin
  SessionsAreListed
  AllowedIsOwner
PROPERTY
  ImplementsAuthority
