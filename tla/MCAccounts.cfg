SPECIFICATION Spec
CONSTANTS
  Users = {u1, u2}
  Handlers = {h1, h2}
  MaxPasswords = 2
  MaxSessions = 2
  MaxKeys = 1
  MaxOwners = 1
  NoUser = NoUser
SYMMETRY Symmetry
CHECK_DEADLOCK FALSE
INVARIANTS
  SignedOutStaysOut
PROPERTIES
  LastAdminStays
  SessionsDoNotReturn
