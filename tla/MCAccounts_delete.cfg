SPECIFICATION Spec
CONSTANTS
  Users = {u1, u2}
  Handlers = {h1}
  MaxPasswords = 1
  MaxSessions = 1
  MaxKeys = 0
  MaxOwners = 1
  NoUser = NoUser
CHECK_DEADLOCK FALSE
PROPERTY BotlessUserIsDeleted
