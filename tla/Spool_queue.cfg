SPECIFICATION Spec
CONSTANTS
  None = None
  AuthUsers = {"u", "v"}
  Messages = {1, 2, 3}
  Dir <- MCDir
  Criteria <- MCCriteria
  Orders <- MCOrders
  Mails <- MCMails
  Signed <- MCSigned
  MaxFaults = 1
CHECK_DEADLOCK FALSE
INVARIANTS
  TypeOK
  AuthTrusted
  BodyIsRight
  WalkComplete
