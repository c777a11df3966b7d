SPECIFICATION Spec
CONSTANTS
  None = None
  NoName = NoName
  Hostname <- MCHostname
  Configs <- MCConfigs
  Mails <- MCMails
  Accounts <- MCAccounts
  Private <- MCPrivate
  Confs <- MCConfs
  CmdLen = 2
  MaxEdits = 1
CHECK_DEADLOCK FALSE
INVARIANTS
  TypeOK
  AnswerIsWhole
  
PROPERTIES
  FilteringEnds
