SPECIFICATION Spec
CONSTANTS
  Node <- MCNode
  Classes = 2
  Configs <- MCConfigs
  Delays = {0, 1}
INVARIANTS ParsedAsMeant EventsOnTime  OracleAccounts NoFalseAlarm
CHECK_DEADLOCK FALSE
