SPECIFICATION Spec
CONSTANTS
  Args <- AllArgs
  Parts <- AllParts
  MaxArgs = 4
INVARIANTS
  TypeOK
  SettingsFollowTheLine
  AcceptedLines
  ExitStatusIsHonest
  FailuresLeaveNoOutput
  RulesNameTheOutput
