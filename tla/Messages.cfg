\* All single lines of up to MaxLength characters, and two lines of all kinds.
SPECIFICATION Spec
CONSTANTS
  Logs <- MCLogs
  MaxLength = 7
INVARIANTS
  TypeOK
  LocationIsFirst
  CountsFollowPolicy
