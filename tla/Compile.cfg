\* Two stages, at most one error and one warning line per pass, a build that
\* catches exceptions.
SPECIFICATION Spec
CONSTANTS
  Stages = {"vertex", "fragment"}
  NoStage = NoStage
  MaxMessages = 1
  Exceptions = TRUE
INVARIANTS
  TypeOK
  SuccessIsEarned
  LengthDescribesOutput
  WarningPolicy
  StageIsDecided
  FailureIsExplained
