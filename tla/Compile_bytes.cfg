SPECIFICATION Spec
CONSTANTS
  Stages = {"vertex"}
  NoStage = NoStage
  MaxMessages = 1
  Exceptions = FALSE
INVARIANTS
  BytesAreReadable
