SPECIFICATION PragmaSpec
CONSTANTS
  Lines <- SourceLines
  MaxLines = 4
  Forced <- ForcedVersions
  MaxMacros = 1
INVARIANTS
  PragmaTypeOK
  PragmasKeepTheirPlace
  StageIsUnanimous
