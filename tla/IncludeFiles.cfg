\* Two inputs each, and one change of the directories at any point.
SPECIFICATION Spec
CONSTANTS
  Parts <- MCParts
  Empty = Empty
  Files <- MCFiles
  Contents <- MCContents
  InputLists <- MCInputLists
  SearchPaths <- MCSearchPaths
  MaxChanges = 1
  NotFound = NotFound
INVARIANTS
  TypeOK
  RuleIsComplete
  RuleCoversTexts
