\* Stages that Compiler::Stage and EShLanguage number alike.
SPECIFICATION OptionsSpec
CONSTANTS
  TargetVersions <- MCTargetVersions
  SpirvVersions <- MCSpirvVersions
  Kinds = {"geometry", "compute"}
  Uniforms = {"sampler"}
  Bases = {7}
  Registers = {"r1"}
  MaxRegisters = 1
INVARIANTS
  DebugInfoSurvives
  ToolsTargetIsClient
PROPERTIES
  ImplementsRequest
  SettingsReachTheirStages
