\* The two tessellation stages, which the two enumerations swap.
SPECIFICATION OptionsSpec
CONSTANTS
  TargetVersions = {"0"}
  SpirvVersions = {"1.0"}
  Kinds = {"vertex", "tess_control", "tess_eval"}
  Uniforms = {"sampler"}
  Bases = {7}
  Registers = {"r1"}
  MaxRegisters = 1
PROPERTIES
  SettingsReachTheirStages
