--------------------------- MODULE CodegenOptions ---------------------------
(***************************************************************************)
(* The part of a shaderc_compile_options object that decides what code is  *)
(* generated: source language, target environment, SPIR-V version, debug   *)
(* information and optimisation level.  The setters may be called in any   *)
(* order and any number of times; a compilation or an assembly then reads  *)
(* the object.  No other option reads or writes these fields.              *)
(***************************************************************************)
EXTENDS Naturals, Sequences

CONSTANTS TargetVersions,  \* the version numbers a client passes
          SpirvVersions    \* the SPIR-V versions a client forces

\* Version numbers are named after the enumerators of shaderc_env_version;
\* "0" is the number that means the default, "unknown" one that is none of
\* them.
VulkanVersions ==
  {"vulkan_1_0", "vulkan_1_1", "vulkan_1_2", "vulkan_1_3", "vulkan_1_4"}
KnownVersions == VulkanVersions \cup {"opengl_4_5"}
KnownSpirv == {"1.0", "1.1", "1.2", "1.3", "1.4", "1.5", "1.6"}

ASSUME VersionsAssumption ==
  /\ TargetVersions \subseteq KnownVersions \cup {"0", "unknown"}
  /\ SpirvVersions \subseteq KnownSpirv \cup {"unknown"}

VARIABLES
  target_env,              \* of the C options object: read by the assembler
  target_env_version,
  target_env_,             \* of its Compiler: read by a compilation
  target_env_version_,
  target_spirv_version_,   \* the forced SPIR-V version, or "default"
  source_language_,
  generate_debug_info_,
  enabled_opt_passes_      \* a sequence of PassId

vars == <<target_env, target_env_version, target_env_, target_env_version_,
          target_spirv_version_, source_language_, generate_debug_info_,
          enabled_opt_passes_>>

targetVars == <<target_env, target_env_version, target_env_,
                target_env_version_, target_spirv_version_>>

TargetEnvs == {"vulkan", "opengl", "opengl_compat", "webgpu"}
Languages == {"glsl", "hlsl"}
PassIds == {"StripDebugInfo", "NullPass", "SizePasses", "PerformancePasses"}

TypeOK ==
  /\ target_env \in TargetEnvs
  /\ target_env_version \in {"0"} \cup KnownVersions
  /\ target_env_ \in {"Vulkan", "OpenGL", "OpenGLCompat"}
  /\ target_env_version_ \in {"Default"} \cup KnownVersions
  /\ target_spirv_version_ \in {"default"} \cup SpirvVersions
  /\ source_language_ \in Languages
  /\ generate_debug_info_ \in BOOLEAN
  /\ enabled_opt_passes_ \in Seq(PassIds)

-----------------------------------------------------------------------------
(* Conversions between the C enumerators and the Compiler's.               *)

\* webgpu asserts; a build without assertions continues with Vulkan.
GetCompilerTargetEnv(env) ==
  CASE env = "opengl" -> "OpenGL"
    [] env = "opengl_compat" -> "OpenGLCompat"
    [] OTHER -> "Vulkan"

\* A number that is no known version silently means the default.
GetCompilerTargetEnvVersion(version) ==
  IF version \in KnownVersions THEN version ELSE "Default"

-----------------------------------------------------------------------------

Init ==
  /\ target_env = "vulkan"
  /\ target_env_version = "0"
  /\ target_env_ = "Vulkan"
  /\ target_env_version_ = "Default"
  /\ target_spirv_version_ = "default"
  /\ source_language_ = "glsl"
  /\ generate_debug_info_ = FALSE
  /\ enabled_opt_passes_ = <<>>

\* shaderc_compile_options_set_target_env: the Compiler gets environment and
\* version, the object itself only the environment.
SetTargetEnv(env, version) ==
  /\ target_env' = env
  /\ target_env_' = GetCompilerTargetEnv(env)
  /\ target_env_version_' = GetCompilerTargetEnvVersion(version)
  /\ UNCHANGED <<target_env_version, target_spirv_version_, source_language_,
                 generate_debug_info_, enabled_opt_passes_>>

SetTargetSpirv(version) ==
  /\ target_spirv_version_' = version
  /\ UNCHANGED <<target_env, target_env_version, target_env_,
                 target_env_version_, source_language_, generate_debug_info_,
                 enabled_opt_passes_>>

SetSourceLanguage(lang) ==
  /\ source_language_' = lang
  /\ UNCHANGED targetVars
  /\ UNCHANGED <<generate_debug_info_, enabled_opt_passes_>>

\* Mutated: forgets the passes that are already enabled.
SetGenerateDebugInfoFlagOnly ==
  /\ generate_debug_info_' = TRUE
  /\ UNCHANGED targetVars
  /\ UNCHANGED <<source_language_, enabled_opt_passes_>>

\* Passes already enabled that would strip the information are neutralised.
SetGenerateDebugInfo ==
  /\ generate_debug_info_' = TRUE
  /\ enabled_opt_passes_' =
       [i \in DOMAIN enabled_opt_passes_ |->
          IF enabled_opt_passes_[i] = "StripDebugInfo"
          THEN "NullPass" ELSE enabled_opt_passes_[i]]
  /\ UNCHANGED targetVars
  /\ UNCHANGED source_language_

\* The passes of a level; a level that is not one of the two enables none.
LevelPasses(level) ==
  CASE level = "size" -> <<"SizePasses">>
    [] level = "performance" -> <<"PerformancePasses">>
    [] OTHER -> <<>>

\* Mutated: does not clear the passes of an earlier level.
SetOptimizationLevelAppends(level) ==
  /\ Len(enabled_opt_passes_) < 4
  /\ enabled_opt_passes_' =
       enabled_opt_passes_ \o
       (IF generate_debug_info_ \/ LevelPasses(level) = <<>> THEN <<>>
        ELSE <<"StripDebugInfo">>) \o LevelPasses(level)
  /\ UNCHANGED targetVars
  /\ UNCHANGED <<source_language_, generate_debug_info_>>

SetOptimizationLevel(level) ==
  /\ enabled_opt_passes_' =
       (IF generate_debug_info_ \/ LevelPasses(level) = <<>> THEN <<>>
        ELSE <<"StripDebugInfo">>) \o LevelPasses(level)
  /\ UNCHANGED targetVars
  /\ UNCHANGED <<source_language_, generate_debug_info_>>

Levels == {"zero", "size", "performance"}

Next ==
  \/ \E env \in TargetEnvs, version \in TargetVersions :
       SetTargetEnv(env, version)
  \/ \E version \in SpirvVersions : SetTargetSpirv(version)
  \/ \E lang \in Languages : SetSourceLanguage(lang)
  \/ SetGenerateDebugInfo
  \/ \E level \in Levels : SetOptimizationLevel(level)

Spec == Init /\ [][Next]_vars

-----------------------------------------------------------------------------
(* What a compilation and an assembly make of the object.                  *)

\* The passes that Compile hands to the optimiser.
OptPasses ==
  (IF source_language_ = "hlsl" THEN <<"LegalizationPasses">> ELSE <<>>)
    \o enabled_opt_passes_

PassesIn(s) == {s[i] : i \in DOMAIN s}

\* The optimiser, and with it the SPIR-V validator, runs unless there is no
\* pass but null passes.
OptimizerRuns == PassesIn(OptPasses) \ {"NullPass"} # {}

\* GetGlslangClientInfo: the client and the SPIR-V version that glslang is
\* given, or an error.
TargetError == [error |-> TRUE, client |-> "none", spirv |-> "none"]

DefaultSpirv(version) ==
  CASE version = "vulkan_1_1" -> "1.3"
    [] version = "vulkan_1_2" -> "1.5"
    [] version \in {"vulkan_1_3", "vulkan_1_4"} -> "1.6"
    [] OTHER -> "1.0"

GlslangClient(env, version) ==
  CASE env = "Vulkan" /\ version = "Default" -> "vulkan_1_0"
    [] env = "Vulkan" /\ version \in VulkanVersions -> version
    [] env = "OpenGL" /\ version \in {"Default", "opengl_4_5"} -> "opengl_4_5"
    [] OTHER -> "none"

GetGlslangClientInfo(env, version, spirv) ==
  LET client == GlslangClient(env, version)
  IN  IF client = "none" \/ spirv = "unknown" THEN TargetError
      ELSE [error |-> FALSE, client |-> client,
            spirv |-> IF spirv = "default" THEN DefaultSpirv(version)
                      ELSE spirv]

ClientInfo == GetGlslangClientInfo(target_env_, target_env_version_,
                                   target_spirv_version_)

\* Mutated: a table that has not been extended by the latest version.
GetSpirvToolsTargetEnvOld(env, version) ==
  CASE env = "Vulkan" /\ version \in {"Default", "vulkan_1_0"} -> "vulkan_1_0"
    [] env = "Vulkan" /\ version \in VulkanVersions \ {"vulkan_1_4"} -> version
    [] env \in {"OpenGL", "OpenGLCompat"} -> "opengl_4_5"
    [] OTHER -> "assert"

\* The environment SPIRV-Tools is created with for optimising, disassembling
\* and assembling; "assert" is the assertion that there is none.
GetSpirvToolsTargetEnv(env, version) ==
  CASE env = "Vulkan" /\ version = "Default" -> "vulkan_1_0"
    [] env = "Vulkan" /\ version \in VulkanVersions -> version
    [] env \in {"OpenGL", "OpenGLCompat"} -> "opengl_4_5"
    [] OTHER -> "assert"

CompileToolsEnv == GetSpirvToolsTargetEnv(target_env_, target_env_version_)

AssembleToolsEnv ==
  GetSpirvToolsTargetEnv(GetCompilerTargetEnv(target_env),
                         GetCompilerTargetEnvVersion(target_env_version))

-----------------------------------------------------------------------------
(* Properties.                                                             *)

\* "-g restrains -O from turning on the strip-debug-info optimization pass":
\* once debug information is asked for, no compilation strips it, whatever
\* the order of the two requests and however often the level changes.
DebugInfoSurvives ==
  generate_debug_info_ => "StripDebugInfo" \notin PassesIn(OptPasses)

\* Glslang and SPIRV-Tools are told the same target: a compilation that gets
\* past the check of its target never hands the tools a target they do not
\* know, nor another one than it compiled for.
ToolsTargetIsClient == ~ClientInfo.error => CompileToolsEnv = ClientInfo.client

\* The setter stores the version only in the Compiler, so that the assembler is
\* created for the default version of the environment, whatever was set.
AssemblerTargetIsDefault ==
  AssembleToolsEnv = IF target_env \in {"opengl", "opengl_compat"}
                     THEN "opengl_4_5" ELSE "vulkan_1_0"

\* Level and debug information mean the same in every order of the calls.
LevelOf(passes) ==
  CASE "SizePasses" \in PassesIn(passes) -> "size"
    [] "PerformancePasses" \in PassesIn(passes) -> "performance"
    [] OTHER -> "zero"

PassName(p) ==
  CASE p = "SizePasses" -> "size"
    [] p = "PerformancePasses" -> "performance"
    [] OTHER -> "strip"

PassNames(passes) == {PassName(p) : p \in PassesIn(passes) \ {"NullPass"}}

Request == INSTANCE OptimizationRequest
             WITH Levels <- {"size", "performance"}, level <- LevelOf(enabled_opt_passes_),
                  debug <- generate_debug_info_,
                  passes <- PassNames(enabled_opt_passes_)

ImplementsRequest == Request!Spec

=============================================================================
