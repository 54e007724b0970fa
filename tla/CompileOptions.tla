---------------------------- MODULE CompileOptions ----------------------------
(***************************************************************************)
(* A shaderc_compile_options object as far as it has state that several    *)
(* setters share: the fields of CodegenOptions and the per-stage tables of *)
(* StageBindings.  The client calls the setters in any order; each touches *)
(* one of the two parts.                                                   *)
(***************************************************************************)
EXTENDS CodegenOptions

CONSTANTS Kinds, Uniforms, Bases, Registers, MaxRegisters

VARIABLES auto_binding_base_, hlsl_explicit_bindings_

Bindings == INSTANCE StageBindings

\* The kinds are glslang stages.
ASSUME BindingsAssumption ==
  /\ \A k \in Kinds : \E i \in Bindings!Indices : Bindings!LanguageOrder[i] = k
  /\ Bases \subseteq Nat
  /\ MaxRegisters \in Nat

OptionsInit == Init /\ Bindings!Init

OptionsNext ==
  \/ Next /\ UNCHANGED <<auto_binding_base_, hlsl_explicit_bindings_>>
  \/ Bindings!Next /\ UNCHANGED vars

OptionsSpec == OptionsInit /\ [][OptionsNext]_<<vars, auto_binding_base_, hlsl_explicit_bindings_>>

-----------------------------------------------------------------------------

\* StageBindings' property, of the whole object: a setting for a stage is seen
\* by the compilations of that stage, one for all stages by all, and neither
\* by others, whatever other setters are called in between.
SettingsReachTheirStages == Bindings!SettingsReachTheirStages

=============================================================================
