---------------------------- MODULE StageBindings ----------------------------
(***************************************************************************)
(* The two per-stage tables of a Compiler: the lowest automatic binding of *)
(* each kind of uniform, and the explicit HLSL registers.  The setters     *)
(* index them by Compiler::Stage, a compilation by glslang's EShLanguage.  *)
(* CompileOptions states what the constants are.                           *)
(***************************************************************************)
EXTENDS Naturals, Sequences

CONSTANTS Kinds,        \* the shader kinds a client names and compiles
          Uniforms,     \* the kinds of uniform
          Bases,        \* the binding numbers a client sets
          Registers,    \* the (register, set, binding) triples it sets
          MaxRegisters  \* bound on the registers set for one stage

\* The enumerators of Compiler::Stage in their order.
StageOrder ==
  <<"vertex", "tess_eval", "tess_control", "geometry", "fragment", "compute",
    "raygen", "intersection", "anyhit", "closesthit", "miss", "callable",
    "task", "mesh">>

\* Those of EShLanguage.
LanguageOrder ==
  <<"vertex", "tess_control", "tess_eval", "geometry", "fragment", "compute",
    "raygen", "intersection", "anyhit", "closesthit", "miss", "callable",
    "task", "mesh">>

Indices == 1 .. Len(StageOrder)

VARIABLES
  auto_binding_base_,      \* [i][u]: the base of u at index i
  hlsl_explicit_bindings_  \* [i]: the triples at index i

vars == <<auto_binding_base_, hlsl_explicit_bindings_>>

TypeOK ==
  /\ auto_binding_base_ \in [Indices -> [Uniforms -> Bases \cup {0}]]
  /\ hlsl_explicit_bindings_ \in [Indices -> Seq(Registers)]

-----------------------------------------------------------------------------

Init ==
  /\ auto_binding_base_ = [i \in Indices |-> [u \in Uniforms |-> 0]]
  /\ hlsl_explicit_bindings_ = [i \in Indices |-> <<>>]

IndexOf(order, s) == CHOOSE i \in Indices : order[i] = s

\* Six kinds have a Stage.  The others assert; a build without assertions
\* continues with Stage 0.
GetStage(kind) ==
  IF kind \in {"vertex", "fragment", "compute", "tess_control", "tess_eval",
               "geometry"}
  THEN kind ELSE StageOrder[1]

StageIndex(kind) == IndexOf(StageOrder, GetStage(kind))

\* The setters for all stages loop over the ones for a single stage.
SetAutoBindingBase(u, b) ==
  /\ auto_binding_base_' =
       [i \in Indices |-> [auto_binding_base_[i] EXCEPT ![u] = b]]
  /\ UNCHANGED hlsl_explicit_bindings_

SetAutoBindingBaseForStage(kind, u, b) ==
  /\ auto_binding_base_' = [auto_binding_base_ EXCEPT ![StageIndex(kind)][u] = b]
  /\ UNCHANGED hlsl_explicit_bindings_

SetHlslRegisterSetAndBinding(r) ==
  /\ \A i \in Indices : Len(hlsl_explicit_bindings_[i]) < MaxRegisters
  /\ hlsl_explicit_bindings_' =
       [i \in Indices |-> Append(hlsl_explicit_bindings_[i], r)]
  /\ UNCHANGED auto_binding_base_

\* Mutated: loops over the stages like the setter for all of them.
SetHlslRegisterForStageLoops(kind, r) ==
  /\ \A i \in Indices : Len(hlsl_explicit_bindings_[i]) < MaxRegisters
  /\ hlsl_explicit_bindings_' =
       [i \in Indices |-> Append(hlsl_explicit_bindings_[i], r)]
  /\ UNCHANGED auto_binding_base_

SetHlslRegisterForStage(kind, r) ==
  /\ Len(hlsl_explicit_bindings_[StageIndex(kind)]) < MaxRegisters
  /\ hlsl_explicit_bindings_' =
       [hlsl_explicit_bindings_ EXCEPT ![StageIndex(kind)] = Append(@, r)]
  /\ UNCHANGED auto_binding_base_

Next ==
  \/ \E u \in Uniforms, b \in Bases : SetAutoBindingBase(u, b)
  \/ \E k \in Kinds, u \in Uniforms, b \in Bases :
       SetAutoBindingBaseForStage(k, u, b)
  \/ \E r \in Registers : SetHlslRegisterSetAndBinding(r)
  \/ \E k \in Kinds, r \in Registers : SetHlslRegisterForStage(k, r)

Spec == Init /\ [][Next]_vars

-----------------------------------------------------------------------------

\* What a compilation of stage s reads.
BasesOf(s) == auto_binding_base_[IndexOf(LanguageOrder, s)]
RegistersOf(s) == hlsl_explicit_bindings_[IndexOf(LanguageOrder, s)]

\* "Sets the lowest binding number [...] for all shader stages"; "like
\* shaderc_compile_options_set_binding_base, but only takes effect when
\* compiling a given shader stage"; "sets a descriptor set and binding for an
\* HLSL register in the given stage".  Every setting is seen by the
\* compilations it was made for, and by no other.
SettingsReachTheirStages ==
  [][/\ \A u \in Uniforms, b \in Bases :
          SetAutoBindingBase(u, b) =>
            \A k \in Kinds : BasesOf(k)' = [BasesOf(k) EXCEPT ![u] = b]
     /\ \A k \in Kinds, u \in Uniforms, b \in Bases :
          SetAutoBindingBaseForStage(k, u, b) =>
            /\ BasesOf(k)' = [BasesOf(k) EXCEPT ![u] = b]
            /\ \A j \in Kinds \ {k} : BasesOf(j)' = BasesOf(j)
     /\ \A r \in Registers :
          SetHlslRegisterSetAndBinding(r) =>
            \A k \in Kinds : RegistersOf(k)' = Append(RegistersOf(k), r)
     /\ \A k \in Kinds, r \in Registers :
          SetHlslRegisterForStage(k, r) =>
            /\ RegistersOf(k)' = Append(RegistersOf(k), r)
            /\ \A j \in Kinds \ {k} : RegistersOf(j)' = RegistersOf(j)]_vars

=============================================================================
