------------------------ MODULE CodegenOptions_proofs ------------------------
(***************************************************************************)
(* Proofs about CodegenOptions, for any versions the client may pass, and  *)
(* about the whole options object of CompileOptions.                       *)
(***************************************************************************)
EXTENDS CompileOptions, TLAPS

\* The passes that can be enabled: those of one level, with the stripping
\* pass in front unless debug information was asked for, in which case it was
\* never put there or has become a null pass.
Optimizing == {"SizePasses", "PerformancePasses"}

PassesInv ==
  \/ enabled_opt_passes_ = <<>>
  \/ \E p \in Optimizing :
       IF generate_debug_info_
       THEN enabled_opt_passes_ \in {<<p>>, <<"NullPass", p>>}
       ELSE enabled_opt_passes_ = <<"StripDebugInfo", p>>

IInv == TypeOK /\ PassesInv

VersionNotStored == target_env_version = "0"

-----------------------------------------------------------------------------

\* What SetOptimizationLevel computes.
LEMMA LevelResult ==
  ASSUME NEW level, SetOptimizationLevel(level)
  PROVE  enabled_opt_passes_' =
           CASE level = "size" ->
                  IF generate_debug_info_ THEN <<"SizePasses">>
                  ELSE <<"StripDebugInfo", "SizePasses">>
             [] level = "performance" ->
                  IF generate_debug_info_ THEN <<"PerformancePasses">>
                  ELSE <<"StripDebugInfo", "PerformancePasses">>
             [] OTHER -> <<>>
<1>1. CASE level = "size"
  BY <1>1 DEF SetOptimizationLevel, LevelPasses
<1>2. CASE level = "performance"
  BY <1>2 DEF SetOptimizationLevel, LevelPasses
<1>3. CASE level \notin {"size", "performance"}
  BY <1>3 DEF SetOptimizationLevel, LevelPasses
<1>4. QED
  BY <1>1, <1>2, <1>3

LEMMA ConvertedTypes ==
  /\ \A env : GetCompilerTargetEnv(env) \in {"Vulkan", "OpenGL", "OpenGLCompat"}
  /\ \A v : GetCompilerTargetEnvVersion(v) \in {"Default"} \cup KnownVersions
BY DEF GetCompilerTargetEnv, GetCompilerTargetEnvVersion

\* What SetGenerateDebugInfo makes of each of the sequences of PassesInv.
LEMMA DebugResult ==
  ASSUME IInv, SetGenerateDebugInfo
  PROVE  \/ enabled_opt_passes_' = <<>>
         \/ \E p \in Optimizing : enabled_opt_passes_' \in {<<p>>, <<"NullPass", p>>}
<1>1. CASE enabled_opt_passes_ = <<>>
  BY <1>1 DEF SetGenerateDebugInfo
<1>2. ASSUME NEW p \in Optimizing, enabled_opt_passes_ = <<p>>
      PROVE  enabled_opt_passes_' = <<p>>
  BY <1>2 DEF SetGenerateDebugInfo, Optimizing
<1>3. ASSUME NEW p \in Optimizing, NEW q \in {"NullPass", "StripDebugInfo"},
             enabled_opt_passes_ = <<q, p>>
      PROVE  enabled_opt_passes_' = <<"NullPass", p>>
  BY <1>3 DEF SetGenerateDebugInfo, Optimizing
<1>4. QED
  BY <1>1, <1>2, <1>3 DEF IInv, PassesInv

LEMMA ShortSequences ==
  ASSUME NEW S
  PROVE  /\ <<>> \in Seq(S)
         /\ \A p \in S : <<p>> \in Seq(S)
         /\ \A p, q \in S : <<q, p>> \in Seq(S)
OBVIOUS

LEMMA InitIInv == Init => IInv
BY ShortSequences DEF Init, IInv, TypeOK, PassesInv, TargetEnvs, Languages

LEMMA StepIInv == IInv /\ [Next]_vars => IInv'
<1> SUFFICES ASSUME IInv, [Next]_vars PROVE IInv'
  OBVIOUS
<1>1. ASSUME NEW env \in TargetEnvs, NEW version \in TargetVersions,
             SetTargetEnv(env, version)
      PROVE  IInv'
  BY <1>1, ConvertedTypes DEF SetTargetEnv, IInv, TypeOK, PassesInv
<1>2. ASSUME NEW version \in SpirvVersions, SetTargetSpirv(version)
      PROVE  IInv'
  BY <1>2 DEF SetTargetSpirv, IInv, TypeOK, PassesInv
<1>3. ASSUME NEW lang \in Languages, SetSourceLanguage(lang)
      PROVE  IInv'
  BY <1>3 DEF SetSourceLanguage, targetVars, IInv, TypeOK, PassesInv
<1>4. CASE SetGenerateDebugInfo
  <2>1. enabled_opt_passes_' \in Seq(PassIds)
    <3>1. Optimizing \subseteq PassIds /\ "NullPass" \in PassIds
      BY DEF PassIds, Optimizing
    <3>2. QED
      BY <1>4, <3>1, DebugResult, ShortSequences
  <2>2. PassesInv'
    BY <1>4, DebugResult DEF PassesInv, SetGenerateDebugInfo
  <2>3. QED
    BY <1>4, <2>1, <2>2 DEF SetGenerateDebugInfo, targetVars, IInv, TypeOK
<1>5. ASSUME NEW level \in Levels, SetOptimizationLevel(level)
      PROVE  IInv'
  <2>1. enabled_opt_passes_' \in Seq(PassIds)
    <3>1. {"SizePasses", "PerformancePasses", "StripDebugInfo"} \subseteq PassIds
      BY DEF PassIds
    <3>2. QED
      BY <1>5, <3>1, LevelResult, ShortSequences DEF Levels
  <2>2. PassesInv'
    BY <1>5, LevelResult DEF PassesInv, SetOptimizationLevel, Optimizing, Levels
  <2>3. QED
    BY <1>5, <2>1, <2>2 DEF SetOptimizationLevel, targetVars, IInv, TypeOK
<1>6. CASE UNCHANGED vars
  BY <1>6 DEF vars, IInv, TypeOK, PassesInv
<1>7. QED
  BY <1>1, <1>2, <1>3, <1>4, <1>5, <1>6 DEF Next

THEOREM Invariance == Spec => []IInv
BY InitIInv, StepIInv, PTL DEF Spec

-----------------------------------------------------------------------------

\* Every setter keeps the types of the fields.
THEOREM TypeCorrect == Spec => []TypeOK
<1>1. IInv => TypeOK
  BY DEF IInv
<1>2. QED
  BY <1>1, Invariance, PTL

\* After a request for debug information no compilation strips it.
THEOREM DebugInfoIsKept == Spec => []DebugInfoSurvives
<1>1. IInv => DebugInfoSurvives
  <2> SUFFICES ASSUME IInv, generate_debug_info_
               PROVE  "StripDebugInfo" \notin PassesIn(OptPasses)
    BY DEF DebugInfoSurvives
  <2>1. PassesIn(OptPasses) \subseteq {"LegalizationPasses"} \cup PassesIn(enabled_opt_passes_)
    BY DEF PassesIn, OptPasses, IInv, TypeOK
  <2>2. "StripDebugInfo" \notin PassesIn(enabled_opt_passes_)
    BY DEF IInv, PassesInv, PassesIn, Optimizing
  <2>3. QED
    BY <2>1, <2>2
<1>2. QED
  BY <1>1, Invariance, PTL

\* The three tables of targets agree on every target that compiles.
THEOREM TargetsAgree == Spec => []ToolsTargetIsClient
<1>1. TypeOK => ToolsTargetIsClient
  BY DEF TypeOK, ToolsTargetIsClient, ClientInfo, GetGlslangClientInfo, TargetError,
     GlslangClient, CompileToolsEnv, GetSpirvToolsTargetEnv
<1>2. QED
  BY <1>1, TypeCorrect, PTL

\* What the client sees of each of the sequences of PassesInv.
LEMMA SeenPasses ==
  /\ LevelOf(<<>>) = "zero" /\ PassNames(<<>>) = {}
  /\ \A p \in Optimizing :
       /\ LevelOf(<<p>>) = PassName(p) /\ PassNames(<<p>>) = {PassName(p)}
       /\ LevelOf(<<"NullPass", p>>) = PassName(p)
       /\ PassNames(<<"NullPass", p>>) = {PassName(p)}
       /\ LevelOf(<<"StripDebugInfo", p>>) = PassName(p)
       /\ PassNames(<<"StripDebugInfo", p>>) = {PassName(p), "strip"}
<1>1. PassesIn(<<>>) = {}
  BY DEF PassesIn
<1>2. \A p : PassesIn(<<p>>) = {p}
  BY DEF PassesIn
<1>3. \A p, q : PassesIn(<<q, p>>) = {q, p}
  BY DEF PassesIn
<1>4. QED
  BY <1>1, <1>2, <1>3 DEF LevelOf, PassNames, PassName, Optimizing

LEMMA RequestStep ==
  ASSUME IInv, [Next]_vars
  PROVE  [Request!Next]_(Request!vars)
<1> DEFINE Seen == [Request!Next]_(Request!vars)
<1>1. CASE UNCHANGED <<generate_debug_info_, enabled_opt_passes_>>
  BY <1>1 DEF Request!vars
<1>2. CASE SetGenerateDebugInfo
  <2> DEFINE e == enabled_opt_passes_
             d == generate_debug_info_
  <2>1. CASE e = <<>>
    <3>1. e' = <<>>
      BY <1>2, <2>1 DEF SetGenerateDebugInfo
    <3>2. Request!RequestDebug
      BY <1>2, <2>1, <3>1, SeenPasses
      DEF SetGenerateDebugInfo, Request!RequestDebug, Request!Wanted
    <3>3. QED
      BY <3>2 DEF Request!Next
  <2>2. ASSUME NEW p \in Optimizing,
               e \in {<<p>>, <<"NullPass", p>>, <<"StripDebugInfo", p>>}
        PROVE  Seen
    <3>1. e' \in {<<p>>, <<"NullPass", p>>}
      BY <1>2, <2>2 DEF SetGenerateDebugInfo, Optimizing
    <3>2. /\ LevelOf(e) = PassName(p) /\ LevelOf(e') = PassName(p)
          /\ PassNames(e') = {PassName(p)}
      BY <2>2, <3>1, SeenPasses
    <3>3. PassName(p) \in {"size", "performance"}
      BY DEF PassName, Optimizing
    <3>4. d' = TRUE
      BY <1>2 DEF SetGenerateDebugInfo
    <3>5. Request!RequestDebug
      BY <3>2, <3>3, <3>4 DEF Request!RequestDebug, Request!Wanted
    <3>6. QED
      BY <3>5 DEF Request!Next
  <2>3. QED
    BY <2>1, <2>2 DEF IInv, PassesInv
<1>3. ASSUME NEW level \in Levels, SetOptimizationLevel(level)
      PROVE  Seen
  <2> DEFINE e == enabled_opt_passes_
             d == generate_debug_info_
  <2>1. d' = d /\ d \in BOOLEAN
    BY <1>3 DEF SetOptimizationLevel, IInv, TypeOK
  <2>2. CASE level = "zero"
    <3>1. e' = <<>>
      BY <1>3, <2>2, LevelResult
    <3>2. Request!RequestLevel(level)
      BY <2>1, <2>2, <3>1, SeenPasses DEF Request!RequestLevel, Request!Wanted
    <3>3. QED
      BY <2>2, <3>2 DEF Request!Next
  <2>3. ASSUME NEW p \in Optimizing, level = PassName(p)
        PROVE  Seen
    <3>1. e' = IF d THEN <<p>> ELSE <<"StripDebugInfo", p>>
      BY <1>3, <2>3, LevelResult DEF PassName, Optimizing
    <3>2. /\ LevelOf(e') = level
          /\ PassNames(e') = {level} \cup (IF d THEN {} ELSE {"strip"})
      BY <2>1, <2>3, <3>1, SeenPasses
    <3>3. level \in {"size", "performance"}
      BY <2>3 DEF PassName, Optimizing
    <3>4. Request!RequestLevel(level)
      BY <2>1, <3>2, <3>3 DEF Request!RequestLevel, Request!Wanted
    <3>5. QED
      BY <3>3, <3>4 DEF Request!Next
  <2>4. level = "zero" \/ \E p \in Optimizing : level = PassName(p)
    BY DEF Levels, PassName, Optimizing
  <2>5. QED
    BY <2>2, <2>3, <2>4
<1>4. QED
  BY <1>1, <1>2, <1>3 DEF Next, SetTargetEnv, SetTargetSpirv, SetSourceLanguage, vars

\* The options object implements OptimizationRequest: level and debug
\* information commute.
THEOREM Refinement == Spec => ImplementsRequest
<1>1. Init => Request!Init
  BY SeenPasses DEF Init, Request!Init
<1>2. IInv /\ [Next]_vars => [Request!Next]_(Request!vars)
  BY RequestStep
<1>3. QED
  BY <1>1, <1>2, Invariance, PTL DEF Spec, ImplementsRequest, Request!Spec

\* An assembly is for the default version of the environment: no setter reaches
\* the version that shaderc_assemble_into_spv reads.
THEOREM AssemblerTarget == Spec => []AssemblerTargetIsDefault
<1>1. Init => VersionNotStored
  BY DEF Init, VersionNotStored
<1>2. VersionNotStored /\ [Next]_vars => VersionNotStored'
  BY DEF VersionNotStored, Next, SetTargetEnv, SetTargetSpirv, SetSourceLanguage,
         SetGenerateDebugInfo, SetOptimizationLevel, vars, targetVars
<1>3. VersionNotStored => AssemblerTargetIsDefault
  <2>1. GetCompilerTargetEnvVersion("0") = "Default"
    BY DEF GetCompilerTargetEnvVersion, KnownVersions, VulkanVersions
  <2> SUFFICES ASSUME VersionNotStored
                PROVE  GetSpirvToolsTargetEnv(GetCompilerTargetEnv(target_env), "Default") =
                         IF target_env \in {"opengl", "opengl_compat"}
                         THEN "opengl_4_5" ELSE "vulkan_1_0"
    BY <2>1 DEF VersionNotStored, AssemblerTargetIsDefault, AssembleToolsEnv
  <2>2. CASE target_env \in {"opengl", "opengl_compat"}
    <3>1. GetCompilerTargetEnv(target_env) \in {"OpenGL", "OpenGLCompat"}
      BY <2>2 DEF GetCompilerTargetEnv
    <3>2. \A env \in {"OpenGL", "OpenGLCompat"} :
            GetSpirvToolsTargetEnv(env, "Default") = "opengl_4_5"
      BY DEF GetSpirvToolsTargetEnv
    <3> QED BY <2>2, <3>1, <3>2
  <2>3. CASE target_env \notin {"opengl", "opengl_compat"}
    <3>1. GetCompilerTargetEnv(target_env) = "Vulkan"
      BY <2>3 DEF GetCompilerTargetEnv
    <3>2. GetSpirvToolsTargetEnv("Vulkan", "Default") = "vulkan_1_0"
      BY DEF GetSpirvToolsTargetEnv, VulkanVersions
    <3> QED BY <2>3, <3>1, <3>2
  <2>4. QED
    BY <2>2, <2>3
<1>4. QED
  BY <1>1, <1>2, <1>3, PTL DEF Spec

-----------------------------------------------------------------------------
(* The whole object: the setters of one part do not disturb the other.     *)

\* What holds of the parts alone holds of the object.
THEOREM PartsOfOptions == OptionsSpec => Spec /\ Bindings!Spec
<1>1. OptionsInit => Init /\ Bindings!Init
  BY DEF OptionsInit
<1>2. [OptionsNext]_<<vars, auto_binding_base_, hlsl_explicit_bindings_>> =>
        [Next]_vars /\ [Bindings!Next]_(Bindings!vars)
  BY DEF OptionsNext, Bindings!vars
<1>3. QED
  BY <1>1, <1>2, PTL DEF OptionsSpec, Spec, Bindings!Spec

\* The places of the stages in the two enumerations.
LEMMA StagePlaces ==
  /\ Bindings!Indices = 1..14
  /\ \A i \in 1..14 :
       /\ Bindings!StageOrder[i] = "vertex" <=> i = 1
       /\ Bindings!StageOrder[i] = "tess_eval" <=> i = 2
       /\ Bindings!StageOrder[i] = "tess_control" <=> i = 3
       /\ Bindings!StageOrder[i] = "geometry" <=> i = 4
       /\ Bindings!StageOrder[i] = "fragment" <=> i = 5
       /\ Bindings!StageOrder[i] = "compute" <=> i = 6
  /\ \A i \in 1..14 :
       /\ Bindings!LanguageOrder[i] = "vertex" <=> i = 1
       /\ Bindings!LanguageOrder[i] = "tess_control" <=> i = 2
       /\ Bindings!LanguageOrder[i] = "tess_eval" <=> i = 3
       /\ Bindings!LanguageOrder[i] = "geometry" <=> i = 4
       /\ Bindings!LanguageOrder[i] = "fragment" <=> i = 5
       /\ Bindings!LanguageOrder[i] = "compute" <=> i = 6
BY DEF Bindings!Indices, Bindings!StageOrder, Bindings!LanguageOrder

LEMMA PlaceFound ==
  ASSUME NEW order, NEW s, NEW i \in 1..14, \A j \in 1..14 : order[j] = s <=> j = i
  PROVE  Bindings!IndexOf(order, s) = i
BY StagePlaces DEF Bindings!IndexOf

\* The kinds whose stage the two enumerations number alike.
AlikeKinds == {"vertex", "geometry", "fragment", "compute"}

Place(kind) ==
  CASE kind = "vertex" -> 1 [] kind = "geometry" -> 4
    [] kind = "fragment" -> 5 [] kind = "compute" -> 6

\* The setters and the compilations of these kinds use the same place, which is
\* that of no other of them.
LEMMA AlikePlaces ==
  /\ \A k \in AlikeKinds : /\ Place(k) \in Bindings!Indices
                           /\ Bindings!StageIndex(k) = Place(k)
                           /\ Bindings!IndexOf(Bindings!LanguageOrder, k) = Place(k)
  /\ \A j, k \in AlikeKinds : Place(j) = Place(k) => j = k
<1>1. ASSUME NEW k \in AlikeKinds
      PROVE  /\ Place(k) \in 1..14
             /\ \A i \in 1..14 : Bindings!StageOrder[i] = k <=> i = Place(k)
             /\ \A i \in 1..14 : Bindings!LanguageOrder[i] = k <=> i = Place(k)
  BY StagePlaces DEF AlikeKinds, Place
<1>2. \A k \in AlikeKinds : Bindings!GetStage(k) = k
  BY DEF AlikeKinds, Bindings!GetStage
<1>3. ASSUME NEW k \in AlikeKinds
      PROVE  /\ Bindings!StageIndex(k) = Place(k)
             /\ Bindings!IndexOf(Bindings!LanguageOrder, k) = Place(k)
  <2>1. Bindings!IndexOf(Bindings!StageOrder, k) = Place(k)
    BY <1>1, PlaceFound
  <2>2. Bindings!IndexOf(Bindings!LanguageOrder, k) = Place(k)
    BY <1>1, PlaceFound
  <2>3. QED
    BY <1>2, <2>1, <2>2 DEF Bindings!StageIndex
<1>4. \A j, k \in AlikeKinds : Place(j) = Place(k) => j = k
  BY DEF AlikeKinds, Place
<1>5. QED
  BY <1>1, <1>3, <1>4, StagePlaces

\* A kind's setter uses some place.
LEMMA SetterPlace == \A k : Bindings!StageIndex(k) \in Bindings!Indices
<1>1. Bindings!StageOrder[1] = "vertex"
  BY DEF Bindings!StageOrder
<1>2. \A k : \E i \in 1..14 : Bindings!StageOrder[i] = Bindings!GetStage(k)
  BY <1>1, StagePlaces DEF Bindings!GetStage
<1>3. QED
  BY <1>2, StagePlaces DEF Bindings!StageIndex, Bindings!IndexOf

LEMMA BindingsTypeStep ==
  ASSUME Bindings!TypeOK, [Bindings!Next]_(Bindings!vars)
  PROVE  Bindings!TypeOK'
<1> DEFINE I == Bindings!Indices
           A == auto_binding_base_
           H == hlsl_explicit_bindings_
<1>1. A \in [I -> [Uniforms -> Bases \cup {0}]] /\ H \in [I -> Seq(Registers)]
  BY DEF Bindings!TypeOK
<1> HIDE DEF I
<1>2. ASSUME NEW u \in Uniforms, NEW b \in Bases, Bindings!SetAutoBindingBase(u, b)
      PROVE  Bindings!TypeOK'
  BY <1>1, <1>2 DEF Bindings!SetAutoBindingBase, Bindings!TypeOK, I
<1>3. ASSUME NEW k \in Kinds, NEW u \in Uniforms, NEW b \in Bases,
             Bindings!SetAutoBindingBaseForStage(k, u, b)
      PROVE  Bindings!TypeOK'
  <2>1. Bindings!StageIndex(k) \in I
    BY SetterPlace DEF I
  <2>2. QED
    BY <1>1, <1>3, <2>1 DEF Bindings!SetAutoBindingBaseForStage, Bindings!TypeOK, I
<1>4. ASSUME NEW r \in Registers, Bindings!SetHlslRegisterSetAndBinding(r)
      PROVE  Bindings!TypeOK'
  BY <1>1, <1>4 DEF Bindings!SetHlslRegisterSetAndBinding, Bindings!TypeOK, I
<1>5. ASSUME NEW k \in Kinds, NEW r \in Registers, Bindings!SetHlslRegisterForStage(k, r)
      PROVE  Bindings!TypeOK'
  <2>1. Bindings!StageIndex(k) \in I
    BY SetterPlace DEF I
  <2>2. QED
    BY <1>1, <1>5, <2>1 DEF Bindings!SetHlslRegisterForStage, Bindings!TypeOK, I
<1>6. CASE UNCHANGED Bindings!vars
  BY <1>6 DEF Bindings!vars, Bindings!TypeOK
<1>7. QED
  BY <1>2, <1>3, <1>4, <1>5, <1>6 DEF Bindings!Next

\* Every table has its types, for kinds of any stage.
THEOREM BindingsTypeCorrect == OptionsSpec => []Bindings!TypeOK
<1>1. Bindings!Init => Bindings!TypeOK
  BY DEF Bindings!Init, Bindings!TypeOK
<1>2. QED
  BY <1>1, BindingsTypeStep, PartsOfOptions, PTL DEF Bindings!Spec

\* For the kinds that are numbered alike every setting is seen by the
\* compilations that it was made for and by no other, whatever other setters
\* are called in between.
THEOREM SettingsReachStages ==
  ASSUME Kinds \subseteq AlikeKinds
  PROVE  OptionsSpec => SettingsReachTheirStages
<1> DEFINE Reach ==
  /\ \A u \in Uniforms, b \in Bases :
       Bindings!SetAutoBindingBase(u, b) =>
         \A k \in Kinds : Bindings!BasesOf(k)' = [Bindings!BasesOf(k) EXCEPT ![u] = b]
  /\ \A k \in Kinds, u \in Uniforms, b \in Bases :
       Bindings!SetAutoBindingBaseForStage(k, u, b) =>
         /\ Bindings!BasesOf(k)' = [Bindings!BasesOf(k) EXCEPT ![u] = b]
         /\ \A j \in Kinds \ {k} : Bindings!BasesOf(j)' = Bindings!BasesOf(j)
  /\ \A r \in Registers :
       Bindings!SetHlslRegisterSetAndBinding(r) =>
         \A k \in Kinds : Bindings!RegistersOf(k)' = Append(Bindings!RegistersOf(k), r)
  /\ \A k \in Kinds, r \in Registers :
       Bindings!SetHlslRegisterForStage(k, r) =>
         /\ Bindings!RegistersOf(k)' = Append(Bindings!RegistersOf(k), r)
         /\ \A j \in Kinds \ {k} : Bindings!RegistersOf(j)' = Bindings!RegistersOf(j)
<1>1. ASSUME Bindings!TypeOK PROVE Reach
  <2>1. /\ auto_binding_base_ \in [Bindings!Indices -> [Uniforms -> Bases \cup {0}]]
        /\ hlsl_explicit_bindings_ \in [Bindings!Indices -> Seq(Registers)]
    BY <1>1 DEF Bindings!TypeOK
  <2>2. \A k \in Kinds :
          /\ Bindings!BasesOf(k) = auto_binding_base_[Place(k)]
          /\ Bindings!BasesOf(k)' = auto_binding_base_'[Place(k)]
          /\ Bindings!RegistersOf(k) = hlsl_explicit_bindings_[Place(k)]
          /\ Bindings!RegistersOf(k)' = hlsl_explicit_bindings_'[Place(k)]
          /\ Bindings!StageIndex(k) = Place(k) /\ Place(k) \in Bindings!Indices
    BY AlikePlaces DEF Bindings!BasesOf, Bindings!RegistersOf
  <2>3. \A j, k \in Kinds : Place(j) = Place(k) => j = k
    BY AlikePlaces
  <2> HIDE DEF Place
  <2>4. ASSUME NEW u \in Uniforms, NEW b \in Bases, Bindings!SetAutoBindingBase(u, b),
               NEW k \in Kinds
        PROVE  Bindings!BasesOf(k)' = [Bindings!BasesOf(k) EXCEPT ![u] = b]
    BY <2>2, <2>4 DEF Bindings!SetAutoBindingBase
  <2>5. ASSUME NEW k \in Kinds, NEW u \in Uniforms, NEW b \in Bases,
               Bindings!SetAutoBindingBaseForStage(k, u, b)
        PROVE  /\ Bindings!BasesOf(k)' = [Bindings!BasesOf(k) EXCEPT ![u] = b]
               /\ \A j \in Kinds \ {k} : Bindings!BasesOf(j)' = Bindings!BasesOf(j)
    BY <2>1, <2>2, <2>3, <2>5 DEF Bindings!SetAutoBindingBaseForStage
  <2>6. ASSUME NEW r \in Registers, Bindings!SetHlslRegisterSetAndBinding(r), NEW k \in Kinds
        PROVE  Bindings!RegistersOf(k)' = Append(Bindings!RegistersOf(k), r)
    BY <2>2, <2>6 DEF Bindings!SetHlslRegisterSetAndBinding
  <2>7. ASSUME NEW k \in Kinds, NEW r \in Registers, Bindings!SetHlslRegisterForStage(k, r)
        PROVE  /\ Bindings!RegistersOf(k)' = Append(Bindings!RegistersOf(k), r)
               /\ \A j \in Kinds \ {k} : Bindings!RegistersOf(j)' = Bindings!RegistersOf(j)
    BY <2>1, <2>2, <2>3, <2>7 DEF Bindings!SetHlslRegisterForStage
  <2>8. QED
    BY <2>4, <2>5, <2>6, <2>7
<1>2. QED
  BY <1>1, BindingsTypeCorrect, PTL
  DEF SettingsReachTheirStages, Bindings!SettingsReachTheirStages

\* The two tessellation stages, which the enumerations swap, are given each
\* other's bases (the run options_tess finds such a step).
TessellationIsSwapped ==
  [][\A u \in Uniforms, b \in Bases :
       /\ Bindings!SetAutoBindingBaseForStage("tess_control", u, b) =>
            /\ Bindings!BasesOf("tess_eval")' = [Bindings!BasesOf("tess_eval") EXCEPT ![u] = b]
            /\ UNCHANGED Bindings!BasesOf("tess_control")
       /\ Bindings!SetAutoBindingBaseForStage("tess_eval", u, b) =>
            /\ Bindings!BasesOf("tess_control")' =
                 [Bindings!BasesOf("tess_control") EXCEPT ![u] = b]
            /\ UNCHANGED Bindings!BasesOf("tess_eval")]_(Bindings!vars)

\* No base set for one tessellation stage reaches it: the other has it.
THEOREM TessellationSwap == OptionsSpec => TessellationIsSwapped
<1> DEFINE Swap ==
  \A u \in Uniforms, b \in Bases :
    /\ Bindings!SetAutoBindingBaseForStage("tess_control", u, b) =>
         /\ Bindings!BasesOf("tess_eval")' = [Bindings!BasesOf("tess_eval") EXCEPT ![u] = b]
         /\ UNCHANGED Bindings!BasesOf("tess_control")
    /\ Bindings!SetAutoBindingBaseForStage("tess_eval", u, b) =>
         /\ Bindings!BasesOf("tess_control")' =
              [Bindings!BasesOf("tess_control") EXCEPT ![u] = b]
         /\ UNCHANGED Bindings!BasesOf("tess_eval")
<1>1. ASSUME Bindings!TypeOK PROVE Swap
  <2>1. auto_binding_base_ \in [Bindings!Indices -> [Uniforms -> Bases \cup {0}]]
    BY <1>1 DEF Bindings!TypeOK
  <2>2. /\ Bindings!IndexOf(Bindings!StageOrder, "tess_control") = 3
        /\ Bindings!IndexOf(Bindings!LanguageOrder, "tess_control") = 2
    BY StagePlaces, PlaceFound
  <2>3. /\ Bindings!IndexOf(Bindings!StageOrder, "tess_eval") = 2
        /\ Bindings!IndexOf(Bindings!LanguageOrder, "tess_eval") = 3
    BY StagePlaces, PlaceFound
  <2>4. Bindings!StageIndex("tess_control") = 3 /\ Bindings!StageIndex("tess_eval") = 2
    BY <2>2, <2>3 DEF Bindings!StageIndex, Bindings!GetStage
  <2>5. 2 \in Bindings!Indices /\ 3 \in Bindings!Indices
    BY StagePlaces
  <2>6. QED
    BY <2>1, <2>2, <2>3, <2>4, <2>5
    DEF Bindings!SetAutoBindingBaseForStage, Bindings!BasesOf
<1>2. QED
  BY <1>1, BindingsTypeCorrect, PTL DEF TessellationIsSwapped

=============================================================================
