------------------------------- MODULE Compile -------------------------------
(***************************************************************************)
(* One call of a shaderc_compile_into_* function, that is the checks that  *)
(* CompileToSpecifiedOutputType makes and the passes of Compiler::Compile  *)
(* in their order, or of shaderc_assemble_into_spv, and the result object  *)
(* that the client gets.                                                   *)
(*                                                                         *)
(* Glslang and SPIRV-Tools are external. What they say of the source is    *)
(* part of the call: for each of glslang's three passes whether it         *)
(* succeeds and how many error and warning lines its log holds. A pass     *)
(* that logs an error fails; one may also fail without a word. Calls share *)
(* no state but glslang's, which GlslangInitializer keeps alive, so one    *)
(* call at a time is considered.                                           *)
(***************************************************************************)
EXTENDS Naturals, Diagnostics

CONSTANTS Stages,          \* shader stages
          NoStage,         \* EShLangCount
          MaxMessages,     \* bound on the errors and on the warnings of a pass
          Exceptions       \* the build catches exceptions

ASSUME CompileAssumption ==
  /\ NoStage \notin Stages \cup {"error"}
  /\ "error" \notin Stages
  /\ MaxMessages \in Nat
  /\ Exceptions \in BOOLEAN

VARIABLES
  pc,      \* the part of the two functions to run next
  call,    \* the arguments, options and what glslang says of the source
  local,   \* the locals of the two functions
  result   \* the shaderc_compilation_result

vars == <<pc, call, local, result>>

-----------------------------------------------------------------------------
(* The calls.                                                              *)

\* A forced kind names the stage, a default kind names the stage of last
\* resort; with the others the source has to say.
Kinds == [how : {"forced", "default"}, stage : Stages]
           \cup {[how |-> "infer", stage |-> NoStage]}

Log == {l \in [ok : BOOLEAN, errors : 0 .. MaxMessages, warnings : 0 .. MaxMessages] :
          l.errors > 0 => ~l.ok}

Silent(log) == ~log.ok /\ log.errors = 0

\* The last is what shaderc_assemble_into_spv makes.
Outputs == {"SpirvBinary", "SpirvAssemblyText", "PreprocessedText", "Assembled"}

\* The parser runs the preprocessor again and logs what it logged.
CompileCalls ==
  {c \in [file_name : BOOLEAN, source : {TRUE}, initializer : BOOLEAN,
          target_ok : BOOLEAN,
          language : {"supported", "hlsl_not_built_in"},
          warnings_as_errors_ : BOOLEAN,
          suppress_warnings_ : BOOLEAN, passes : BOOLEAN,
          output : Outputs \ {"Assembled"},
          kind : Kinds, pragma : Stages \cup {NoStage, "error"},
          preprocess : Log, parse : Log, link : Log] :
     /\ c.parse.errors >= c.preprocess.errors
     /\ c.parse.warnings >= c.preprocess.warnings
     /\ c.parse.ok => c.preprocess.ok}

\* An assembly call reads none of the options but the target, which always has
\* a translation.
Quiet == [ok |-> TRUE, errors |-> 0, warnings |-> 0]

AssemblyCalls ==
  [file_name : {TRUE}, source : BOOLEAN, initializer : BOOLEAN, target_ok : {TRUE},
   language : {"supported"}, warnings_as_errors_ : {FALSE},
   suppress_warnings_ : {FALSE}, passes : {FALSE}, output : {"Assembled"},
   kind : {[how |-> "infer", stage |-> NoStage]}, pragma : {NoStage},
   preprocess : {Quiet}, parse : {Quiet}, link : {Quiet}]

Calls == CompileCalls \cup AssemblyCalls

Data == {"none", "error_text", "spirv", "optimized", "text", "assembled"}

Locals == [used_shader_stage : Stages \cup {NoStage}, deducer_error : BOOLEAN,
           succeeded : BOOLEAN, data : Data, size : Data,
           total_warnings : Nat, total_errors : Nat, error_stream : BOOLEAN]

Statuses == {"success", "invalid_stage", "compilation_error",
             "internal_error", "null_result_object", "invalid_assembly"}

Results == [status : Statuses, data : Data, size : Data, num_warnings : Nat,
            num_errors : Nat, messages : BOOLEAN]

TypeOK ==
  /\ pc \in {"idle", "target", "hlsl", "preprocess", "stage", "parse", "link",
             "codegen", "optimize", "disassemble", "return", "done"}
  /\ call \in Calls
  /\ local \in Locals
  /\ result \in Results

FreshLocals(stage) ==
  [used_shader_stage |-> stage, deducer_error |-> FALSE, succeeded |-> FALSE,
   data |-> "none", size |-> "none", total_warnings |-> 0, total_errors |-> 0,
   error_stream |-> FALSE]

FreshResult ==
  [status |-> "null_result_object", data |-> "none", size |-> "none",
   num_warnings |-> 0, num_errors |-> 0, messages |-> FALSE]

Init ==
  /\ pc = "idle"
  /\ call \in Calls
  /\ local = FreshLocals(NoStage)
  /\ result = FreshResult

-----------------------------------------------------------------------------
(* CompileToSpecifiedOutputType, up to the call of Compile.                *)

GetForcedStage(kind) == IF kind.how = "forced" THEN kind.stage ELSE NoStage

Enter ==
  /\ pc = "idle" /\ call.output # "Assembled"
  /\ IF ~call.file_name
     THEN /\ result' = [FreshResult EXCEPT !.status = "compilation_error",
                                           !.num_errors = 1, !.messages = TRUE]
          /\ pc' = "done"
     ELSE /\ result' = [FreshResult EXCEPT !.status = "invalid_stage"]
          /\ pc' = IF call.initializer THEN "target" ELSE "done"
  /\ local' = FreshLocals(GetForcedStage(call.kind))
  /\ UNCHANGED call

-----------------------------------------------------------------------------
(* Compiler::Compile.                                                      *)

\* Leave Compile with the locals as they are.
Return == pc' = "return"

CheckTarget ==
  /\ pc = "target"
  /\ IF call.target_ok
     THEN pc' = "hlsl" /\ UNCHANGED local
     ELSE /\ local' = [local EXCEPT !.error_stream = TRUE,
                                    !.total_warnings = 0, !.total_errors = 1]
          /\ Return
  /\ UNCHANGED <<call, result>>

NeedsPreprocessing ==
  call.output = "PreprocessedText" \/ local.used_shader_stage = NoStage

\* A build without HLSL refuses HLSL, and makes the error text its output.
CheckLanguage ==
  /\ pc = "hlsl"
  /\ IF call.language = "hlsl_not_built_in"
     THEN /\ local' = [local EXCEPT !.error_stream = TRUE,
                                    !.data = "error_text", !.size = "error_text"]
          /\ Return
     ELSE /\ pc' = IF NeedsPreprocessing THEN "preprocess" ELSE "parse"
          /\ UNCHANGED local
  /\ UNCHANGED <<call, result>>

\* PrintFilteredErrors, whose parsing of the log Messages models.
Printed(log, as_errors, suppress) ==
  LET errors == NewErrors(log, as_errors, suppress)
      warnings == NewWarnings(log, as_errors, suppress)
  IN  [local EXCEPT !.total_errors = @ + errors,
                    !.total_warnings = @ + warnings,
                    !.error_stream = @ \/ errors > 0 \/ warnings > 0]

Passed(log, as_errors, suppress) ==
  log.ok /\ NewErrors(log, as_errors, suppress) = 0

\* Warnings are suppressed here: the parser will repeat them.
Preprocess ==
  /\ pc = "preprocess"
  /\ LET printed == Printed(call.preprocess, call.warnings_as_errors_, TRUE)
     IN  IF ~Passed(call.preprocess, call.warnings_as_errors_, TRUE)
         THEN local' = printed /\ Return
         ELSE IF call.output = "PreprocessedText"
         THEN /\ local' = [printed EXCEPT !.succeeded = TRUE, !.data = "text",
                                          !.size = "text"]
              /\ Return
         ELSE local' = printed /\ pc' = "stage"
  /\ UNCHANGED <<call, result>>

\* StageDeducer::GetDefaultStage.
GetDefaultStage(kind) == IF kind.how = "default" THEN kind.stage ELSE NoStage

\* Mutated: asks the callback before the source.
DeduceStageDefaultFirst ==
  /\ pc = "stage"
  /\ LET default == GetDefaultStage(call.kind)
         stage == IF default # NoStage THEN default ELSE call.pragma
     IN  IF stage = "error"
         THEN local' = [local EXCEPT !.error_stream = TRUE] /\ Return
         ELSE /\ local' = [local EXCEPT !.used_shader_stage = stage,
                                        !.deducer_error = (stage = NoStage)]
              /\ IF stage = NoStage THEN Return ELSE pc' = "parse"
  /\ UNCHANGED <<call, result>>

\* Mutated: a bad pragma is dropped without a word.
DeduceStageSilent ==
  /\ pc = "stage"
  /\ LET stage == IF call.pragma = NoStage THEN GetDefaultStage(call.kind)
                  ELSE call.pragma
     IN  IF stage = "error"
         THEN UNCHANGED local /\ Return
         ELSE /\ local' = [local EXCEPT !.used_shader_stage = stage,
                                        !.deducer_error = (stage = NoStage)]
              /\ IF stage = NoStage THEN Return ELSE pc' = "parse"
  /\ UNCHANGED <<call, result>>

\* Mutated: takes whatever the pragmas gave for a stage.
DeduceStageUnchecked ==
  /\ pc = "stage"
  /\ LET stage == IF call.pragma = NoStage THEN GetDefaultStage(call.kind)
                  ELSE call.pragma
     IN  /\ local' = [local EXCEPT !.used_shader_stage = stage,
                                   !.deducer_error = (stage = NoStage)]
         /\ IF stage = NoStage THEN Return ELSE pc' = "parse"
  /\ UNCHANGED <<call, result>>

\* The stage comes from the pragmas, an error in which is printed but not
\* counted, or else from the callback, which records when it has none.
DeduceStage ==
  /\ pc = "stage"
  /\ LET stage == IF call.pragma = NoStage THEN GetDefaultStage(call.kind)
                  ELSE call.pragma
     IN  IF stage = "error"
         THEN local' = [local EXCEPT !.error_stream = TRUE] /\ Return
         ELSE /\ local' = [local EXCEPT !.used_shader_stage = stage,
                                        !.deducer_error = (stage = NoStage)]
              /\ IF stage = NoStage THEN Return ELSE pc' = "parse"
  /\ UNCHANGED <<call, result>>

Parse ==
  /\ pc = "parse"
  /\ local' = Printed(call.parse, call.warnings_as_errors_,
                      call.suppress_warnings_)
  /\ IF Passed(call.parse, call.warnings_as_errors_, call.suppress_warnings_)
     THEN pc' = "link" ELSE Return
  /\ UNCHANGED <<call, result>>

\* Mutated: the linker's warnings stay warnings.
LinkLenient ==
  /\ pc = "link"
  /\ local' = Printed(call.link, FALSE, call.suppress_warnings_)
  /\ IF Passed(call.link, FALSE, call.suppress_warnings_)
     THEN pc' = "codegen" ELSE Return
  /\ UNCHANGED <<call, result>>

\* Mutated: only the log decides, not what the linker returned.
LinkTrustsLog ==
  /\ pc = "link"
  /\ local' = Printed(call.link, call.warnings_as_errors_,
                      call.suppress_warnings_)
  /\ IF NewErrors(call.link, call.warnings_as_errors_,
                  call.suppress_warnings_) = 0
     THEN pc' = "codegen" ELSE Return
  /\ UNCHANGED <<call, result>>

Link ==
  /\ pc = "link"
  /\ local' = Printed(call.link, call.warnings_as_errors_,
                      call.suppress_warnings_)
  /\ IF Passed(call.link, call.warnings_as_errors_, call.suppress_warnings_)
     THEN pc' = "codegen" ELSE Return
  /\ UNCHANGED <<call, result>>

\* GlslangToSpv writes into the output data itself.
Generate ==
  /\ pc = "codegen"
  /\ local' = [local EXCEPT !.data = "spirv"]
  /\ pc' = "optimize"
  /\ UNCHANGED <<call, result>>

\* Mutated: sets the size before the binary is known to be good.
OptimizeSizeFirst(ok) ==
  /\ pc = "optimize"
  /\ IF ~call.passes
     THEN UNCHANGED local /\ pc' = "disassemble"
     ELSE IF ok
     THEN local' = [local EXCEPT !.data = "optimized"] /\ pc' = "disassemble"
     ELSE local' = [local EXCEPT !.error_stream = TRUE, !.size = "spirv"] /\ Return
  /\ UNCHANGED <<call, result>>

\* The passes are those that CodegenOptions describes.  A failure is printed
\* but not counted, and leaves the binary in the output data.
Optimize(ok) ==
  /\ pc = "optimize"
  /\ IF ~call.passes
     THEN UNCHANGED local /\ pc' = "disassemble"
     ELSE IF ok
     THEN local' = [local EXCEPT !.data = "optimized"] /\ pc' = "disassemble"
     ELSE local' = [local EXCEPT !.error_stream = TRUE] /\ Return
  /\ UNCHANGED <<call, result>>

\* The end of Compile: a text output replaces the binary.
Disassemble(ok) ==
  /\ pc = "disassemble"
  /\ IF call.output # "SpirvAssemblyText"
     THEN local' = [local EXCEPT !.succeeded = TRUE, !.size = local.data]
     ELSE IF ok
     THEN local' = [local EXCEPT !.succeeded = TRUE, !.data = "text",
                                 !.size = "text"]
     ELSE local' = [local EXCEPT !.error_stream = TRUE]
  /\ Return
  /\ UNCHANGED <<call, result>>

-----------------------------------------------------------------------------
(* shaderc_assemble_into_spv.                                              *)

Assemble(ok) ==
  /\ pc = "idle" /\ call.output = "Assembled"
  /\ result' =
       IF ~call.initializer \/ ~call.source
       THEN [FreshResult EXCEPT !.status = "invalid_assembly"]
       ELSE IF ok
       THEN [FreshResult EXCEPT !.status = "success", !.data = "assembled",
                                !.size = "assembled"]
       ELSE [FreshResult EXCEPT !.status = "invalid_assembly", !.num_errors = 1,
                                !.messages = TRUE]
  /\ pc' = "done"
  /\ UNCHANGED <<call, local>>

\* SPIRV-Tools, or an allocation, throws.
ThrowAssembling ==
  /\ Exceptions
  /\ pc = "idle" /\ call.output = "Assembled" /\ call.initializer /\ call.source
  /\ result' = [FreshResult EXCEPT !.status = "internal_error"]
  /\ pc' = "done"
  /\ UNCHANGED <<call, local>>

\* shaderc_result_get_bytes can be called: the data of a compilation is a
\* vector, empty at worst, that of an assembly call a pointer to an object
\* that GetBytes dereferences.
BytesReadable == call.output = "Assembled" => result.data # "none"

-----------------------------------------------------------------------------
(* The rest of CompileToSpecifiedOutputType.                               *)

Finish ==
  /\ pc = "return"
  /\ result' =
       [status |-> IF local.succeeded THEN "success"
                   ELSE IF local.deducer_error THEN "invalid_stage"
                   ELSE "compilation_error",
        data |-> local.data, size |-> local.size,
        num_warnings |-> local.total_warnings,
        num_errors |-> local.total_errors, messages |-> local.error_stream]
  /\ pc' = "done"
  /\ UNCHANGED <<call, local>>

\* Glslang, SPIRV-Tools, an allocation or an include callback throws.
Throw ==
  /\ Exceptions
  /\ pc \in {"target", "hlsl", "preprocess", "stage", "parse", "link",
             "codegen", "optimize", "disassemble"}
  /\ result' = [result EXCEPT !.status = "internal_error"]
  /\ pc' = "done"
  /\ UNCHANGED <<call, local>>

\* The client has released the result and compiles again.
NextCall ==
  /\ pc = "done"
  /\ pc' = "idle"
  /\ result' = FreshResult
  /\ local' = FreshLocals(NoStage)
  /\ UNCHANGED call

Next ==
  \/ Enter \/ CheckTarget \/ CheckLanguage \/ Preprocess \/ DeduceStage
  \/ Parse \/ Link \/ Generate \/ Finish \/ Throw \/ NextCall
  \/ \E ok \in BOOLEAN : Optimize(ok) \/ Disassemble(ok) \/ Assemble(ok)
  \/ ThrowAssembling

Spec == Init /\ [][Next]_vars

-----------------------------------------------------------------------------
(* Properties of the result.                                               *)

Done == pc = "done"
Succeeded == Done /\ result.status = "success"
Compiled == call.output \in {"SpirvBinary", "SpirvAssemblyText"}

\* A success is the work of passes that all succeeded, it reports no error,
\* and its data is the output that was asked for.
SuccessIsEarned ==
  Succeeded =>
    /\ result.num_errors = 0
    /\ call.target_ok /\ call.language # "hlsl_not_built_in"
    /\ IF Compiled THEN call.parse.ok /\ call.link.ok ELSE call.preprocess.ok
    /\ result.data = "text" <=>
         call.output \in {"SpirvAssemblyText", "PreprocessedText"}
    /\ result.data = "assembled" <=> call.output = "Assembled"
    /\ call.initializer /\ call.source
    /\ Compiled => local.used_shader_stage # NoStage

\* shaderc_result_get_length describes the data: all of it after a success,
\* and nothing after a failure, also when the binary was generated and a later
\* pass failed.  (A build without HLSL returns the refusal itself.)
LengthDescribesOutput ==
  Done => result.size =
            IF result.status = "success" \/ result.data = "error_text"
            THEN result.data ELSE "none"

\* "-Werror" leaves no warning behind, "-w" neither, and "-w" wins: suppressed
\* warnings are no reason to fail.  "total_warnings and total_errors are
\* incremented once for every warning or error encountered": although the source
\* may be preprocessed twice, its warnings are reported once.
WarningPolicy ==
  /\ Done /\ (call.warnings_as_errors_ \/ call.suppress_warnings_) =>
       result.num_warnings = 0
  /\ Succeeded /\ Compiled /\ call.warnings_as_errors_
       /\ ~call.suppress_warnings_ =>
       call.parse.warnings + call.link.warnings = 0
  /\ Done /\ Compiled /\ call.suppress_warnings_ /\ result.num_errors > 0 =>
       \/ ~call.file_name \/ ~call.target_ok
       \/ call.preprocess.errors + call.parse.errors + call.link.errors > 0
  /\ Succeeded /\ Compiled /\ ~call.warnings_as_errors_
       /\ ~call.suppress_warnings_ =>
       result.num_warnings = call.parse.warnings + call.link.warnings

\* A source that gets through the preprocessor but has no stage.
NoStageNamed == call.kind.how = "infer" /\ call.pragma = NoStage

GetsToStage ==
  /\ call.file_name /\ call.target_ok /\ call.language # "hlsl_not_built_in"
  /\ Passed(call.preprocess, call.warnings_as_errors_, TRUE)

\* A forced stage overrides a pragma, and a pragma overrides a default; and
\* invalid_stage means that nothing names a stage (or that the compiler was
\* never initialised), and is what such a source is reported as.
StageIsDecided ==
  /\ Succeeded /\ Compiled =>
       local.used_shader_stage =
         CASE call.kind.how = "forced" -> call.kind.stage
           [] call.kind.how # "forced" /\ call.pragma # NoStage -> call.pragma
           [] OTHER -> call.kind.stage
  /\ Done /\ call.initializer /\ result.status = "invalid_stage" =>
       Compiled /\ NoStageNamed
  /\ Done /\ call.initializer /\ Compiled /\ NoStageNamed /\ GetsToStage =>
       result.status \in {"invalid_stage", "internal_error"}

\* A failure whose only trace is a message: of a pragma, of the optimiser, of
\* the disassembler, or that HLSL is not built in.
Uncounted ==
  \/ call.pragma = "error" \/ call.language = "hlsl_not_built_in"
  \/ result.data \in {"spirv", "optimized"}

Unsaid == Silent(call.preprocess) \/ Silent(call.parse) \/ Silent(call.link)

\* A failed compilation says why, provided glslang does, and counts as an error
\* unless it is one of those above; a failed assembly does both, provided there
\* was something to assemble.
FailureIsExplained ==
  /\ Done /\ result.status = "compilation_error" =>
       /\ result.messages \/ Unsaid
       /\ result.num_errors > 0 \/ Uncounted \/ Unsaid
  /\ Done /\ result.status = "invalid_assembly" =>
       /\ call.output = "Assembled"
       /\ call.initializer /\ call.source => result.messages /\ result.num_errors = 1

\* shaderc.h says of every result that shaderc_result_get_bytes "returns a
\* pointer to the start of the compilation output data bytes", and glslc asks
\* for it before it looks at the status.
BytesAreReadable == Done => BytesReadable

=============================================================================
