---------------------------- MODULE Compile_proofs ----------------------------
(***************************************************************************)
(* Proofs about Compile, for any stages, any number of messages and both   *)
(* kinds of build.  The invariant says of each place in the two functions  *)
(* what the passes before it have established, of the locals when Compile  *)
(* returns what the properties say of the result that is made of them, and *)
(* is the properties themselves once there is a result.                    *)
(*                                                                         *)
(* Then about StagePragma, for sources of any length, any versions and any *)
(* preamble.  Its invariant says of the text that is left which lines of   *)
(* it are the source's, and of the walk that its place, the pragmas found  *)
(* and the first pragma and code are those of the lines seen.              *)
(***************************************************************************)
EXTENDS Compile, StagePragma, FiniteSetTheorems, SequenceTheorems,
        WellFoundedInduction, TLAPS

\* The places in Compiler::Compile, from each on.
FromCodegen == {"codegen", "optimize", "disassemble"}
FromLink == {"link"} \cup FromCodegen
FromParse == {"parse"} \cup FromLink
FromStage == {"stage"} \cup FromParse
FromPreprocess == {"preprocess"} \cup FromStage
FromHlsl == {"hlsl"} \cup FromPreprocess
Running == {"target"} \cup FromHlsl

as_errors == call.warnings_as_errors_
suppress == call.suppress_warnings_

LogTyped(log) == log.ok \in BOOLEAN /\ log.errors \in Nat /\ log.warnings \in Nat

\* What is used of call \in Calls.
CallTyped ==
  /\ call.file_name \in BOOLEAN /\ call.initializer \in BOOLEAN
  /\ call.source \in BOOLEAN /\ call.target_ok \in BOOLEAN
  /\ as_errors \in BOOLEAN /\ suppress \in BOOLEAN /\ call.passes \in BOOLEAN
  /\ call.language \in {"supported", "hlsl_not_built_in"}
  /\ call.output \in Outputs
  /\ \/ call.kind.how \in {"forced", "default"} /\ call.kind.stage \in Stages
     \/ call.kind.how = "infer" /\ call.kind.stage = NoStage
  /\ call.pragma \in Stages \cup {NoStage, "error"}
  /\ LogTyped(call.preprocess) /\ LogTyped(call.parse) /\ LogTyped(call.link)
  /\ call.output # "Assembled" => call.source
  /\ call.output = "Assembled" => /\ call.target_ok /\ call.language = "supported"
                                  /\ call.preprocess.ok

NamedStage ==
  IF call.kind.how # "forced" /\ call.pragma # NoStage THEN call.pragma
  ELSE call.kind.stage

ParserWarnings == NewWarnings(call.parse, as_errors, suppress)
LinkerWarnings == NewWarnings(call.link, as_errors, suppress)

PreprocessorPassed == Passed(call.preprocess, as_errors, TRUE)
ParserPassed == Passed(call.parse, as_errors, suppress)
LinkerPassed == Passed(call.link, as_errors, suppress)

\* What CompileToSpecifiedOutputType has checked.
Entered ==
  pc \in Running \cup {"return"} =>
    /\ call.file_name /\ call.initializer /\ call.output # "Assembled"
    /\ result = [FreshResult EXCEPT !.status = "invalid_stage"]

\* What the passes have established.
PassesDone ==
  /\ pc \in FromHlsl => call.target_ok
  /\ pc \in FromPreprocess => call.language = "supported"
  /\ pc \in {"target", "hlsl", "preprocess", "stage"} =>
       local.used_shader_stage = GetForcedStage(call.kind)
  /\ pc = "preprocess" => NeedsPreprocessing
  /\ pc = "stage" => call.kind.how # "forced" /\ PreprocessorPassed
  /\ pc \in FromStage => call.output # "PreprocessedText"
  /\ pc \in FromParse => /\ local.used_shader_stage = NamedStage
                         /\ NamedStage \in Stages
  /\ pc \in FromLink => ParserPassed
  /\ pc \in FromCodegen => LinkerPassed

\* What the locals hold.
LocalsSoFar ==
  /\ pc \in Running =>
       /\ ~local.succeeded /\ ~local.deducer_error
       /\ local.size = "none" /\ local.total_errors = 0
  /\ pc \in Running \ {"optimize", "disassemble"} => local.data = "none"
  /\ pc \in {"optimize", "disassemble"} => local.data \in {"spirv", "optimized"}
  /\ pc \in Running \ FromLink => local.total_warnings = 0
  /\ pc = "link" => local.total_warnings = ParserWarnings
  /\ pc \in FromCodegen => local.total_warnings = ParserWarnings + LinkerWarnings

\* What the locals hold when Compile returns.
SuccessReturned ==
  local.succeeded =>
    /\ local.total_errors = 0 /\ call.target_ok /\ call.language = "supported"
    /\ ~local.deducer_error
    /\ IF Compiled THEN ParserPassed /\ LinkerPassed ELSE PreprocessorPassed
    /\ local.data = "text" <=>
         call.output \in {"SpirvAssemblyText", "PreprocessedText"}
    /\ Compiled => /\ local.used_shader_stage = NamedStage /\ NamedStage \in Stages
                   /\ local.total_warnings = ParserWarnings + LinkerWarnings

FailureReturned ==
  ~local.succeeded /\ ~local.deducer_error =>
    /\ local.error_stream \/ Unsaid
    /\ \/ local.total_errors > 0 \/ Unsaid
       \/ call.pragma = "error" \/ call.language = "hlsl_not_built_in"
       \/ local.data \in {"spirv", "optimized"}

CountsReturned ==
  /\ as_errors \/ suppress => local.total_warnings = 0
  /\ suppress /\ local.total_errors > 0 =>
       \/ ~call.target_ok
       \/ call.preprocess.errors + call.parse.errors + call.link.errors > 0

StageReturned ==
  /\ local.deducer_error => Compiled /\ NoStageNamed
  /\ Compiled /\ NoStageNamed /\ GetsToStage => local.deducer_error

Returned ==
  pc = "return" =>
    /\ local.size = IF local.succeeded \/ local.data = "error_text"
                    THEN local.data ELSE "none"
    /\ local.data # "assembled"
    /\ SuccessReturned /\ FailureReturned /\ CountsReturned /\ StageReturned

Properties ==
  /\ SuccessIsEarned /\ LengthDescribesOutput /\ WarningPolicy
  /\ StageIsDecided /\ FailureIsExplained

IInv ==
  TypeOK /\ CallTyped /\ Entered /\ PassesDone /\ LocalsSoFar /\ Returned /\ Properties

-----------------------------------------------------------------------------
(* Lemmas.                                                                 *)

LEMMA LogsTyped ==
  ASSUME NEW log \in Log
  PROVE  LogTyped(log)
BY CompileAssumption DEF Log, LogTyped

LEMMA CallsTyped ==
  ASSUME call \in Calls
  PROVE  CallTyped
<1>1. CASE call \in CompileCalls
  <2>1. LogTyped(call.preprocess) /\ LogTyped(call.parse) /\ LogTyped(call.link)
    BY <1>1, LogsTyped DEF CompileCalls
  <2>2. \/ call.kind.how \in {"forced", "default"} /\ call.kind.stage \in Stages
        \/ call.kind.how = "infer" /\ call.kind.stage = NoStage
    <3>1. call.kind \in Kinds
      BY <1>1 DEF CompileCalls
    <3> QED BY <3>1 DEF Kinds
  <2> QED BY <1>1, <2>1, <2>2 DEF CompileCalls, CallTyped, as_errors, suppress, Outputs
<1>2. CASE call \in AssemblyCalls
  <2>1. /\ call.preprocess = Quiet /\ call.parse = Quiet /\ call.link = Quiet
        /\ call.kind.how = "infer" /\ call.kind.stage = NoStage
    BY <1>2 DEF AssemblyCalls
  <2>2. LogTyped(Quiet) /\ Quiet.ok
    BY DEF LogTyped, Quiet
  <2> QED BY <1>2, <2>1, <2>2 DEF AssemblyCalls, CallTyped, as_errors, suppress, Outputs
<1> QED BY <1>1, <1>2 DEF Calls

\* The counts of a log are numbers, and one that passes has no errors.
LEMMA NewCounts ==
  ASSUME NEW log, LogTyped(log), NEW a \in BOOLEAN, NEW s \in BOOLEAN
  PROVE  /\ NewErrors(log, a, s) \in Nat /\ NewWarnings(log, a, s) \in Nat
         /\ a \/ s => NewWarnings(log, a, s) = 0
         /\ s => NewErrors(log, a, s) = log.errors
         /\ ~Passed(log, a, s) => Silent(log) \/ NewErrors(log, a, s) > 0
         /\ Passed(log, a, s) => log.ok /\ NewErrors(log, a, s) = 0
BY DEF NewErrors, NewWarnings, Passed, Silent, LogTyped

\* What PrintFilteredErrors does to the locals.
LEMMA PrintedLocals ==
  ASSUME local \in Locals, NEW log, LogTyped(log), NEW a \in BOOLEAN, NEW s \in BOOLEAN
  PROVE  LET p == Printed(log, a, s)
         IN  /\ p \in Locals
             /\ p.total_errors = local.total_errors + NewErrors(log, a, s)
             /\ p.total_warnings = local.total_warnings + NewWarnings(log, a, s)
             /\ NewErrors(log, a, s) > 0 => p.error_stream
             /\ p.succeeded = local.succeeded /\ p.deducer_error = local.deducer_error
             /\ p.data = local.data /\ p.size = local.size
             /\ p.used_shader_stage = local.used_shader_stage
<1> DEFINE errors == NewErrors(log, a, s)
           warnings == NewWarnings(log, a, s)
           p == Printed(log, a, s)
<1>1. errors \in Nat /\ warnings \in Nat
  BY NewCounts
<1>2. /\ local.total_errors \in Nat /\ local.total_warnings \in Nat
      /\ local.error_stream \in BOOLEAN
  BY DEF Locals
<1>3. p = [local EXCEPT !.total_errors = @ + errors, !.total_warnings = @ + warnings,
                        !.error_stream = @ \/ errors > 0 \/ warnings > 0]
  BY DEF Printed
<1> HIDE DEF errors, warnings, p
<1>4. /\ p.total_errors = local.total_errors + errors
      /\ p.total_warnings = local.total_warnings + warnings
      /\ p.error_stream = (local.error_stream \/ errors > 0 \/ warnings > 0)
      /\ p.succeeded = local.succeeded /\ p.deducer_error = local.deducer_error
      /\ p.data = local.data /\ p.size = local.size
      /\ p.used_shader_stage = local.used_shader_stage
  BY <1>3 DEF Locals
<1>5. p \in Locals
  <2> DEFINE te == local.total_errors + errors
             tw == local.total_warnings + warnings
             es == local.error_stream \/ errors > 0 \/ warnings > 0
  <2>1. te \in Nat /\ tw \in Nat
    BY <1>1, <1>2
  <2>2. es \in BOOLEAN
    OBVIOUS
  <2>3. p = [local EXCEPT !.total_errors = te, !.total_warnings = tw, !.error_stream = es]
    BY <1>3 DEF Locals
  <2> HIDE DEF te, tw, es
  <2> QED BY <2>1, <2>2, <2>3 DEF Locals
<1> QED BY <1>4, <1>5 DEF errors, warnings, p

\* What holds after every step from one place in Compile to another.
LEMMA RunningStep ==
  ASSUME IInv, call' = call, result' = result, pc \in Running,
         pc' \in Running \cup {"return"}, local' \in Locals
  PROVE  TypeOK' /\ CallTyped' /\ Entered' /\ Properties'
<1>1. TypeOK'
  BY DEF IInv, TypeOK, Running, FromHlsl, FromPreprocess, FromStage, FromParse,
         FromLink, FromCodegen
<1>2. CallTyped'
  BY DEF IInv, CallTyped, as_errors, suppress, LogTyped
<1>3. Entered'
  BY DEF IInv, Entered, FreshResult
<1>4. pc' # "done"
  BY DEF Running, FromHlsl, FromPreprocess, FromStage, FromParse, FromLink, FromCodegen
<1>5. Properties'
  BY <1>4 DEF Properties, SuccessIsEarned, LengthDescribesOutput, WarningPolicy,
              StageIsDecided, FailureIsExplained, Done, Succeeded
<1> QED BY <1>1, <1>2, <1>3, <1>5

LEMMA CheckTargetStep == IInv /\ CheckTarget => IInv'
<1> SUFFICES ASSUME IInv, CheckTarget PROVE IInv'
  OBVIOUS
<1> USE DEF Running, FromHlsl, FromPreprocess, FromStage, FromParse, FromLink, FromCodegen
<1>1. pc = "target" /\ call' = call /\ result' = result
  BY DEF CheckTarget
<1>2. CASE call.target_ok
  <2>1. pc' = "hlsl" /\ local' = local
    BY <1>2 DEF CheckTarget
  <2>2. TypeOK' /\ CallTyped' /\ Entered' /\ Properties'
    BY <1>1, <2>1, RunningStep DEF IInv, TypeOK
  <2>3. PassesDone'
    BY <1>1, <1>2, <2>1 DEF IInv, PassesDone
  <2>4. LocalsSoFar' /\ Returned'
    BY <1>1, <2>1 DEF IInv, LocalsSoFar, Returned
  <2> QED BY <2>2, <2>3, <2>4 DEF IInv
<1>3. CASE ~call.target_ok
  <2>1. /\ pc' = "return"
        /\ local' = [local EXCEPT !.error_stream = TRUE,
                                  !.total_warnings = 0, !.total_errors = 1]
    BY <1>3 DEF CheckTarget, Return
  <2>2. local \in Locals /\ local' \in Locals
    BY <2>1 DEF IInv, TypeOK, Locals
  <2>3. TypeOK' /\ CallTyped' /\ Entered' /\ Properties'
    BY <1>1, <2>1, <2>2, RunningStep
  <2>4. PassesDone' /\ LocalsSoFar'
    BY <2>1 DEF PassesDone, LocalsSoFar
  <2>5. /\ local'.error_stream /\ local'.total_errors = 1 /\ local'.total_warnings = 0
        /\ ~local'.succeeded /\ ~local'.deducer_error
        /\ local'.size = "none" /\ local'.data = "none"
    BY <1>1, <2>1, <2>2 DEF IInv, LocalsSoFar, Locals
  <2>6. SuccessReturned' /\ FailureReturned'
    BY <2>5 DEF SuccessReturned, FailureReturned
  <2>7. CountsReturned' /\ StageReturned'
    BY <1>1, <1>3, <2>5 DEF CountsReturned, StageReturned, GetsToStage
  <2>8. Returned'
    BY <2>5, <2>6, <2>7 DEF Returned
  <2> QED BY <2>3, <2>4, <2>8 DEF IInv
<1> QED BY <1>2, <1>3

LEMMA CheckLanguageStep == IInv /\ CheckLanguage => IInv'
<1> SUFFICES ASSUME IInv, CheckLanguage PROVE IInv'
  OBVIOUS
<1> USE DEF Running, FromHlsl, FromPreprocess, FromStage, FromParse, FromLink, FromCodegen
<1>1. pc = "hlsl" /\ call' = call /\ result' = result /\ local \in Locals
  BY DEF CheckLanguage, IInv, TypeOK
<1>2. CASE call.language = "hlsl_not_built_in"
  <2>1. /\ pc' = "return"
        /\ local' = [local EXCEPT !.error_stream = TRUE, !.data = "error_text",
                                  !.size = "error_text"]
    BY <1>2 DEF CheckLanguage, Return
  <2>2. local' \in Locals
    BY <1>1, <2>1 DEF Locals, Data
  <2>3. TypeOK' /\ CallTyped' /\ Entered' /\ Properties'
    BY <1>1, <2>1, <2>2, RunningStep
  <2>4. PassesDone' /\ LocalsSoFar'
    BY <2>1 DEF PassesDone, LocalsSoFar
  <2>5. /\ local'.error_stream /\ local'.total_errors = 0 /\ local'.total_warnings = 0
        /\ ~local'.succeeded /\ ~local'.deducer_error
        /\ local'.size = "error_text" /\ local'.data = "error_text"
    BY <1>1, <2>1, <2>2 DEF IInv, LocalsSoFar, Locals
  <2>6. Returned'
    BY <1>1, <1>2, <2>5 DEF Returned, SuccessReturned, FailureReturned, CountsReturned,
                            StageReturned, GetsToStage
  <2> QED BY <2>3, <2>4, <2>6 DEF IInv
<1>3. CASE call.language = "supported"
  <2>1. local' = local /\ pc' = IF NeedsPreprocessing THEN "preprocess" ELSE "parse"
    BY <1>3 DEF CheckLanguage
  <2>2. TypeOK' /\ CallTyped' /\ Entered' /\ Properties'
    BY <1>1, <2>1, RunningStep
  <2>3. CASE NeedsPreprocessing
    <3>1. NeedsPreprocessing'
      BY <1>1, <2>1, <2>3 DEF NeedsPreprocessing
    <3>2. PassesDone'
      BY <1>1, <1>3, <2>1, <2>3, <3>1 DEF IInv, PassesDone
    <3>3. LocalsSoFar' /\ Returned'
      BY <1>1, <2>1, <2>3 DEF IInv, LocalsSoFar, Returned
    <3> QED BY <2>2, <3>2, <3>3 DEF IInv
  <2>4. CASE ~NeedsPreprocessing
    <3>1. local.used_shader_stage = GetForcedStage(call.kind) /\ call.target_ok
      BY <1>1 DEF IInv, PassesDone
    <3>2. call.output # "PreprocessedText" /\ GetForcedStage(call.kind) # NoStage
      BY <2>4, <3>1 DEF NeedsPreprocessing
    <3>3. call.kind.how = "forced" /\ call.kind.stage \in Stages
      BY <3>2 DEF GetForcedStage, IInv, CallTyped
    <3>4. GetForcedStage(call.kind) = NamedStage /\ NamedStage \in Stages
      BY <3>3 DEF GetForcedStage, NamedStage
    <3>5. NamedStage' = NamedStage
      BY <1>1 DEF NamedStage
    <3>6. PassesDone'
      BY <1>1, <1>3, <2>1, <2>4, <3>1, <3>2, <3>4, <3>5 DEF PassesDone
    <3>7. LocalsSoFar' /\ Returned'
      BY <1>1, <2>1, <2>4 DEF IInv, LocalsSoFar, Returned
    <3> QED BY <2>2, <3>6, <3>7 DEF IInv
  <2> QED BY <2>3, <2>4
<1> QED BY <1>2, <1>3 DEF IInv, CallTyped

LEMMA PreprocessStep == IInv /\ Preprocess => IInv'
<1> SUFFICES ASSUME IInv, Preprocess PROVE IInv'
  OBVIOUS
<1> USE DEF Running, FromHlsl, FromPreprocess, FromStage, FromParse, FromLink, FromCodegen
<1> DEFINE printed == Printed(call.preprocess, as_errors, TRUE)
<1>1. pc = "preprocess" /\ call' = call /\ result' = result /\ local \in Locals
  BY DEF Preprocess, IInv, TypeOK
<1>2. /\ LogTyped(call.preprocess) /\ as_errors \in BOOLEAN
      /\ call.target_ok /\ call.language = "supported" /\ call.output # "Assembled"
      /\ local.used_shader_stage = GetForcedStage(call.kind)
      /\ ~local.succeeded /\ ~local.deducer_error /\ local.data = "none"
      /\ local.size = "none" /\ local.total_errors = 0 /\ local.total_warnings = 0
  BY <1>1 DEF IInv, CallTyped, PassesDone, LocalsSoFar, Entered
<1>3. /\ printed \in Locals
      /\ printed.total_errors = NewErrors(call.preprocess, as_errors, TRUE)
      /\ printed.total_warnings = 0
      /\ NewErrors(call.preprocess, as_errors, TRUE) > 0 => printed.error_stream
      /\ ~printed.succeeded /\ ~printed.deducer_error
      /\ printed.data = "none" /\ printed.size = "none"
      /\ printed.used_shader_stage = GetForcedStage(call.kind)
  <2>1. /\ printed \in Locals
        /\ printed.total_errors =
             local.total_errors + NewErrors(call.preprocess, as_errors, TRUE)
        /\ printed.total_warnings =
             local.total_warnings + NewWarnings(call.preprocess, as_errors, TRUE)
        /\ NewErrors(call.preprocess, as_errors, TRUE) > 0 => printed.error_stream
        /\ printed.succeeded = local.succeeded
        /\ printed.deducer_error = local.deducer_error
        /\ printed.data = local.data /\ printed.size = local.size
        /\ printed.used_shader_stage = local.used_shader_stage
    <3>1. local \in Locals /\ LogTyped(call.preprocess) /\ as_errors \in BOOLEAN
      BY <1>1, <1>2
    <3> HIDE DEF as_errors
    <3> QED BY <3>1, PrintedLocals
  <2>2. /\ NewErrors(call.preprocess, as_errors, TRUE) \in Nat
        /\ NewWarnings(call.preprocess, as_errors, TRUE) = 0
    BY <1>2, NewCounts
  <2> HIDE DEF printed
  <2>3. /\ printed.total_errors = NewErrors(call.preprocess, as_errors, TRUE)
        /\ printed.total_warnings = 0
    <3> DEFINE errors == NewErrors(call.preprocess, as_errors, TRUE)
               warnings == NewWarnings(call.preprocess, as_errors, TRUE)
    <3>1. /\ local.total_errors = 0 /\ local.total_warnings = 0
          /\ errors \in Nat /\ warnings = 0
      BY <1>2, <2>2
    <3>2. /\ printed.total_errors = local.total_errors + errors
          /\ printed.total_warnings = local.total_warnings + warnings
      BY <2>1
    <3> HIDE DEF errors, warnings
    <3>3. printed.total_errors = errors /\ printed.total_warnings = 0
      BY <3>1, <3>2
    <3> QED BY <3>3 DEF errors
  <2> QED BY <1>2, <2>1, <2>3
<1> HIDE DEF printed
<1>4. CASE ~PreprocessorPassed
  <2>1. pc' = "return" /\ local' = printed
    BY <1>4 DEF Preprocess, Return, PreprocessorPassed, as_errors, printed
  <2>2. TypeOK' /\ CallTyped' /\ Entered' /\ Properties'
    BY <1>1, <1>3, <2>1, RunningStep
  <2>3. PassesDone' /\ LocalsSoFar'
    BY <2>1 DEF PassesDone, LocalsSoFar
  <2>4. \/ Silent(call.preprocess)
        \/ /\ NewErrors(call.preprocess, as_errors, TRUE) > 0
           /\ NewErrors(call.preprocess, as_errors, TRUE) = call.preprocess.errors
    BY <1>2, <1>4, NewCounts DEF PreprocessorPassed
  <2>5. SuccessReturned' /\ FailureReturned'
    BY <1>1, <1>3, <2>1, <2>4 DEF SuccessReturned, FailureReturned, Unsaid
  <2>6. CountsReturned'
    <3>1. printed.total_errors > 0 => call.preprocess.errors > 0
      BY <1>2, <1>3, NewCounts
    <3>2. /\ call.preprocess.errors \in Nat /\ call.parse.errors \in Nat
          /\ call.link.errors \in Nat
      BY DEF IInv, CallTyped, LogTyped
    <3>3. printed.total_errors > 0 =>
            call.preprocess.errors + call.parse.errors + call.link.errors > 0
      BY <3>1, <3>2
    <3> QED BY <1>1, <1>3, <2>1, <3>3 DEF CountsReturned
  <2>7. StageReturned'
    BY <1>1, <1>3, <1>4, <2>1 DEF StageReturned, GetsToStage, PreprocessorPassed, as_errors
  <2>8. Returned'
    BY <1>3, <2>1, <2>5, <2>6, <2>7 DEF Returned
  <2> QED BY <2>2, <2>3, <2>8 DEF IInv
<1>5. CASE PreprocessorPassed
  <2>1. NewErrors(call.preprocess, as_errors, TRUE) = 0
    BY <1>5 DEF PreprocessorPassed, Passed
  <2>2. CASE call.output = "PreprocessedText"
    <3>1. /\ pc' = "return"
          /\ local' = [printed EXCEPT !.succeeded = TRUE, !.data = "text", !.size = "text"]
      BY <1>5, <2>2 DEF Preprocess, Return, PreprocessorPassed, as_errors, printed
    <3>2. /\ local' \in Locals /\ local'.succeeded /\ local'.data = "text"
          /\ local'.size = "text" /\ local'.total_errors = 0
          /\ local'.total_warnings = 0 /\ ~local'.deducer_error
      BY <1>3, <2>1, <3>1 DEF Locals, Data
    <3>3. TypeOK' /\ CallTyped' /\ Entered' /\ Properties'
      BY <1>1, <3>1, <3>2, RunningStep
    <3>4. PassesDone' /\ LocalsSoFar'
      BY <3>1 DEF PassesDone, LocalsSoFar
    <3>5. PreprocessorPassed' /\ ~Compiled'
      BY <1>1, <1>5, <2>2 DEF PreprocessorPassed, as_errors, Compiled
    <3>6. SuccessReturned'
      BY <1>1, <1>2, <2>2, <3>2, <3>5 DEF SuccessReturned, Compiled
    <3>7. FailureReturned' /\ CountsReturned' /\ StageReturned'
      BY <3>2, <3>5 DEF FailureReturned, CountsReturned, StageReturned
    <3>8. Returned'
      BY <3>2, <3>6, <3>7 DEF Returned
    <3> QED BY <3>3, <3>4, <3>8 DEF IInv
  <2>3. CASE call.output # "PreprocessedText"
    <3>1. pc' = "stage" /\ local' = printed
      BY <1>5, <2>3 DEF Preprocess, PreprocessorPassed, as_errors, printed
    <3>2. TypeOK' /\ CallTyped' /\ Entered' /\ Properties'
      BY <1>1, <1>3, <3>1, RunningStep
    \* Only a call without a forced stage is preprocessed on the way to the parser.
    <3>3. PreprocessorPassed'
      BY <1>1, <1>5 DEF PreprocessorPassed, as_errors
    <3>4. call.kind.how # "forced"
      <4>1. GetForcedStage(call.kind) = NoStage
        BY <1>1, <1>2, <2>3 DEF IInv, PassesDone, NeedsPreprocessing
      <4> QED BY <4>1, CompileAssumption DEF GetForcedStage, IInv, CallTyped
    <3>5. PassesDone'
      BY <1>1, <1>2, <1>3, <2>3, <3>1, <3>3, <3>4 DEF PassesDone
    <3>6. LocalsSoFar' /\ Returned'
      BY <1>3, <2>1, <3>1 DEF LocalsSoFar, Returned
    <3> QED BY <3>2, <3>5, <3>6 DEF IInv
  <2> QED BY <2>2, <2>3
<1> QED BY <1>4, <1>5

LEMMA DeduceStageStep == IInv /\ DeduceStage => IInv'
<1> SUFFICES ASSUME IInv, DeduceStage PROVE IInv'
  OBVIOUS
<1> USE DEF Running, FromHlsl, FromPreprocess, FromStage, FromParse, FromLink, FromCodegen
<1> DEFINE stage == IF call.pragma = NoStage THEN GetDefaultStage(call.kind)
                    ELSE call.pragma
<1>1. pc = "stage" /\ call' = call /\ result' = result /\ local \in Locals
  BY DEF DeduceStage, IInv, TypeOK
<1>2. /\ call.target_ok /\ call.language = "supported" /\ call.output # "Assembled"
      /\ call.output # "PreprocessedText" /\ call.kind.how # "forced"
      /\ PreprocessorPassed
      /\ ~local.succeeded /\ ~local.deducer_error /\ local.data = "none"
      /\ local.size = "none" /\ local.total_errors = 0 /\ local.total_warnings = 0
  BY <1>1 DEF IInv, PassesDone, LocalsSoFar, Entered
<1>3. /\ call.output \in Outputs /\ Compiled
      /\ \/ call.kind.how = "default" /\ call.kind.stage \in Stages
         \/ call.kind.how = "infer" /\ call.kind.stage = NoStage
      /\ call.pragma \in Stages \cup {NoStage, "error"}
  BY <1>2 DEF IInv, CallTyped, Compiled, Outputs
<1>4. /\ stage = NamedStage /\ NamedStage \in Stages \cup {NoStage, "error"}
      /\ NamedStage = NoStage <=> NoStageNamed
      /\ NamedStage = "error" => call.pragma = "error"
  BY <1>2, <1>3, CompileAssumption DEF NamedStage, GetDefaultStage, NoStageNamed
<1>5. NamedStage' = NamedStage /\ PreprocessorPassed' /\ Compiled' /\ NoStageNamed' = NoStageNamed
  BY <1>1, <1>2, <1>3 DEF NamedStage, PreprocessorPassed, as_errors, Compiled, NoStageNamed
<1>6. CASE NamedStage = "error"
  <2>1. pc' = "return" /\ local' = [local EXCEPT !.error_stream = TRUE]
    BY <1>4, <1>6 DEF DeduceStage, Return
  <2>2. /\ local' \in Locals /\ local'.error_stream /\ ~local'.succeeded
        /\ ~local'.deducer_error /\ local'.data = "none" /\ local'.size = "none"
        /\ local'.total_errors = 0 /\ local'.total_warnings = 0
    BY <1>1, <1>2, <2>1 DEF Locals
  <2>3. TypeOK' /\ CallTyped' /\ Entered' /\ Properties'
    BY <1>1, <2>1, <2>2, RunningStep
  <2>4. PassesDone' /\ LocalsSoFar'
    BY <2>1 DEF PassesDone, LocalsSoFar
  <2>5. SuccessReturned' /\ FailureReturned' /\ CountsReturned'
    BY <1>1, <1>4, <1>6, <2>2 DEF SuccessReturned, FailureReturned, CountsReturned
  <2>6. StageReturned'
    BY <1>4, <1>5, <1>6, <2>2, CompileAssumption DEF StageReturned
  <2>7. Returned'
    BY <2>2, <2>5, <2>6 DEF Returned
  <2> QED BY <2>3, <2>4, <2>7 DEF IInv
<1>7. CASE NamedStage = NoStage
  <2>1. /\ pc' = "return"
        /\ local' = [local EXCEPT !.used_shader_stage = NoStage, !.deducer_error = TRUE]
    <3>1. stage = NoStage /\ stage # "error" /\ (stage = NoStage) = TRUE
      BY <1>4, <1>7, CompileAssumption
    <3>2. /\ pc' = "return"
          /\ local' = [local EXCEPT !.used_shader_stage = stage,
                                    !.deducer_error = (stage = NoStage)]
      BY <3>1 DEF DeduceStage, Return
    <3> HIDE DEF stage
    <3> QED BY <3>1, <3>2
  <2>2. /\ local' \in Locals /\ ~local'.succeeded
        /\ local'.deducer_error /\ local'.data = "none" /\ local'.size = "none"
        /\ local'.total_errors = 0 /\ local'.total_warnings = 0
    BY <1>1, <1>2, <2>1 DEF Locals
  <2>3. TypeOK' /\ CallTyped' /\ Entered' /\ Properties'
    BY <1>1, <2>1, <2>2, RunningStep
  <2>4. PassesDone' /\ LocalsSoFar'
    BY <2>1 DEF PassesDone, LocalsSoFar
  <2>5. SuccessReturned' /\ FailureReturned' /\ CountsReturned'
    BY <2>2 DEF SuccessReturned, FailureReturned, CountsReturned
  <2>6. StageReturned'
    BY <1>4, <1>5, <1>7, <2>2 DEF StageReturned
  <2>7. Returned'
    BY <2>2, <2>5, <2>6 DEF Returned
  <2> QED BY <2>3, <2>4, <2>7 DEF IInv
<1>8. CASE NamedStage \in Stages
  <2>1. /\ pc' = "parse"
        /\ local' = [local EXCEPT !.used_shader_stage = NamedStage,
                                  !.deducer_error = FALSE]
    BY <1>4, <1>8, CompileAssumption DEF DeduceStage
  <2>2. /\ local' \in Locals /\ local'.used_shader_stage = NamedStage
        /\ ~local'.succeeded /\ ~local'.deducer_error
        /\ local'.data = "none" /\ local'.size = "none"
        /\ local'.total_errors = 0 /\ local'.total_warnings = 0
    BY <1>1, <1>2, <1>8, <2>1 DEF Locals
  <2>3. TypeOK' /\ CallTyped' /\ Entered' /\ Properties'
    BY <1>1, <2>1, <2>2, RunningStep
  <2>4. PassesDone'
    BY <1>1, <1>2, <1>5, <1>8, <2>1, <2>2 DEF PassesDone
  <2>5. LocalsSoFar' /\ Returned'
    BY <2>1, <2>2 DEF LocalsSoFar, Returned
  <2> QED BY <2>3, <2>4, <2>5 DEF IInv
<1> QED BY <1>4, <1>6, <1>7, <1>8

\* What the parser and the linker have in common: they only run in a compilation
\* whose stage is known, with nothing in the output data.
LEMMA PassStep ==
  ASSUME IInv, pc \in {"parse", "link"}, call' = call, result' = result,
         NEW log, LogTyped(log), log \in {call.parse, call.link},
         local' = Printed(log, as_errors, suppress),
         pc' \in Running \cup {"return"}
  PROVE  /\ TypeOK' /\ CallTyped' /\ Entered' /\ Properties'
         /\ local'.total_errors = NewErrors(log, as_errors, suppress)
         /\ local'.total_warnings =
              local.total_warnings + NewWarnings(log, as_errors, suppress)
         /\ ~local'.succeeded /\ ~local'.deducer_error
         /\ local'.data = "none" /\ local'.size = "none"
         /\ local'.used_shader_stage = NamedStage /\ NamedStage \in Stages
         /\ Compiled /\ (~NoStageNamed \/ call.kind.stage # NoStage)
         /\ ~Passed(log, as_errors, suppress) =>
              /\ local'.error_stream \/ Unsaid
              /\ local'.total_errors > 0 \/ Unsaid
         /\ suppress /\ local'.total_errors > 0 =>
              call.preprocess.errors + call.parse.errors + call.link.errors > 0
<1> USE DEF Running, FromHlsl, FromPreprocess, FromStage, FromParse, FromLink, FromCodegen
<1>1. /\ local \in Locals /\ as_errors \in BOOLEAN /\ suppress \in BOOLEAN
      /\ call.output # "Assembled" /\ call.output # "PreprocessedText"
      /\ call.output \in Outputs /\ local.used_shader_stage = NamedStage
      /\ NamedStage \in Stages
      /\ ~local.succeeded /\ ~local.deducer_error /\ local.data = "none"
      /\ local.size = "none" /\ local.total_errors = 0
  BY DEF IInv, TypeOK, CallTyped, PassesDone, LocalsSoFar, Entered
<1> DEFINE errors == NewErrors(log, as_errors, suppress)
           warnings == NewWarnings(log, as_errors, suppress)
<1>2. /\ local' \in Locals
      /\ local'.total_errors = local.total_errors + errors
      /\ local'.total_warnings = local.total_warnings + warnings
      /\ errors > 0 => local'.error_stream
      /\ local'.succeeded = local.succeeded
      /\ local'.deducer_error = local.deducer_error
      /\ local'.data = local.data /\ local'.size = local.size
      /\ local'.used_shader_stage = local.used_shader_stage
  BY <1>1, PrintedLocals
<1>3. /\ errors \in Nat
      /\ suppress => errors = log.errors
      /\ ~Passed(log, as_errors, suppress) => Silent(log) \/ errors > 0
  BY <1>1, NewCounts
<1>4. Compiled /\ (~NoStageNamed \/ call.kind.stage # NoStage)
  BY <1>1, CompileAssumption DEF Compiled, Outputs, NoStageNamed, NamedStage
<1>5. TypeOK' /\ CallTyped' /\ Entered' /\ Properties'
  BY <1>2, RunningStep
<1>6. Silent(log) => Unsaid
  BY DEF Unsaid
<1>7. /\ call.preprocess.errors \in Nat /\ call.parse.errors \in Nat
      /\ call.link.errors \in Nat
  BY DEF IInv, CallTyped, LogTyped
<1>8. log.errors \in {call.parse.errors, call.link.errors}
  OBVIOUS
<1>9. local.total_errors = 0
  BY <1>1
<1> HIDE DEF errors, warnings
<1>10. local'.total_errors = errors
  BY <1>2, <1>3, <1>9
<1>11. log.errors > 0 => call.preprocess.errors + call.parse.errors + call.link.errors > 0
  BY <1>7, <1>8
<1>12. suppress /\ local'.total_errors > 0 => log.errors > 0
  BY <1>3, <1>10
<1>13. ~Passed(log, as_errors, suppress) =>
         /\ local'.error_stream \/ Unsaid
         /\ local'.total_errors > 0 \/ Unsaid
  BY <1>2, <1>3, <1>6, <1>10
<1> QED BY <1>1, <1>2, <1>4, <1>5, <1>10, <1>11, <1>12, <1>13 DEF errors, warnings

LEMMA ParseStep == IInv /\ Parse => IInv'
<1> SUFFICES ASSUME IInv, Parse PROVE IInv'
  OBVIOUS
<1> USE DEF Running, FromHlsl, FromPreprocess, FromStage, FromParse, FromLink, FromCodegen
<1>1. /\ pc = "parse" /\ call' = call /\ result' = result
      /\ local' = Printed(call.parse, as_errors, suppress)
      /\ pc' = IF ParserPassed THEN "link" ELSE "return"
  BY DEF Parse, Return, ParserPassed, as_errors, suppress
<1>2. LogTyped(call.parse)
  BY DEF IInv, CallTyped
<1>3. pc' \in Running \cup {"return"} /\ pc \in {"parse", "link"}
  BY <1>1
<1>4. /\ TypeOK' /\ CallTyped' /\ Entered' /\ Properties'
      /\ local'.total_errors = NewErrors(call.parse, as_errors, suppress)
      /\ local'.total_warnings = local.total_warnings + ParserWarnings
      /\ ~local'.succeeded /\ ~local'.deducer_error
      /\ local'.data = "none" /\ local'.size = "none"
      /\ local'.used_shader_stage = NamedStage /\ NamedStage \in Stages
      /\ Compiled /\ (~NoStageNamed \/ call.kind.stage # NoStage)
      /\ ~ParserPassed => /\ local'.error_stream \/ Unsaid
                          /\ local'.total_errors > 0 \/ Unsaid
      /\ suppress /\ local'.total_errors > 0 =>
           call.preprocess.errors + call.parse.errors + call.link.errors > 0
  BY <1>1, <1>2, <1>3, PassStep DEF ParserPassed, ParserWarnings
<1>5. /\ ParserWarnings \in Nat
      /\ as_errors \/ suppress => ParserWarnings = 0
      /\ ParserPassed => NewErrors(call.parse, as_errors, suppress) = 0
  BY <1>2, NewCounts DEF ParserWarnings, ParserPassed, IInv, CallTyped
<1>6. local'.total_warnings = ParserWarnings
  <2>1. local.total_warnings = 0
    BY <1>1 DEF IInv, LocalsSoFar
  <2> QED BY <1>4, <1>5, <2>1
<1>7. /\ call.target_ok /\ call.language = "supported"
      /\ call.output # "PreprocessedText"
  BY <1>1 DEF IInv, PassesDone
<1>8. /\ NamedStage' = NamedStage /\ ParserPassed' = ParserPassed
      /\ ParserWarnings' = ParserWarnings /\ Unsaid' = Unsaid
      /\ as_errors' = as_errors /\ suppress' = suppress
  BY <1>1 DEF NamedStage, ParserPassed, ParserWarnings, Unsaid, as_errors, suppress
<1>9. CASE ParserPassed
  <2>1. pc' = "link"
    BY <1>1, <1>9
  <2>2. PassesDone'
    BY <1>1, <1>4, <1>7, <1>8, <1>9, <2>1 DEF PassesDone
  <2>3. LocalsSoFar' /\ Returned'
    BY <1>4, <1>5, <1>6, <1>8, <1>9, <2>1 DEF LocalsSoFar, Returned
  <2> QED BY <1>4, <2>2, <2>3 DEF IInv
<1>10. CASE ~ParserPassed
  <2>1. pc' = "return"
    BY <1>1, <1>10
  <2>2. PassesDone' /\ LocalsSoFar'
    BY <2>1 DEF PassesDone, LocalsSoFar
  <2>3. SuccessReturned' /\ FailureReturned'
    BY <1>4, <1>8, <1>10 DEF SuccessReturned, FailureReturned
  <2>4. CountsReturned'
    BY <1>1, <1>4, <1>5, <1>6, <1>8 DEF CountsReturned
  <2>5. StageReturned'
    <3>1. ~NoStageNamed
      BY <1>4 DEF NoStageNamed, IInv, CallTyped
    <3> QED BY <1>1, <1>4, <3>1 DEF StageReturned, NoStageNamed
  <2>6. Returned'
    BY <1>4, <2>3, <2>4, <2>5 DEF Returned
  <2> QED BY <1>4, <2>2, <2>6 DEF IInv
<1> QED BY <1>9, <1>10

LEMMA LinkStep == IInv /\ Link => IInv'
<1> SUFFICES ASSUME IInv, Link PROVE IInv'
  OBVIOUS
<1> USE DEF Running, FromHlsl, FromPreprocess, FromStage, FromParse, FromLink, FromCodegen
<1>1. /\ pc = "link" /\ call' = call /\ result' = result
      /\ local' = Printed(call.link, as_errors, suppress)
      /\ pc' = IF LinkerPassed THEN "codegen" ELSE "return"
  BY DEF Link, Return, LinkerPassed, as_errors, suppress
<1>2. LogTyped(call.link) /\ LogTyped(call.parse)
  BY DEF IInv, CallTyped
<1>3. pc' \in Running \cup {"return"} /\ pc \in {"parse", "link"}
  BY <1>1
<1>4. /\ TypeOK' /\ CallTyped' /\ Entered' /\ Properties'
      /\ local'.total_errors = NewErrors(call.link, as_errors, suppress)
      /\ local'.total_warnings = local.total_warnings + LinkerWarnings
      /\ ~local'.succeeded /\ ~local'.deducer_error
      /\ local'.data = "none" /\ local'.size = "none"
      /\ local'.used_shader_stage = NamedStage /\ NamedStage \in Stages
      /\ Compiled /\ (~NoStageNamed \/ call.kind.stage # NoStage)
      /\ ~LinkerPassed => /\ local'.error_stream \/ Unsaid
                          /\ local'.total_errors > 0 \/ Unsaid
      /\ suppress /\ local'.total_errors > 0 =>
           call.preprocess.errors + call.parse.errors + call.link.errors > 0
  BY <1>1, <1>2, <1>3, PassStep DEF LinkerPassed, LinkerWarnings
<1>5. /\ ParserWarnings \in Nat /\ LinkerWarnings \in Nat
      /\ as_errors \/ suppress => ParserWarnings = 0 /\ LinkerWarnings = 0
      /\ LinkerPassed => NewErrors(call.link, as_errors, suppress) = 0
  BY <1>2, NewCounts DEF ParserWarnings, LinkerWarnings, LinkerPassed, IInv, CallTyped
<1>6. local'.total_warnings = ParserWarnings + LinkerWarnings
  <2>1. local.total_warnings = ParserWarnings
    BY <1>1 DEF IInv, LocalsSoFar
  <2> QED BY <1>4, <2>1
<1>7. /\ call.target_ok /\ call.language = "supported"
      /\ call.output # "PreprocessedText" /\ ParserPassed
  BY <1>1 DEF IInv, PassesDone
<1>8. /\ NamedStage' = NamedStage /\ ParserPassed' = ParserPassed
      /\ LinkerPassed' = LinkerPassed /\ LinkerWarnings' = LinkerWarnings
      /\ ParserWarnings' = ParserWarnings /\ Unsaid' = Unsaid
      /\ as_errors' = as_errors /\ suppress' = suppress
  BY <1>1 DEF NamedStage, ParserPassed, ParserWarnings, LinkerPassed, LinkerWarnings,
              Unsaid, as_errors, suppress
<1>9. CASE LinkerPassed
  <2>1. pc' = "codegen"
    BY <1>1, <1>9
  <2>2. PassesDone'
    BY <1>1, <1>4, <1>7, <1>8, <1>9, <2>1 DEF PassesDone
  <2>3. LocalsSoFar' /\ Returned'
    <3>1. local'.total_errors = 0
      BY <1>4, <1>5, <1>9
    <3>2. local'.total_warnings = (ParserWarnings + LinkerWarnings)'
      BY <1>6, <1>8
    <3> QED BY <1>4, <2>1, <3>1, <3>2 DEF LocalsSoFar, Returned
  <2> QED BY <1>4, <2>2, <2>3 DEF IInv
<1>10. CASE ~LinkerPassed
  <2>1. pc' = "return"
    BY <1>1, <1>10
  <2>2. PassesDone' /\ LocalsSoFar'
    BY <2>1 DEF PassesDone, LocalsSoFar
  <2>3. SuccessReturned' /\ FailureReturned'
    BY <1>4, <1>8, <1>10 DEF SuccessReturned, FailureReturned
  <2>4. CountsReturned'
    <3>1. as_errors \/ suppress => local'.total_warnings = 0
      BY <1>5, <1>6
    <3> QED BY <1>1, <1>4, <1>8, <3>1 DEF CountsReturned
  <2>5. StageReturned'
    <3>1. ~NoStageNamed
      BY <1>4 DEF NoStageNamed, IInv, CallTyped
    <3> QED BY <1>1, <1>4, <3>1 DEF StageReturned, NoStageNamed
  <2>6. Returned'
    BY <1>4, <2>3, <2>4, <2>5 DEF Returned
  <2> QED BY <1>4, <2>2, <2>6 DEF IInv
<1> QED BY <1>9, <1>10

\* What is known in the places behind the linker.
LinkedFacts ==
  /\ call.target_ok /\ call.language = "supported" /\ call.output # "PreprocessedText"
  /\ local.used_shader_stage = NamedStage /\ NamedStage \in Stages
  /\ ParserPassed /\ LinkerPassed
  /\ ~local.succeeded /\ ~local.deducer_error
  /\ local.size = "none" /\ local.total_errors = 0
  /\ local.total_warnings = ParserWarnings + LinkerWarnings
  /\ ParserWarnings \in Nat /\ LinkerWarnings \in Nat
  /\ as_errors \/ suppress => local.total_warnings = 0
  /\ Compiled /\ ~NoStageNamed

LEMMA Linked ==
  ASSUME IInv, pc \in FromCodegen
  PROVE  LinkedFacts
<1> USE DEF Running, FromHlsl, FromPreprocess, FromStage, FromParse, FromLink, FromCodegen
<1>1. /\ call.target_ok /\ call.language = "supported"
      /\ call.output # "PreprocessedText"
      /\ local.used_shader_stage = NamedStage /\ NamedStage \in Stages
      /\ ParserPassed /\ LinkerPassed
  BY DEF IInv, PassesDone
<1>2. /\ ~local.succeeded /\ ~local.deducer_error
      /\ local.size = "none" /\ local.total_errors = 0
      /\ local.total_warnings = ParserWarnings + LinkerWarnings
  BY DEF IInv, LocalsSoFar
<1>3. /\ ParserWarnings \in Nat /\ LinkerWarnings \in Nat
      /\ as_errors \/ suppress => ParserWarnings = 0 /\ LinkerWarnings = 0
  BY NewCounts DEF ParserWarnings, LinkerWarnings, IInv, CallTyped
<1>4. as_errors \/ suppress => local.total_warnings = 0
  BY <1>2, <1>3
<1>5. Compiled /\ ~NoStageNamed
  BY <1>1, CompileAssumption
     DEF IInv, CallTyped, Entered, Compiled, Outputs, NoStageNamed, NamedStage
<1> QED BY <1>1, <1>2, <1>3, <1>4, <1>5 DEF LinkedFacts

LEMMA GenerateStep == IInv /\ Generate => IInv'
<1> SUFFICES ASSUME IInv, Generate PROVE IInv'
  OBVIOUS
<1> USE DEF Running, FromHlsl, FromPreprocess, FromStage, FromParse, FromLink, FromCodegen
<1>1. /\ pc = "codegen" /\ call' = call /\ result' = result /\ pc' = "optimize"
      /\ local' = [local EXCEPT !.data = "spirv"] /\ local \in Locals
  BY DEF Generate, IInv, TypeOK
<1>2. /\ local' \in Locals /\ local'.data = "spirv"
      /\ local'.used_shader_stage = local.used_shader_stage
      /\ local'.succeeded = local.succeeded
      /\ local'.deducer_error = local.deducer_error /\ local'.size = local.size
      /\ local'.total_errors = local.total_errors
      /\ local'.total_warnings = local.total_warnings
  BY <1>1 DEF Locals, Data
<1>3. LinkedFacts
  BY <1>1, Linked
<1>4. TypeOK' /\ CallTyped' /\ Entered' /\ Properties'
  BY <1>1, <1>2, RunningStep
<1>5. /\ NamedStage' = NamedStage /\ ParserPassed' = ParserPassed
      /\ LinkerPassed' = LinkerPassed /\ LinkerWarnings' = LinkerWarnings
      /\ ParserWarnings' = ParserWarnings
  BY <1>1 DEF NamedStage, ParserPassed, ParserWarnings, LinkerPassed, LinkerWarnings,
              as_errors, suppress
<1>6. PassesDone'
  BY <1>1, <1>2, <1>3, <1>5 DEF PassesDone, LinkedFacts
<1>7. LocalsSoFar' /\ Returned'
  BY <1>1, <1>2, <1>3, <1>5 DEF LocalsSoFar, Returned, LinkedFacts
<1> QED BY <1>4, <1>6, <1>7 DEF IInv

LEMMA OptimizeStep ==
  ASSUME NEW ok \in BOOLEAN, IInv, Optimize(ok)
  PROVE  IInv'
<1> USE DEF Running, FromHlsl, FromPreprocess, FromStage, FromParse, FromLink, FromCodegen
<1>1. /\ pc = "optimize" /\ call' = call /\ result' = result /\ local \in Locals
      /\ local.data \in {"spirv", "optimized"}
  BY DEF Optimize, IInv, TypeOK, LocalsSoFar
<1>2. LinkedFacts
  BY <1>1, Linked
<1>3. /\ NamedStage' = NamedStage /\ ParserPassed' = ParserPassed
      /\ LinkerPassed' = LinkerPassed /\ LinkerWarnings' = LinkerWarnings
      /\ ParserWarnings' = ParserWarnings
  BY <1>1 DEF NamedStage, ParserPassed, ParserWarnings, LinkerPassed, LinkerWarnings,
              as_errors, suppress
<1>4. CASE ~call.passes \/ ok
  <2>1. /\ pc' = "disassemble"
        /\ local' = local \/ local' = [local EXCEPT !.data = "optimized"]
    BY <1>4 DEF Optimize
  <2>2. /\ local' \in Locals /\ local'.data \in {"spirv", "optimized"}
        /\ local'.used_shader_stage = local.used_shader_stage
        /\ local'.succeeded = local.succeeded
        /\ local'.deducer_error = local.deducer_error /\ local'.size = local.size
        /\ local'.total_errors = local.total_errors
        /\ local'.total_warnings = local.total_warnings
    BY <1>1, <2>1 DEF Locals, Data
  <2>3. TypeOK' /\ CallTyped' /\ Entered' /\ Properties'
    BY <1>1, <2>1, <2>2, RunningStep
  <2>4. PassesDone'
    BY <1>1, <1>2, <1>3, <2>1, <2>2 DEF PassesDone, LinkedFacts
  <2>5. LocalsSoFar' /\ Returned'
    BY <1>1, <1>2, <1>3, <2>1, <2>2 DEF LocalsSoFar, Returned, LinkedFacts
  <2> QED BY <2>3, <2>4, <2>5 DEF IInv
<1>5. CASE call.passes /\ ~ok
  <2>1. pc' = "return" /\ local' = [local EXCEPT !.error_stream = TRUE]
    BY <1>5 DEF Optimize, Return
  <2>2. /\ local' \in Locals /\ local'.data = local.data /\ local'.error_stream
        /\ ~local'.succeeded /\ ~local'.deducer_error /\ local'.size = "none"
        /\ local'.total_errors = 0 /\ local'.total_warnings = local.total_warnings
    BY <1>1, <1>2, <2>1 DEF Locals, LinkedFacts
  <2>3. TypeOK' /\ CallTyped' /\ Entered' /\ Properties'
    BY <1>1, <2>1, <2>2, RunningStep
  <2>4. PassesDone' /\ LocalsSoFar'
    BY <2>1 DEF PassesDone, LocalsSoFar
  <2>5. SuccessReturned' /\ FailureReturned'
    BY <1>1, <2>2 DEF SuccessReturned, FailureReturned
  <2>6. CountsReturned'
    BY <1>1, <1>2, <2>2 DEF CountsReturned, LinkedFacts, as_errors, suppress
  <2>7. StageReturned'
    BY <1>1, <1>2, <2>2 DEF StageReturned, LinkedFacts, NoStageNamed
  <2>8. Returned'
    BY <1>1, <2>2, <2>5, <2>6, <2>7 DEF Returned
  <2> QED BY <2>3, <2>4, <2>8 DEF IInv
<1> QED BY <1>4, <1>5

LEMMA DisassembleStep ==
  ASSUME NEW ok \in BOOLEAN, IInv, Disassemble(ok)
  PROVE  IInv'
<1> USE DEF Running, FromHlsl, FromPreprocess, FromStage, FromParse, FromLink, FromCodegen
<1>1. /\ pc = "disassemble" /\ call' = call /\ result' = result /\ pc' = "return"
      /\ local \in Locals /\ local.data \in {"spirv", "optimized"}
  BY DEF Disassemble, Return, IInv, TypeOK, LocalsSoFar
<1>2. LinkedFacts
  BY <1>1, Linked
<1>3. /\ NamedStage' = NamedStage /\ ParserPassed' = ParserPassed
      /\ LinkerPassed' = LinkerPassed /\ LinkerWarnings' = LinkerWarnings
      /\ ParserWarnings' = ParserWarnings /\ Compiled' = Compiled
      /\ NoStageNamed' = NoStageNamed
  BY <1>1 DEF NamedStage, ParserPassed, ParserWarnings, LinkerPassed, LinkerWarnings,
              as_errors, suppress, Compiled, NoStageNamed
<1>4. PassesDone' /\ LocalsSoFar'
  BY <1>1 DEF PassesDone, LocalsSoFar
<1>5. /\ local' \in Locals /\ ~local'.deducer_error /\ local'.total_errors = 0
      /\ local'.total_warnings = local.total_warnings
      /\ local'.used_shader_stage = local.used_shader_stage
      /\ local'.data # "assembled"
      /\ local'.size = IF local'.succeeded THEN local'.data ELSE "none"
      /\ local'.data # "error_text"
      /\ local'.succeeded =>
           (local'.data = "text" <=> call.output = "SpirvAssemblyText")
      /\ ~local'.succeeded =>
           local'.error_stream /\ local'.data \in {"spirv", "optimized"}
  <2>1. CASE call.output # "SpirvAssemblyText"
    <3>1. local' = [local EXCEPT !.succeeded = TRUE, !.size = local.data]
      BY <2>1 DEF Disassemble
    <3> QED BY <1>1, <1>2, <2>1, <3>1 DEF Locals, Data, LinkedFacts
  <2>2. CASE call.output = "SpirvAssemblyText" /\ ok
    <3>1. local' = [local EXCEPT !.succeeded = TRUE, !.data = "text", !.size = "text"]
      BY <2>2 DEF Disassemble
    <3> QED BY <1>1, <1>2, <2>2, <3>1 DEF Locals, Data, LinkedFacts
  <2>3. CASE call.output = "SpirvAssemblyText" /\ ~ok
    <3>1. local' = [local EXCEPT !.error_stream = TRUE]
      BY <2>3 DEF Disassemble
    <3> QED BY <1>1, <1>2, <2>3, <3>1 DEF Locals, Data, LinkedFacts
  <2> QED BY <2>1, <2>2, <2>3
<1>6. TypeOK' /\ CallTyped' /\ Entered' /\ Properties'
  BY <1>1, <1>5, RunningStep
<1>7. SuccessReturned'
  BY <1>1, <1>2, <1>3, <1>5 DEF SuccessReturned, LinkedFacts, Compiled
<1>8. FailureReturned'
  BY <1>5 DEF FailureReturned
<1>9. CountsReturned'
  BY <1>1, <1>2, <1>5 DEF CountsReturned, LinkedFacts, as_errors, suppress
<1>10. StageReturned'
  BY <1>2, <1>3, <1>5 DEF StageReturned, LinkedFacts
<1>11. Returned'
  BY <1>5, <1>7, <1>8, <1>9, <1>10 DEF Returned
<1> QED BY <1>4, <1>6, <1>11 DEF IInv

\* Where there is no pass under way, only the result is left to look at.
LEMMA OutsideStep ==
  ASSUME IInv, call' = call, pc' \in {"idle", "done"}, local' \in Locals,
         result' \in Results, Properties'
  PROVE  IInv'
<1>1. TypeOK'
  BY DEF IInv, TypeOK
<1>2. CallTyped'
  BY DEF IInv, CallTyped, as_errors, suppress, LogTyped
<1>3. Entered' /\ PassesDone' /\ LocalsSoFar' /\ Returned'
  BY DEF Entered, PassesDone, LocalsSoFar, Returned, Running, FromHlsl, FromPreprocess,
         FromStage, FromParse, FromLink, FromCodegen
<1> QED BY <1>1, <1>2, <1>3 DEF IInv

LEMMA Fresh ==
  /\ FreshResult \in Results
  /\ \A stage \in Stages \cup {NoStage} : FreshLocals(stage) \in Locals
BY DEF FreshResult, Results, Statuses, Data, FreshLocals, Locals

LEMMA FinishStep == IInv /\ Finish => IInv'
<1> SUFFICES ASSUME IInv, Finish PROVE IInv'
  OBVIOUS
<1>1. /\ pc = "return" /\ pc' = "done" /\ call' = call /\ local' = local
      /\ local \in Locals
      /\ result' =
           [status |-> IF local.succeeded THEN "success"
                       ELSE IF local.deducer_error THEN "invalid_stage"
                       ELSE "compilation_error",
            data |-> local.data, size |-> local.size,
            num_warnings |-> local.total_warnings,
            num_errors |-> local.total_errors, messages |-> local.error_stream]
  BY DEF Finish, IInv, TypeOK
<1>2. /\ call.file_name /\ call.initializer /\ call.output # "Assembled" /\ call.source
      /\ call.output \in Outputs
  BY <1>1 DEF IInv, Entered, CallTyped
<1>3. result' \in Results
  BY <1>1 DEF Locals, Results, Statuses
<1>4. /\ local.size = IF local.succeeded \/ local.data = "error_text"
                      THEN local.data ELSE "none"
      /\ local.data # "assembled"
      /\ SuccessReturned /\ FailureReturned /\ CountsReturned /\ StageReturned
  BY <1>1 DEF IInv, Returned
<1>5. /\ Compiled' = Compiled /\ NoStageNamed' = NoStageNamed
      /\ GetsToStage' = GetsToStage /\ Unsaid' = Unsaid /\ Done'
  BY <1>1 DEF Compiled, NoStageNamed, GetsToStage, Unsaid, Done
<1>6. SuccessIsEarned'
  <2>1. SUFFICES ASSUME local.succeeded PROVE SuccessIsEarned'
    BY <1>1 DEF SuccessIsEarned, Succeeded
  <2>2. /\ IF Compiled THEN call.parse.ok /\ call.link.ok ELSE call.preprocess.ok
        /\ Compiled => local.used_shader_stage # NoStage
    BY <1>4, <2>1, CompileAssumption
       DEF SuccessReturned, ParserPassed, LinkerPassed, PreprocessorPassed, Passed
  <2>3. /\ local.total_errors = 0 /\ call.target_ok
        /\ call.language # "hlsl_not_built_in"
        /\ local.data = "text" <=>
             call.output \in {"SpirvAssemblyText", "PreprocessedText"}
    BY <1>4, <2>1 DEF SuccessReturned
  <2> QED BY <1>1, <1>2, <1>4, <1>5, <2>2, <2>3 DEF SuccessIsEarned
<1>7. LengthDescribesOutput'
  BY <1>1, <1>4 DEF LengthDescribesOutput
<1>8. WarningPolicy'
  <2>1. /\ as_errors \/ suppress => local.total_warnings = 0
        /\ suppress /\ local.total_errors > 0 =>
             \/ ~call.target_ok
             \/ call.preprocess.errors + call.parse.errors + call.link.errors > 0
    BY <1>4 DEF CountsReturned
  <2>2. local.succeeded /\ Compiled =>
          /\ ParserPassed /\ LinkerPassed
          /\ local.total_warnings = ParserWarnings + LinkerWarnings
    BY <1>4 DEF SuccessReturned
  <2>3. LogTyped(call.parse) /\ LogTyped(call.link)
    BY DEF IInv, CallTyped
  <2>4. ASSUME local.succeeded, Compiled, as_errors, ~suppress
        PROVE  call.parse.warnings + call.link.warnings = 0
    <3>1. /\ NewErrors(call.parse, as_errors, suppress) = 0
          /\ NewErrors(call.link, as_errors, suppress) = 0
      BY <2>2, <2>4 DEF ParserPassed, LinkerPassed, Passed
    <3>2. call.parse.warnings = 0 /\ call.link.warnings = 0
      BY <2>3, <2>4, <3>1 DEF NewErrors, LogTyped
    <3> QED BY <3>2
  <2>5. ASSUME local.succeeded, Compiled, ~as_errors, ~suppress
        PROVE  local.total_warnings = call.parse.warnings + call.link.warnings
    BY <2>2, <2>5 DEF ParserWarnings, LinkerWarnings, NewWarnings
  <2>6. result'.status = "success" <=> local.succeeded
    BY <1>1
  <2>7. /\ result'.num_warnings = local.total_warnings
        /\ result'.num_errors = local.total_errors
    BY <1>1
  <2> QED BY <1>1, <1>5, <2>1, <2>4, <2>5, <2>6, <2>7
          DEF WarningPolicy, Succeeded, as_errors, suppress
<1>9. StageIsDecided'
  <2>1. local.succeeded /\ Compiled => local.used_shader_stage = NamedStage
    BY <1>4 DEF SuccessReturned
  <2>2. /\ result'.status = "success" <=> local.succeeded
        /\ result'.status = "invalid_stage" <=> ~local.succeeded /\ local.deducer_error
    BY <1>1
  <2>3. /\ local.deducer_error => Compiled /\ NoStageNamed
        /\ Compiled /\ NoStageNamed /\ GetsToStage => local.deducer_error
        /\ local.succeeded => ~local.deducer_error
    BY <1>4 DEF StageReturned, SuccessReturned
  <2>4. (Succeeded /\ Compiled =>
          local.used_shader_stage =
            CASE call.kind.how = "forced" -> call.kind.stage
              [] call.kind.how # "forced" /\ call.pragma # NoStage -> call.pragma
              [] OTHER -> call.kind.stage)'
    BY <1>1, <1>5, <2>1, <2>2 DEF NamedStage, Succeeded
  <2> QED BY <1>1, <1>5, <2>2, <2>3, <2>4 DEF StageIsDecided
<1>10. FailureIsExplained'
  BY <1>1, <1>4, <1>5 DEF FailureIsExplained, FailureReturned, Uncounted
<1> QED BY <1>1, <1>3, <1>6, <1>7, <1>8, <1>9, <1>10, OutsideStep DEF Properties

LEMMA ThrowStep == IInv /\ Throw => IInv'
<1> SUFFICES ASSUME IInv, Throw PROVE IInv'
  OBVIOUS
<1>1. /\ pc \in Running /\ pc' = "done" /\ call' = call /\ local' = local
      /\ local' \in Locals /\ result' = [result EXCEPT !.status = "internal_error"]
  BY DEF Throw, IInv, TypeOK, Running, FromHlsl, FromPreprocess, FromStage, FromParse,
         FromLink, FromCodegen
<1>2. result = [FreshResult EXCEPT !.status = "invalid_stage"]
  BY <1>1 DEF IInv, Entered
<1>3. /\ result' \in Results /\ result'.status = "internal_error"
      /\ result'.data = "none" /\ result'.size = "none"
      /\ result'.num_warnings = 0 /\ result'.num_errors = 0
  BY <1>1, <1>2 DEF FreshResult, Results, Statuses, Data
<1>4. Properties'
  BY <1>3 DEF Properties, SuccessIsEarned, LengthDescribesOutput, WarningPolicy,
              StageIsDecided, FailureIsExplained, Succeeded
<1> QED BY <1>1, <1>3, <1>4, OutsideStep

LEMMA NextCallStep == IInv /\ NextCall => IInv'
<1> SUFFICES ASSUME IInv, NextCall PROVE IInv'
  OBVIOUS
<1>1. /\ pc' = "idle" /\ call' = call /\ local' \in Locals /\ result' \in Results
  BY Fresh DEF NextCall
<1>2. Properties'
  BY <1>1 DEF Properties, SuccessIsEarned, LengthDescribesOutput, WarningPolicy,
              StageIsDecided, FailureIsExplained, Succeeded, Done
<1> QED BY <1>1, <1>2, OutsideStep

LEMMA EnterStep == IInv /\ Enter => IInv'
<1> SUFFICES ASSUME IInv, Enter PROVE IInv'
  OBVIOUS
<1>1. /\ call' = call /\ call.output # "Assembled"
      /\ local' = FreshLocals(GetForcedStage(call.kind))
  BY DEF Enter
<1>2. GetForcedStage(call.kind) \in Stages \cup {NoStage}
  BY DEF IInv, CallTyped, GetForcedStage
<1>3. local' \in Locals
  BY <1>1, <1>2, Fresh
<1>4. CASE ~call.file_name
  <2>1. /\ pc' = "done"
        /\ result' = [FreshResult EXCEPT !.status = "compilation_error",
                                         !.num_errors = 1, !.messages = TRUE]
    BY <1>4 DEF Enter
  <2>2. /\ result' \in Results /\ result'.status = "compilation_error"
        /\ result'.num_errors = 1 /\ result'.num_warnings = 0 /\ result'.messages
        /\ result'.data = "none" /\ result'.size = "none"
    BY <2>1 DEF FreshResult, Results, Statuses, Data
  <2>3. SuccessIsEarned' /\ LengthDescribesOutput' /\ FailureIsExplained'
    BY <2>2 DEF SuccessIsEarned, LengthDescribesOutput, FailureIsExplained, Succeeded
  <2>4. WarningPolicy'
    BY <1>1, <1>4, <2>2 DEF WarningPolicy, Succeeded
  <2>5. StageIsDecided'
    <3>1. ~GetsToStage'
      BY <1>1, <1>4 DEF GetsToStage
    <3> QED BY <2>2, <3>1 DEF StageIsDecided, Succeeded
  <2>6. Properties'
    BY <2>3, <2>4, <2>5 DEF Properties
  <2> QED BY <1>1, <1>3, <2>1, <2>2, <2>6, OutsideStep
<1>5. CASE call.file_name
  <2>1. /\ result' = [FreshResult EXCEPT !.status = "invalid_stage"]
        /\ pc' = IF call.initializer THEN "target" ELSE "done"
    BY <1>5 DEF Enter
  <2>2. /\ result' \in Results /\ result'.status = "invalid_stage"
        /\ result'.num_errors = 0 /\ result'.num_warnings = 0
        /\ result'.data = "none" /\ result'.size = "none"
    BY <2>1 DEF FreshResult, Results, Statuses, Data
  <2>3. Properties'
    <3>1. ~call.initializer \/ ~Done'
      BY <2>1 DEF Done
    <3> QED BY <1>1, <2>2, <3>1
            DEF Properties, SuccessIsEarned, LengthDescribesOutput, WarningPolicy,
                StageIsDecided, FailureIsExplained, Succeeded
  <2>4. CASE ~call.initializer
    BY <1>1, <1>3, <2>1, <2>2, <2>3, <2>4, OutsideStep
  <2>5. CASE call.initializer
    <3> USE DEF Running, FromHlsl, FromPreprocess, FromStage, FromParse, FromLink,
                FromCodegen
    <3>1. pc' = "target"
      BY <2>1, <2>5
    <3>2. TypeOK' /\ CallTyped'
      BY <1>1, <1>3, <2>2, <3>1 DEF IInv, TypeOK, CallTyped, as_errors, suppress, LogTyped
    <3>3. Entered' /\ PassesDone'
      BY <1>1, <1>5, <2>1, <2>5, <3>1 DEF Entered, PassesDone, FreshLocals, FreshResult
    <3>4. LocalsSoFar' /\ Returned'
      BY <1>1, <3>1 DEF LocalsSoFar, Returned, FreshLocals
    <3> QED BY <2>3, <3>2, <3>3, <3>4 DEF IInv
  <2> QED BY <2>4, <2>5 DEF IInv, CallTyped
<1> QED BY <1>4, <1>5 DEF IInv, CallTyped

\* What both ends of an assembly call rest on.
LEMMA AssemblyStep ==
  ASSUME IInv, call.output = "Assembled", call' = call, local' = local, pc' = "done",
         result' \in Results, result'.num_warnings = 0,
         \/ /\ result'.status = "success" /\ result'.num_errors = 0
            /\ result'.data = "assembled" /\ result'.size = "assembled"
            /\ call.initializer /\ call.source
         \/ /\ result'.status \in {"invalid_assembly", "internal_error"}
            /\ result'.data = "none" /\ result'.size = "none"
            /\ result'.status = "invalid_assembly" /\ call.initializer /\ call.source =>
                 result'.messages /\ result'.num_errors = 1
  PROVE  IInv'
<1>1. ~Compiled' /\ call.target_ok /\ call.language = "supported" /\ call.preprocess.ok
  BY DEF Compiled, IInv, CallTyped
<1>2. Properties'
  BY <1>1 DEF Properties, SuccessIsEarned, LengthDescribesOutput, WarningPolicy,
              StageIsDecided, FailureIsExplained, Succeeded
<1> QED BY <1>2, OutsideStep DEF IInv, TypeOK

LEMMA AssembleStep ==
  ASSUME NEW ok \in BOOLEAN, IInv, Assemble(ok)
  PROVE  IInv'
BY AssemblyStep DEF Assemble, FreshResult, Results, Statuses, Data

LEMMA ThrowAssemblingStep == IInv /\ ThrowAssembling => IInv'
<1> SUFFICES ASSUME IInv, ThrowAssembling PROVE IInv'
  OBVIOUS
<1>1. /\ result' \in Results /\ result'.status = "internal_error"
      /\ result'.data = "none" /\ result'.size = "none" /\ result'.num_warnings = 0
  BY DEF ThrowAssembling, FreshResult, Results, Statuses, Data
<1> QED BY <1>1, AssemblyStep DEF ThrowAssembling

-----------------------------------------------------------------------------
(* The theorems.                                                           *)

LEMMA InitIInv == Init => IInv
<1> SUFFICES ASSUME Init PROVE IInv
  OBVIOUS
<1>1. TypeOK /\ CallTyped
  BY Fresh, CallsTyped DEF Init, TypeOK
<1>2. Entered /\ PassesDone /\ LocalsSoFar /\ Returned
  BY DEF Init, Entered, PassesDone, LocalsSoFar, Returned, Running, FromHlsl,
         FromPreprocess, FromStage, FromParse, FromLink, FromCodegen
<1>3. Properties
  BY DEF Init, Properties, SuccessIsEarned, LengthDescribesOutput, WarningPolicy,
         StageIsDecided, FailureIsExplained, Succeeded, Done
<1> QED BY <1>1, <1>2, <1>3 DEF IInv

LEMMA StutterStep == IInv /\ UNCHANGED vars => IInv'
<1> SUFFICES ASSUME IInv, UNCHANGED vars PROVE IInv'
  OBVIOUS
<1>1. /\ pc' = pc /\ call' = call /\ local' = local /\ result' = result
  BY DEF vars
<1>2. TypeOK' /\ CallTyped' /\ Entered'
  BY <1>1 DEF IInv, TypeOK, CallTyped, Entered, as_errors, suppress
<1>3. /\ NeedsPreprocessing' = NeedsPreprocessing /\ NamedStage' = NamedStage
      /\ PreprocessorPassed' = PreprocessorPassed /\ ParserPassed' = ParserPassed
      /\ LinkerPassed' = LinkerPassed /\ ParserWarnings' = ParserWarnings
      /\ LinkerWarnings' = LinkerWarnings
  BY <1>1 DEF NeedsPreprocessing, PreprocessorPassed, NamedStage, ParserPassed,
              LinkerPassed, ParserWarnings, LinkerWarnings, as_errors, suppress
<1>4. PassesDone' /\ LocalsSoFar'
  <2>1. PassesDone'
    BY <1>1, <1>3 DEF IInv, PassesDone
  <2>2. LocalsSoFar'
    BY <1>1, <1>3 DEF IInv, LocalsSoFar
  <2> QED BY <2>1, <2>2
<1>5. Returned'
  BY <1>1 DEF IInv, Returned, SuccessReturned, FailureReturned, CountsReturned,
              StageReturned, Compiled, NamedStage, ParserPassed, LinkerPassed,
              PreprocessorPassed, ParserWarnings, LinkerWarnings, Unsaid,
              NoStageNamed, GetsToStage, as_errors, suppress
<1>6. /\ Succeeded' = Succeeded /\ Done' = Done /\ Compiled' = Compiled
      /\ NoStageNamed' = NoStageNamed /\ GetsToStage' = GetsToStage
      /\ Unsaid' = Unsaid /\ Uncounted' = Uncounted
  BY <1>1 DEF Succeeded, Done, Compiled, NoStageNamed, GetsToStage, Unsaid, Uncounted
<1>7. Properties'
  <2>1. SuccessIsEarned'
    BY <1>1, <1>6 DEF IInv, Properties, SuccessIsEarned
  <2>2. LengthDescribesOutput'
    BY <1>1, <1>6 DEF IInv, Properties, LengthDescribesOutput
  <2>3. WarningPolicy'
    BY <1>1, <1>6 DEF IInv, Properties, WarningPolicy
  <2>4. StageIsDecided'
    BY <1>1, <1>6 DEF IInv, Properties, StageIsDecided
  <2>5. FailureIsExplained'
    BY <1>1, <1>6 DEF IInv, Properties, FailureIsExplained
  <2> QED BY <2>1, <2>2, <2>3, <2>4, <2>5 DEF Properties
<1> QED BY <1>2, <1>4, <1>5, <1>7 DEF IInv

\* The invariant is inductive.
THEOREM Inductive == IInv /\ [Next]_vars => IInv'
<1> SUFFICES ASSUME IInv, [Next]_vars PROVE IInv'
  OBVIOUS
<1>1. CASE Enter \/ CheckTarget \/ CheckLanguage \/ Preprocess \/ DeduceStage
  BY <1>1, EnterStep, CheckTargetStep, CheckLanguageStep, PreprocessStep, DeduceStageStep
<1>2. CASE Parse \/ Link \/ Generate \/ Finish \/ Throw \/ NextCall \/ ThrowAssembling
  BY <1>2, ParseStep, LinkStep, GenerateStep, FinishStep, ThrowStep, NextCallStep,
     ThrowAssemblingStep
<1>3. CASE \E ok \in BOOLEAN : Optimize(ok) \/ Disassemble(ok) \/ Assemble(ok)
  BY <1>3, OptimizeStep, DisassembleStep, AssembleStep
<1>4. CASE UNCHANGED vars
  BY <1>4, StutterStep
<1> QED BY <1>1, <1>2, <1>3, <1>4 DEF Next

\* In every state of every call the invariant holds.
THEOREM Invariance == Spec => []IInv
<1>1. Init => IInv
  BY InitIInv
<1>2. IInv /\ [Next]_vars => IInv'
  BY Inductive
<1> QED BY <1>1, <1>2, PTL DEF Spec

\* The state has its type.
THEOREM TypeCorrect == Spec => []TypeOK
<1>1. IInv => TypeOK
  BY DEF IInv
<1> QED BY <1>1, Invariance, PTL

\* A success of shaderc_compile_into_* or shaderc_assemble_into_spv is the work
\* of passes that all succeeded, and has the output that was asked for.
THEOREM SuccessCorrect == Spec => []SuccessIsEarned
<1>1. IInv => SuccessIsEarned
  BY DEF IInv, Properties
<1> QED BY <1>1, Invariance, PTL

\* shaderc_result_get_length describes the output, after a failure too.
THEOREM LengthCorrect == Spec => []LengthDescribesOutput
<1>1. IInv => LengthDescribesOutput
  BY DEF IInv, Properties
<1> QED BY <1>1, Invariance, PTL

\* -Werror and -w do what they say, and no warning is counted twice.
THEOREM WarningsCorrect == Spec => []WarningPolicy
<1>1. IInv => WarningPolicy
  BY DEF IInv, Properties
<1> QED BY <1>1, Invariance, PTL

\* The kind, the pragmas and the default decide the stage in that order, and
\* invalid_stage means that none of them did.
THEOREM StageCorrect == Spec => []StageIsDecided
<1>1. IInv => StageIsDecided
  BY DEF IInv, Properties
<1> QED BY <1>1, Invariance, PTL

\* A failed call says why and counts its errors, but for the passes that print
\* without counting and for a glslang that says nothing.
THEOREM FailuresExplained == Spec => []FailureIsExplained
<1>1. IInv => FailureIsExplained
  BY DEF IInv, Properties
<1> QED BY <1>1, Invariance, PTL

\* Only a failed assembly leaves a client without bytes to read: what
\* BytesAreReadable is violated by, and what a client that looks at the status
\* first does not meet.
THEOREM SuccessHasBytes ==
  Spec => [](~ BytesAreReadable => call.output = "Assembled" /\ result.status # "success")
<1>1. IInv => (~ BytesAreReadable => call.output = "Assembled" /\ result.status # "success")
  BY DEF IInv, Properties, SuccessIsEarned, Succeeded, BytesAreReadable, BytesReadable
<1> QED BY <1>1, Invariance, PTL

-----------------------------------------------------------------------------
(* Proofs about StagePragma: the invariant.                                *)

\* How far the source is moved in the text that is walked over, and how much
\* of it has been seen.
Offset == Len(lines) - Len(source)
Walked == IF i > Offset THEN i - 1 - Offset ELSE 0
Seen(kind) == {k \in Places(kind) : k <= Walked}
Rank(k) == Cardinality({j \in Places("stage") : j <= k})

Inputs ==
  /\ source \in Seq(Lines) /\ Preprocessable(source)
  /\ num_include_directives \in {0, 1} /\ forced \in Forced

\* Before the preamble is taken out.
Untouched ==
  /\ \E macros \in Nat :
       lines = [k \in 1 .. macros |-> Blank] \o <<PoundExtension>> \o source
  /\ i = 1 /\ at = [name |-> ErrorTag, number |-> 1] /\ stages = <<>>

TextLines == Lines \cup {Blank, PoundExtension, Line("line", 0, ErrorTag),
                         Line("line", 1, ErrorTag)}

\* What the rewriting leaves of the source, and puts before it.
RewrittenAs(text) ==
  LET offset == Len(text) - Len(source)
  IN  /\ offset \in {0, 2, 3}
      /\ \A k \in 1 .. Len(source) :
           text[offset + k] = IF offset # 0 /\ source[k].kind = "version"
                              THEN Blank ELSE source[k]
      /\ \A k \in 1 .. offset : text[k].kind \notin {"stage", "code"}
      /\ offset # 0 =>
           text[offset] = Line("line", IF NumbersNextLine THEN 1 ELSE 0, ErrorTag)
      /\ DeduceVersionProfile(text) = Version
      /\ Preprocessable(text)

Rewritten == RewrittenAs(lines)

\* Where the walk is.
LocationKept == i > Offset => at = LocationInSource(i - Offset)

\* The pragmas seen have been found, in their order, and nothing else.
PragmasFound ==
  /\ Len(stages) = Cardinality(Seen("stage"))
  /\ \A k \in Seen("stage") : Rank(k) \in 1 .. Len(stages) /\ stages[Rank(k)] = Pragma(k)
  /\ \A m \in 1 .. Len(stages) : \E k \in Seen("stage") : Rank(k) = m

\* The first line of its kind seen so far is at place, or place is the end.
IsFirst(place, kind) ==
  /\ \A k \in Seen(kind) : place <= Offset + k
  /\ place = Len(lines) + 1 \/ \E k \in Seen(kind) : place = Offset + k

WalkedSoFar ==
  /\ Rewritten /\ LocationKept /\ PragmasFound
  /\ IsFirst(first.pragma, "stage") /\ IsFirst(first.code, "code")

PragmaIInv ==
  /\ PragmaTypeOK /\ Inputs
  /\ phase = "cleanup" => Untouched
  /\ phase # "cleanup" => WalkedSoFar
  /\ phase # "done" => verdict = [stage |-> None, errors |-> 0]
  /\ phase = "done" => i = Len(lines) + 1
  /\ StageIsUnanimous

-----------------------------------------------------------------------------
(* Where a line is.                                                        *)

\* A nonempty set of naturals has a least element.
LEMMA LeastExists ==
  ASSUME NEW S \in SUBSET Nat, S # {}
  PROVE  \E m \in S : \A j \in S : m <= j
<1>1. \E m \in S : \A j \in S : ~ (<<j, m>> \in OpToRel(<, Nat))
  BY NatLessThanWellFounded, WFMin
<1>2. \A m, j \in Nat : j < m => <<j, m>> \in OpToRel(<, Nat)
  BY DEF OpToRel
<1>3. PICK m \in S : \A j \in S : ~ (<<j, m>> \in OpToRel(<, Nat))
  BY <1>1
<1>4. \A j \in S : ~ (j < m)
  BY <1>2, <1>3
<1>5. QED
  BY <1>4

\* A nonempty set of places up to n has a last one.
LEMMA LastExists ==
  ASSUME NEW n \in Nat, NEW S \in SUBSET (1..n), S # {}
  PROVE  Max(S) \in S /\ \A j \in S : j <= Max(S)
<1> DEFINE T == {k \in 0..n : n - k \in S}
<1>1. ASSUME NEW m \in S PROVE n - m \in T
  <2>1. m \in 1..n
    OBVIOUS
  <2>2. n - m \in 0..n /\ n - (n - m) = m
    BY <2>1
  <2>3. QED
    BY <2>2
<1>2. T # {}
  BY <1>1
<1> T \in SUBSET Nat
  OBVIOUS
<1>3. PICK k \in T : \A j \in T : k <= j
  BY <1>2, LeastExists
<1>4. ASSUME NEW j \in S PROVE j <= n - k
  BY <1>1, <1>3
<1>5. \E m \in S : \A j \in S : m >= j
  BY <1>3, <1>4
<1>6. QED
  BY <1>5 DEF Max

LEMMA SourceTypes ==
  ASSUME source \in Seq(Lines), NEW kind
  PROVE  /\ Len(source) \in Nat /\ DOMAIN source = 1..Len(source)
         /\ Places(kind) \subseteq 1..Len(source)
         /\ \A k \in 1..Len(source) : source[k] \in Lines /\ source[k].kind \in LineKinds
                                      /\ source[k].number \in Nat /\ source[k].text \in Values
BY StagePragmaAssumption DEF Places, Values

Marks(k) == {j \in Places("line") : j < k}
NamedMarks(k) == {j \in Marks(k) : source[j].text # ""}
Ahead == IF NumbersNextLine THEN 1 ELSE 0

LEMMA NameByMarks ==
  ASSUME NEW k
  PROVE  LocationInSource(k).name = IF NamedMarks(k) = {} THEN ErrorTag
                                    ELSE source[Max(NamedMarks(k))].text
BY DEF LocationInSource, Marks, NamedMarks

LEMMA NumberByMarks ==
  ASSUME NEW k
  PROVE  LocationInSource(k).number =
           IF Marks(k) = {} THEN k
           ELSE source[Max(Marks(k))].number + (k - Max(Marks(k))) - Ahead
BY DEF LocationInSource, Marks, NamedMarks, Ahead

LEMMA LocationIsNameAndNumber ==
  ASSUME NEW k
  PROVE  LocationInSource(k) = [name |-> LocationInSource(k).name,
                                number |-> LocationInSource(k).number]
BY DEF LocationInSource

LEMMA MarksAfter ==
  ASSUME source \in Seq(Lines), NEW k \in 1..Len(source)
  PROVE  /\ k \in Nat /\ k + 1 \in Nat
         /\ Marks(k + 1) = Marks(k) \cup (IF source[k].kind = "line" THEN {k} ELSE {})
         /\ NamedMarks(k + 1) =
              NamedMarks(k) \cup (IF source[k].kind = "line" /\ source[k].text # ""
                                  THEN {k} ELSE {})
         /\ Marks(k) \in SUBSET (1..k) /\ NamedMarks(k) \in SUBSET (1..k)
         /\ k \notin Marks(k)
         /\ \A j \in Marks(k) : source[j].number \in Nat
<1>1. Places("line") \subseteq 1..Len(source) /\ Len(source) \in Nat
  BY SourceTypes
<1>2. \A j \in 1..Len(source) : j \in Places("line") <=> source[j].kind = "line"
  BY SourceTypes DEF Places
<1>3. Marks(k + 1) = Marks(k) \cup (IF source[k].kind = "line" THEN {k} ELSE {})
  BY <1>1, <1>2 DEF Marks
<1>4. NamedMarks(k + 1) =
        NamedMarks(k) \cup (IF source[k].kind = "line" /\ source[k].text # ""
                            THEN {k} ELSE {})
  BY <1>3 DEF NamedMarks
<1>5. k \in Nat /\ k + 1 \in Nat
  BY <1>1
<1>6. Marks(k) \in SUBSET (1..k) /\ k \notin Marks(k)
  BY <1>1, <1>5 DEF Marks
<1>7. NamedMarks(k) \in SUBSET (1..k)
  BY <1>6 DEF NamedMarks
<1>8. \A j \in Marks(k) : source[j].number \in Nat
  BY <1>1, SourceTypes DEF Marks
<1>9. QED
  BY <1>3, <1>4, <1>5, <1>6, <1>7, <1>8

\* A #line is the last one when the next line is reached.
LEMMA LastAdded ==
  ASSUME NEW k \in Nat, NEW S \in SUBSET (1..k)
  PROVE  k # 0 => Max(S \cup {k}) = k
<1>1. SUFFICES ASSUME k # 0 PROVE Max(S \cup {k}) = k
  OBVIOUS
<1>2. S \cup {k} \in SUBSET (1..k) /\ S \cup {k} # {}
  BY <1>1
<1>3. Max(S \cup {k}) \in S \cup {k} /\ \A j \in S \cup {k} : j <= Max(S \cup {k})
  BY <1>2, LastExists
<1>4. Max(S \cup {k}) \in 1..k /\ k <= Max(S \cup {k})
  BY <1>2, <1>3
<1>5. QED
  BY <1>4

\* The walk puts the next line where its author counts it: one on, or where a
\* #line says.
LEMMA LocationAfter ==
  ASSUME source \in Seq(Lines), NEW k \in 1..Len(source),
         DeduceVersionProfile(lines) = Version,
         NEW l, l.kind = "line" <=> source[k].kind = "line", l.kind = "line" => l = source[k]
  PROVE  LocationInSource(k + 1) = Following(LocationInSource(k), l)
<1>1. /\ Ahead \in {0, 1}
      /\ LineDirectiveIsForNextLine(DeduceVersionProfile(lines)) <=> Ahead = 1
  BY DEF LineDirectiveIsForNextLine, NumbersNextLine, Ahead
<1>2. k \in Nat /\ k # 0 /\ source[k].number \in Nat
  BY SourceTypes
<1> DEFINE here == LocationInSource(k)  there == LocationInSource(k + 1)
<1>3. there = [name |-> there.name, number |-> there.number]
      /\ here = [name |-> here.name, number |-> here.number]
  BY LocationIsNameAndNumber
<1>4. there.name = IF NamedMarks(k + 1) = {} THEN ErrorTag
                   ELSE source[Max(NamedMarks(k + 1))].text
  BY NameByMarks
<1>5. there.number = IF Marks(k + 1) = {} THEN k + 1
                     ELSE source[Max(Marks(k + 1))].number + ((k + 1) - Max(Marks(k + 1))) - Ahead
  BY NumberByMarks
<1>6. here.name = IF NamedMarks(k) = {} THEN ErrorTag ELSE source[Max(NamedMarks(k))].text
  BY NameByMarks
<1>7. here.number = IF Marks(k) = {} THEN k
                    ELSE source[Max(Marks(k))].number + (k - Max(Marks(k))) - Ahead
  BY NumberByMarks
<1> HIDE DEF here, there
<1>8. CASE source[k].kind # "line"
  <2>1. Marks(k + 1) = Marks(k) /\ NamedMarks(k + 1) = NamedMarks(k)
    BY <1>8, MarksAfter
  <2>2. Following(here, l) = [here EXCEPT !.number = here.number + 1]
    BY <1>8 DEF Following
  <2>3. there.number = here.number + 1
    <3>1. CASE Marks(k) = {}
      BY <1>5, <1>7, <2>1, <3>1
    <3>2. CASE Marks(k) # {}
      <4>1. Max(Marks(k)) \in Marks(k)
        BY <1>2, <3>2, MarksAfter, LastExists
      <4>2. PICK m \in Marks(k) : m = Max(Marks(k))
        BY <4>1
      <4>3. m \in 1..k /\ source[m].number \in Nat
        <5>1. Marks(k) \in SUBSET (1..k) /\ \A j \in Marks(k) : source[j].number \in Nat
          BY MarksAfter
        <5>2. QED
          BY <5>1
      <4>4. /\ here.number = source[m].number + (k - m) - Ahead
            /\ there.number = source[m].number + ((k + 1) - m) - Ahead
        BY <1>5, <1>7, <2>1, <3>2, <4>2
      <4>5. QED
        BY <1>1, <1>2, <4>3, <4>4
    <3>3. QED
      BY <3>1, <3>2
  <2>4. there.name = here.name
    BY <1>4, <1>6, <2>1
  <2>5. [here EXCEPT !.number = here.number + 1] = [name |-> here.name, number |-> here.number + 1]
    BY <1>3
  <2>6. there = Following(here, l)
    BY <1>3, <2>2, <2>3, <2>4, <2>5
  <2>7. QED
    BY <2>6 DEF here, there
<1>9. CASE source[k].kind = "line"
  <2>1. Marks(k + 1) = Marks(k) \cup {k} /\ Max(Marks(k + 1)) = k
    BY <1>2, <1>9, MarksAfter, LastAdded
  <2>2. there.number = source[k].number + ((k + 1) - k) - Ahead
    BY <1>5, <2>1
  <2>3. there.number = IF Ahead = 1 THEN source[k].number ELSE source[k].number + 1
    BY <1>1, <1>2, <2>2
  <2>4. ASSUME source[k].text # "" PROVE there.name = source[k].text
    <3>1. NamedMarks(k + 1) = NamedMarks(k) \cup {k} /\ Max(NamedMarks(k + 1)) = k
      BY <1>2, <1>9, <2>4, MarksAfter, LastAdded
    <3>2. QED
      BY <1>4, <3>1
  <2>5. ASSUME source[k].text = "" PROVE there.name = here.name
    <3>1. NamedMarks(k + 1) = NamedMarks(k)
      BY <1>9, <2>5, MarksAfter
    <3>2. QED
      BY <1>4, <1>6, <3>1
  <2>6. Following(here, l) =
          [name |-> IF source[k].text = "" THEN here.name ELSE source[k].text,
           number |-> IF Ahead = 1 THEN source[k].number ELSE source[k].number + 1]
    BY <1>1, <1>9 DEF Following
  <2>7. there = Following(here, l)
    BY <1>3, <2>4, <2>5, <2>6, <2>3
  <2>8. QED
    BY <2>7 DEF here, there
<1>10. QED
  BY <1>8, <1>9

-----------------------------------------------------------------------------
(* The text without the preamble.                                          *)

LEMMA SelectedNone == ASSUME NEW text PROVE Selected(text, {}) = <<>>
<1>1. Cardinality({}) = 0
  BY FS_EmptySet
<1>2. QED
  BY <1>1 DEF Selected

\* The place of the only #version in a text, and of none.
LEMMA OnlyVersion ==
  ASSUME NEW text, NEW n \in Nat, Len(text) = n, NEW v \in 1..n, IsVersion(text[v]),
         \A j \in 1..n : IsVersion(text[j]) => j = v
  PROVE  SelectInSeq(text, IsVersion) = v
<1>1. {j \in 1..Len(text) : IsVersion(text[j])} = {v}
  OBVIOUS
<1>2. Min({v}) = v
  BY DEF Min
<1>3. QED
  BY <1>1, <1>2 DEF SelectInSeq

LEMMA NoVersion ==
  ASSUME NEW text, \A j \in 1..Len(text) : ~ IsVersion(text[j])
  PROVE  SelectInSeq(text, IsVersion) = 0
<1>1. {j \in 1..Len(text) : IsVersion(text[j])} = {}
  OBVIOUS
<1>2. QED
  BY <1>1 DEF SelectInSeq

Injected(macros) == [k \in 1 .. macros |-> Blank] \o <<PoundExtension>> \o source

\* The client's macros come first, then the extension, then the source.
LEMMA InjectedText ==
  ASSUME source \in Seq(Lines), NEW macros \in Nat
  PROVE  LET text == Injected(macros)
         IN  /\ text \in Seq(Lines \cup {Blank, PoundExtension})
             /\ Len(text) = macros + 1 + Len(source)
             /\ \A k \in 1..macros : text[k] = Blank
             /\ text[macros + 1] = PoundExtension
             /\ \A k \in 1..Len(source) : text[macros + 1 + k] = source[k]
<1> DEFINE L == Lines \cup {Blank, PoundExtension}
           p == [k \in 1 .. macros |-> Blank]
<1>1. p \in Seq(L) /\ Len(p) = macros /\ \A k \in 1..macros : p[k] = Blank
  OBVIOUS
<1>2. <<PoundExtension>> \in Seq(L) /\ Len(<<PoundExtension>>) = 1
      /\ <<PoundExtension>>[1] = PoundExtension
  OBVIOUS
<1>3. source \in Seq(L) /\ Len(source) \in Nat
  OBVIOUS
<1> HIDE DEF p, L
<1> DEFINE pe == p \o <<PoundExtension>>
<1>4. /\ pe \in Seq(L) /\ Len(pe) = macros + 1
      /\ \A k \in 1..macros : pe[k] = Blank
      /\ pe[macros + 1] = PoundExtension
  <2>1. /\ pe \in Seq(L) /\ Len(pe) = Len(p) + Len(<<PoundExtension>>)
        /\ \A k \in 1..Len(p) + Len(<<PoundExtension>>) :
             pe[k] = IF k <= Len(p) THEN p[k] ELSE <<PoundExtension>>[k - Len(p)]
    BY <1>1, <1>2, ConcatProperties
  <2>2. QED
    BY <1>1, <1>2, <2>1
<1> HIDE DEF pe
<1>5. /\ pe \o source \in Seq(L) /\ Len(pe \o source) = macros + 1 + Len(source)
      /\ \A k \in 1..macros + 1 : (pe \o source)[k] = pe[k]
      /\ \A k \in 1..Len(source) : (pe \o source)[macros + 1 + k] = source[k]
  <2>1. /\ pe \o source \in Seq(L) /\ Len(pe \o source) = Len(pe) + Len(source)
        /\ \A k \in 1..Len(pe) + Len(source) :
             (pe \o source)[k] = IF k <= Len(pe) THEN pe[k] ELSE source[k - Len(pe)]
    BY <1>3, <1>4, ConcatProperties
  <2>2. QED
    BY <1>3, <1>4, <2>1
<1>6. Injected(macros) = pe \o source
  BY DEF Injected, pe, p
<1>7. QED
  BY <1>4, <1>5, <1>6 DEF L

LEMMA ExtensionPlace ==
  ASSUME source \in Seq(Lines), NEW macros \in Nat
  PROVE  SelectInSeq(Injected(macros), LAMBDA l : l = PoundExtension) = macros + 1
<1> DEFINE text == Injected(macros)
           I == {j \in 1..Len(text) : text[j] = PoundExtension}
<1>1. Blank # PoundExtension
  BY DEF Blank, PoundExtension, Line
<1>2. Len(source) \in Nat /\ Len(text) = macros + 1 + Len(source)
      /\ (\A k \in 1..macros : text[k] = Blank) /\ text[macros + 1] = PoundExtension
  <2>1. Len(source) \in Nat
    OBVIOUS
  <2>2. QED
    BY <2>1, InjectedText
<1> HIDE DEF text
<1>3. macros + 1 \in I /\ \A j \in I : macros + 1 <= j
  BY <1>1, <1>2
<1>4. I # {} /\ Min(I) = macros + 1
  BY <1>3 DEF Min
<1>5. QED
  BY <1>4 DEF SelectInSeq, text

\* A source has one #version, if any.
LEMMA VersionPlaces ==
  ASSUME source \in Seq(Lines), Preprocessable(source),
         NEW v \in 1..Len(source), source[v].kind = "version"
  PROVE  Places("version") = {v}
<1>1. Len(source) \in Nat /\ DOMAIN source = 1..Len(source)
  OBVIOUS
<1>2. ASSUME NEW w \in 1..Len(source), source[w].kind = "version" PROVE w = v
  <2>1. ~ (w < v) /\ ~ (v < w)
    BY <1>1, <1>2 DEF Preprocessable
  <2>2. QED
    BY <1>1, <2>1
<1>3. QED
  BY <1>1, <1>2 DEF Places

\* Text with the source's #version in it, alone, is of the source's version.
LEMMA VersionOfText ==
  ASSUME source \in Seq(Lines), NEW text, NEW n \in Nat, Len(text) = n,
         \/ /\ Places("version") = {}
            /\ \A j \in 1..n : text[j].kind # "version"
         \/ \E v \in 1..Len(source), w \in 1..n :
              /\ Places("version") = {v} /\ text[w] = source[v]
              /\ \A j \in 1..n : text[j].kind = "version" <=> j = w
  PROVE  DeduceVersionProfile(text) = Version
<1>1. CASE Places("version") = {} /\ \A j \in 1..n : text[j].kind # "version"
  <2>1. SelectInSeq(text, IsVersion) = 0
    BY <1>1, NoVersion DEF IsVersion
  <2>2. QED
    BY <1>1, <2>1 DEF DeduceVersionProfile, Version
<1>2. ASSUME NEW v \in 1..Len(source), NEW w \in 1..n,
             Places("version") = {v}, text[w] = source[v],
             \A j \in 1..n : text[j].kind = "version" <=> j = w
      PROVE  DeduceVersionProfile(text) = Version
  <2>1. SelectInSeq(text, IsVersion) = w
    BY <1>2, OnlyVersion DEF IsVersion
  <2>2. (CHOOSE k \in Places("version") : TRUE) = v
    BY <1>2
  <2>3. w # 0
    OBVIOUS
  <2>4. QED
    BY <1>2, <2>1, <2>2, <2>3 DEF DeduceVersionProfile, Version
<1>3. QED
  BY <1>1, <1>2

\* The parts that CleanupPreamble finds in the preprocessed text.
LEMMA Parts ==
  ASSUME source \in Seq(Lines), Preprocessable(source), NEW macros \in Nat
  PROVE  LET text == Injected(macros)
         IN  /\ Selected(text, {k \in 1 .. macros : text[k].kind # "blank"}) = <<>>
             /\ SubSeq(text, macros + 2, Len(text)) = source
             /\ \A v \in 1..Len(source) : source[v].kind = "version" =>
                  /\ SelectInSeq(text, IsVersion) = macros + 1 + v
                  /\ text[macros + 1 + v] = source[v]
             /\ Places("version") = {} => SelectInSeq(text, IsVersion) = 0
             /\ DeduceVersionProfile(text) = Version
<1> DEFINE text == Injected(macros)  n == macros + 1 + Len(source)
<1>1. Len(source) \in Nat /\ DOMAIN source = 1..Len(source) /\ n \in Nat
  OBVIOUS
<1>2. /\ text \in Seq(Lines \cup {Blank, PoundExtension})
      /\ Len(text) = n
      /\ \A k \in 1..macros : text[k] = Blank
      /\ text[macros + 1] = PoundExtension
      /\ \A k \in 1..Len(source) : text[macros + 1 + k] = source[k]
  BY <1>1, InjectedText
<1> HIDE DEF text
<1>10. Blank.kind = "blank" /\ PoundExtension.kind = "directive"
  BY DEF Blank, PoundExtension, Line
<1>3. Selected(text, {k \in 1 .. macros : text[k].kind # "blank"}) = <<>>
  <2>1. {k \in 1 .. macros : text[k].kind # "blank"} = {}
    BY <1>2, <1>10
  <2>2. QED
    BY <2>1, SelectedNone
<1>4. SubSeq(text, macros + 2, Len(text)) = source
  <2> DEFINE rest == SubSeq(text, macros + 2, n)
  <2>1. \A k \in macros + 2 .. n : text[k] \in Lines \cup {Blank, PoundExtension}
    BY <1>1, <1>2
  <2>2. /\ rest \in Seq(Lines \cup {Blank, PoundExtension})
        /\ Len(rest) = IF macros + 2 <= n THEN n - (macros + 2) + 1 ELSE 0
        /\ \A k \in 1 .. n - (macros + 2) + 1 : rest[k] = text[(macros + 2) + k - 1]
    BY <1>1, <2>1, SubSeqProperties
  <2>3. Len(rest) = Len(source) /\ \A k \in 1..Len(source) : rest[k] = text[macros + 1 + k]
    <3>1. n - (macros + 2) + 1 = Len(source)
      BY <1>1
    <3>2. \A k \in 1..Len(source) : (macros + 2) + k - 1 = macros + 1 + k
      BY <1>1
    <3>3. Len(rest) = Len(source)
      BY <1>1, <2>2, <3>1
    <3>4. QED
      BY <2>2, <3>1, <3>2, <3>3
  <2>4. source \in Seq(Lines \cup {Blank, PoundExtension})
    OBVIOUS
  <2> HIDE DEF rest
  <2>5. rest = source
    BY <1>2, <2>2, <2>3, <2>4, SeqEqual
  <2>6. QED
    BY <1>2, <2>5 DEF rest
<1>5. \A j \in 1..n : \/ text[j].kind # "version" /\ j <= macros + 1
                      \/ \E k \in 1..Len(source) : j = macros + 1 + k /\ text[j] = source[k]
  <2>1. SUFFICES ASSUME NEW j \in 1..n
                 PROVE  \/ text[j].kind # "version" /\ j <= macros + 1
                        \/ \E k \in 1..Len(source) : j = macros + 1 + k /\ text[j] = source[k]
    OBVIOUS
  <2>2. CASE j <= macros + 1
    <3>1. j \in 1..macros \/ j = macros + 1
      BY <1>1, <2>2
    <3>2. text[j].kind # "version"
      BY <1>2, <1>10, <3>1
    <3>3. QED
      BY <2>2, <3>2
  <2>3. CASE j > macros + 1
    <3>1. j - (macros + 1) \in 1..Len(source) /\ j = macros + 1 + (j - (macros + 1))
      BY <1>1, <2>3
    <3>2. QED
      BY <1>2, <3>1
  <2>4. QED
    BY <1>1, <2>2, <2>3
<1>6. ASSUME NEW v \in 1..Len(source), source[v].kind = "version"
      PROVE  /\ SelectInSeq(text, IsVersion) = macros + 1 + v
             /\ text[macros + 1 + v] = source[v]
             /\ DeduceVersionProfile(text) = Version
  <2>1. Places("version") = {v}
    BY <1>6, VersionPlaces
  <2>2. \A k \in 1..Len(source) : source[k].kind = "version" <=> k = v
    BY <1>1, <2>1 DEF Places
  <2>3. macros + 1 + v \in 1..n /\ text[macros + 1 + v] = source[v]
    BY <1>1, <1>2
  <2>4. \A j \in 1..n : text[j].kind = "version" <=> j = macros + 1 + v
    BY <1>1, <1>5, <2>2, <2>3
  <2>5. SelectInSeq(text, IsVersion) = macros + 1 + v
    BY <1>1, <1>2, <2>3, <2>4, OnlyVersion DEF IsVersion
  <2>6. DeduceVersionProfile(text) = Version
    BY <1>1, <1>2, <2>1, <2>3, <2>4, VersionOfText
  <2>7. QED
    BY <2>3, <2>5, <2>6
<1>7. ASSUME Places("version") = {}
      PROVE  SelectInSeq(text, IsVersion) = 0 /\ DeduceVersionProfile(text) = Version
  <2>1. \A j \in 1..n : text[j].kind # "version"
    BY <1>1, <1>5, <1>7 DEF Places
  <2>2. SelectInSeq(text, IsVersion) = 0
    BY <1>2, <2>1, NoVersion DEF IsVersion
  <2>3. QED
    BY <1>1, <1>2, <1>7, <2>1, <2>2, VersionOfText
<1>8. Places("version") # {} => \E v \in 1..Len(source) : source[v].kind = "version"
  BY <1>1 DEF Places
<1>9. QED
  BY <1>3, <1>4, <1>6, <1>7, <1>8 DEF text

Tag == Line("line", IF NumbersNextLine THEN 1 ELSE 0, ErrorTag)

LEMMA TagTypes ==
  /\ Tag \in TextLines /\ PoundExtension \in TextLines /\ Blank \in TextLines
  /\ Tag.kind = "line" /\ PoundExtension.kind = "directive" /\ Blank.kind = "blank"
<1>1. Tag \in TextLines /\ PoundExtension \in TextLines /\ Blank \in TextLines
  BY DEF Tag, TextLines
<1>2. Tag.kind = "line" /\ PoundExtension.kind = "directive" /\ Blank.kind = "blank"
  BY DEF Tag, PoundExtension, Blank, Line
<1>3. QED
  BY <1>1, <1>2

\* What is left is the source, or with inclusions the source behind the
\* extension and a #line, with its #version taken to the front.
LEMMA CleanupOfInjected ==
  ASSUME source \in Seq(Lines), Preprocessable(source), NEW macros \in Nat
  PROVE  LET text == CleanupPreamble(Injected(macros))
         IN  /\ num_include_directives = 0 => text = source
             /\ num_include_directives # 0 /\ Places("version") = {} =>
                  text = <<PoundExtension, Tag>> \o source
             /\ num_include_directives # 0 =>
                  \A v \in 1..Len(source) : source[v].kind = "version" =>
                    text = <<source[v]>> \o <<PoundExtension, Tag>>
                           \o [source EXCEPT ![v] = Blank]
<1> DEFINE text == Injected(macros)
<1>1. SelectInSeq(text, LAMBDA l : l = PoundExtension) = macros + 1
  BY ExtensionPlace
<1>2. /\ Selected(text, {k \in 1 .. macros : text[k].kind # "blank"}) = <<>>
      /\ SubSeq(text, macros + 2, Len(text)) = source
      /\ \A v \in 1..Len(source) : source[v].kind = "version" =>
           /\ SelectInSeq(text, IsVersion) = macros + 1 + v
           /\ text[macros + 1 + v] = source[v]
      /\ Places("version") = {} => SelectInSeq(text, IsVersion) = 0
      /\ DeduceVersionProfile(text) = Version
  BY Parts
<1>3. (macros + 1) - 1 = macros /\ (macros + 1) + 1 = macros + 2
  OBVIOUS
<1> HIDE DEF text
<1>4. Line("line", IF LineDirectiveIsForNextLine(DeduceVersionProfile(text)) THEN 1 ELSE 0,
           ErrorTag) = Tag
  BY <1>2 DEF LineDirectiveIsForNextLine, NumbersNextLine, Tag
<1>5. CleanupPreamble(text) =
        IF num_include_directives = 0 THEN <<>> \o source
        ELSE (IF SelectInSeq(text, IsVersion) = 0 THEN <<>>
              ELSE <<text[SelectInSeq(text, IsVersion)]>>)
             \o <<>> \o <<PoundExtension, Tag>>
             \o (IF SelectInSeq(text, IsVersion) = 0 THEN source
                 ELSE [source EXCEPT ![SelectInSeq(text, IsVersion) - (macros + 1)] = Blank])
  BY <1>1, <1>2, <1>3, <1>4 DEF CleanupPreamble
<1>6. num_include_directives = 0 => CleanupPreamble(text) = source
  <2>1. <<>> \o source = source
    BY ConcatEmptySeq
  <2>2. QED
    BY <1>5, <2>1
<1>7. <<PoundExtension, Tag>> \in Seq(TextLines)
  BY TagTypes
<1>8. num_include_directives # 0 /\ Places("version") = {} =>
        CleanupPreamble(text) = <<PoundExtension, Tag>> \o source
  <2>1. <<>> \o <<>> = <<>>
    BY ConcatEmptySeq
  <2>2. <<>> \o <<PoundExtension, Tag>> = <<PoundExtension, Tag>>
    BY <1>7, ConcatEmptySeq
  <2>3. QED
    BY <1>2, <1>5, <2>1, <2>2
<1>9. ASSUME num_include_directives # 0, NEW v \in 1..Len(source), source[v].kind = "version"
      PROVE  CleanupPreamble(text) = <<source[v]>> \o <<PoundExtension, Tag>>
                                     \o [source EXCEPT ![v] = Blank]
  <2>1. <<source[v]>> \o <<>> = <<source[v]>>
    <3>1. <<source[v]>> \in Seq(Lines)
      OBVIOUS
    <3>2. QED
      BY <3>1, ConcatEmptySeq
  <2>2. /\ SelectInSeq(text, IsVersion) = macros + 1 + v
        /\ text[macros + 1 + v] = source[v]
    BY <1>2, <1>9
  <2>3. Len(source) \in Nat
    OBVIOUS
  <2>4. (macros + 1 + v) - (macros + 1) = v /\ macros + 1 + v # 0
    BY <2>3
  <2>5. QED
    BY <1>5, <1>9, <2>1, <2>2, <2>4
<1>10. QED
  BY <1>6, <1>8, <1>9 DEF text

\* A short text before the source.
LEMMA Behind ==
  ASSUME NEW head \in Seq(TextLines), NEW tail \in Seq(TextLines)
  PROVE  /\ head \o tail \in Seq(TextLines)
         /\ Len(head) \in Nat /\ Len(tail) \in Nat
         /\ Len(head \o tail) = Len(head) + Len(tail)
         /\ \A k \in 1..Len(head) : (head \o tail)[k] = head[k]
         /\ \A k \in 1..Len(tail) : (head \o tail)[Len(head) + k] = tail[k]
<1>1. Len(head) \in Nat /\ Len(tail) \in Nat
  OBVIOUS
<1>2. /\ head \o tail \in Seq(TextLines) /\ Len(head \o tail) = Len(head) + Len(tail)
      /\ \A k \in 1..Len(head) + Len(tail) :
           (head \o tail)[k] = IF k <= Len(head) THEN head[k] ELSE tail[k - Len(head)]
  BY ConcatProperties
<1>3. \A k \in 1..Len(head) : (head \o tail)[k] = head[k]
  BY <1>1, <1>2
<1>4. \A k \in 1..Len(tail) : (head \o tail)[Len(head) + k] = tail[k]
  BY <1>1, <1>2
<1>5. QED
  BY <1>1, <1>2, <1>3, <1>4

LEMMA RewritingPlain ==
  ASSUME source \in Seq(Lines), Preprocessable(source)
  PROVE  RewrittenAs(source) /\ source \in Seq(TextLines)
<1>1. Len(source) \in Nat /\ DOMAIN source = 1..Len(source) /\ Len(source) - Len(source) = 0
  OBVIOUS
<1>2. source \in Seq(TextLines)
  BY DEF TextLines
<1>3. DeduceVersionProfile(source) = Version
  <2>1. CASE Places("version") = {}
    <3>1. \A j \in 1..Len(source) : source[j].kind # "version"
      BY <1>1, <2>1 DEF Places
    <3>2. QED
      BY <1>1, <2>1, <3>1, VersionOfText
  <2>2. CASE Places("version") # {}
    <3>1. PICK v \in 1..Len(source) : source[v].kind = "version"
      BY <1>1, <2>2 DEF Places
    <3>2. Places("version") = {v}
      BY <3>1, VersionPlaces
    <3>3. \A j \in 1..Len(source) : source[j].kind = "version" <=> j = v
      BY <1>1, <3>2 DEF Places
    <3>4. QED
      BY <1>1, <3>2, <3>3, VersionOfText
  <2>3. QED
    BY <2>1, <2>2
<1>4. \A k \in 1..Len(source) : 0 + k = k
  BY <1>1
<1>5. QED
  BY <1>1, <1>2, <1>3, <1>4 DEF RewrittenAs

LEMMA RewritingBehindLine ==
  ASSUME source \in Seq(Lines), Places("version") = {},
         NEW text, text = <<PoundExtension, Tag>> \o source
  PROVE  RewrittenAs(text) /\ text \in Seq(TextLines)
<1> DEFINE head == <<PoundExtension, Tag>>
<1>1. Len(source) \in Nat /\ DOMAIN source = 1..Len(source) /\ source \in Seq(TextLines)
  BY DEF TextLines
<1>2. head \in Seq(TextLines) /\ Len(head) = 2 /\ head[1] = PoundExtension /\ head[2] = Tag
  BY TagTypes
<1> HIDE DEF head
<1>3. text = head \o source
  BY DEF head
<1>4. /\ text \in Seq(TextLines) /\ Len(text) = 2 + Len(source)
      /\ text[1] = PoundExtension /\ text[2] = Tag
      /\ \A k \in 1..Len(source) : text[2 + k] = source[k]
  <2>1. /\ head \o source \in Seq(TextLines)
        /\ Len(head \o source) = Len(head) + Len(source)
        /\ \A k \in 1..Len(head) : (head \o source)[k] = head[k]
        /\ \A k \in 1..Len(source) : (head \o source)[Len(head) + k] = source[k]
    BY <1>1, <1>2, Behind
  <2>2. QED
    BY <1>2, <1>3, <2>1
<1>5. Len(text) - Len(source) = 2
  BY <1>1, <1>4
<1>6. \A k \in 1..Len(source) : source[k].kind # "version"
  BY <1>1 DEF Places
<1>7. \A j \in 1..Len(text) : text[j].kind # "version"
  <2>1. ASSUME NEW j \in 1..Len(text), j > 2 PROVE text[j] = source[j - 2] /\ j - 2 \in 1..Len(source)
    <3>1. j - 2 \in 1..Len(source) /\ 2 + (j - 2) = j
      BY <1>1, <1>4, <2>1
    <3>2. QED
      BY <1>4, <3>1
  <2>2. \A j \in 1..Len(text) : j = 1 \/ j = 2 \/ j > 2
    BY <1>1, <1>4
  <2>3. QED
    BY <1>4, <1>6, <2>1, <2>2, TagTypes
<1>8. DeduceVersionProfile(text) = Version
  <2>1. Len(text) \in Nat
    BY <1>1, <1>4
  <2>2. QED
    BY <1>7, <2>1, VersionOfText
<1>9. Preprocessable(text)
  BY <1>4, <1>7 DEF Preprocessable
<1>10. \A k \in 1..2 : text[k].kind \notin {"stage", "code"}
  BY <1>4, TagTypes
<1>11. QED
  BY <1>4, <1>5, <1>6, <1>8, <1>9, <1>10 DEF RewrittenAs, Tag

LEMMA RewritingBehindVersion ==
  ASSUME source \in Seq(Lines), Preprocessable(source),
         NEW v \in 1..Len(source), source[v].kind = "version",
         NEW text, text = <<source[v]>> \o <<PoundExtension, Tag>> \o [source EXCEPT ![v] = Blank]
  PROVE  RewrittenAs(text) /\ text \in Seq(TextLines)
<1> DEFINE head == <<source[v]>> \o <<PoundExtension, Tag>>
           rest == [source EXCEPT ![v] = Blank]
<1>1. Len(source) \in Nat /\ DOMAIN source = 1..Len(source) /\ source \in Seq(TextLines)
      /\ source[v] \in TextLines
  BY DEF TextLines
<1>2. /\ head \in Seq(TextLines) /\ Len(head) = 3
      /\ head[1] = source[v] /\ head[2] = PoundExtension /\ head[3] = Tag
  BY <1>1, TagTypes
<1>3. /\ rest \in Seq(TextLines) /\ Len(rest) = Len(source)
      /\ \A k \in 1..Len(source) : rest[k] = IF k = v THEN Blank ELSE source[k]
  BY <1>1, TagTypes, ExceptSeq
<1>4. text = head \o rest
  OBVIOUS
<1> HIDE DEF head, rest
<1>5. /\ text \in Seq(TextLines) /\ Len(text) = 3 + Len(source)
      /\ text[1] = source[v] /\ text[2] = PoundExtension /\ text[3] = Tag
      /\ \A k \in 1..Len(source) : text[3 + k] = IF k = v THEN Blank ELSE source[k]
  <2>1. /\ head \o rest \in Seq(TextLines)
        /\ Len(head \o rest) = Len(head) + Len(rest)
        /\ \A k \in 1..Len(head) : (head \o rest)[k] = head[k]
        /\ \A k \in 1..Len(rest) : (head \o rest)[Len(head) + k] = rest[k]
    BY <1>2, <1>3, Behind
  <2>2. text \in Seq(TextLines) /\ Len(text) = 3 + Len(source)
    BY <1>2, <1>3, <1>4, <2>1
  <2>3. text[1] = source[v] /\ text[2] = PoundExtension /\ text[3] = Tag
    BY <1>2, <1>4, <2>1
  <2>4. \A k \in 1..Len(source) : text[3 + k] = rest[k]
    BY <1>2, <1>3, <1>4, <2>1
  <2>5. QED
    BY <1>3, <2>2, <2>3, <2>4
<1>6. Len(text) - Len(source) = 3
  BY <1>1, <1>5
<1>7. Places("version") = {v}
  BY VersionPlaces
<1>8. \A k \in 1..Len(source) : source[k].kind = "version" <=> k = v
  BY <1>1, <1>7 DEF Places
<1>9. \A j \in 1..Len(text) : text[j].kind = "version" <=> j = 1
  <2>1. ASSUME NEW j \in 1..Len(text), j > 3 PROVE text[j].kind # "version"
    <3>1. j - 3 \in 1..Len(source) /\ 3 + (j - 3) = j
      BY <1>1, <1>5, <2>1
    <3>2. text[j] = IF j - 3 = v THEN Blank ELSE source[j - 3]
      BY <1>5, <3>1
    <3>3. QED
      BY <1>8, <3>1, <3>2, TagTypes
  <2>2. \A j \in 1..Len(text) : j = 1 \/ j = 2 \/ j = 3 \/ j > 3
    BY <1>1, <1>5
  <2>3. text[2].kind # "version" /\ text[3].kind # "version" /\ text[1].kind = "version"
    BY <1>5, TagTypes
  <2>4. QED
    BY <2>1, <2>2, <2>3
<1>10. DeduceVersionProfile(text) = Version
  <2>1. Len(text) \in Nat /\ 1 \in 1..Len(text)
    BY <1>1, <1>5
  <2>2. QED
    BY <1>5, <1>7, <1>9, <2>1, VersionOfText
<1>11. Preprocessable(text)
  <2>1. DOMAIN text = 1..Len(text)
    BY <1>5
  <2>2. ASSUME NEW k \in 1..Len(text), text[k].kind = "version"
        PROVE  \A j \in 1..k - 1 : text[j].kind = "blank"
    <3>1. k = 1
      BY <1>9, <2>2
    <3>2. 1..k - 1 = {}
      BY <3>1
    <3>3. QED
      BY <3>2
  <2>3. QED
    BY <2>1, <2>2 DEF Preprocessable
<1>12. \A k \in 1..3 : text[k].kind \notin {"stage", "code"}
  BY <1>5, TagTypes
<1>13. \A k \in 1..Len(source) : text[3 + k] = IF source[k].kind = "version" THEN Blank ELSE source[k]
  BY <1>5, <1>8
<1>14. text \in Seq(TextLines) /\ text[3] = Line("line", IF NumbersNextLine THEN 1 ELSE 0, ErrorTag)
  BY <1>5 DEF Tag
<1>15. RewrittenAs(text)
  <2> DEFINE offset == Len(text) - Len(source)
  <2>1. offset = 3
    BY <1>6
  <2> HIDE DEF offset
  <2>2. /\ offset \in {0, 2, 3}
        /\ \A k \in 1 .. Len(source) :
             text[offset + k] = IF offset # 0 /\ source[k].kind = "version"
                                THEN Blank ELSE source[k]
        /\ \A k \in 1 .. offset : text[k].kind \notin {"stage", "code"}
        /\ text[offset] = Line("line", IF NumbersNextLine THEN 1 ELSE 0, ErrorTag)
    BY <1>12, <1>13, <1>14, <2>1
  <2>3. QED
    BY <1>10, <1>11, <2>2 DEF RewrittenAs, offset
<1>16. QED
  BY <1>14, <1>15

\* CleanupPreamble leaves the source's lines where the walk looks for them.
LEMMA CleanupRewrites ==
  ASSUME source \in Seq(Lines), Preprocessable(source), NEW macros \in Nat
  PROVE  LET text == CleanupPreamble(Injected(macros))
         IN  RewrittenAs(text) /\ text \in Seq(TextLines)
<1>1. CASE num_include_directives = 0
  BY <1>1, CleanupOfInjected, RewritingPlain
<1>2. CASE num_include_directives # 0 /\ Places("version") = {}
  BY <1>2, CleanupOfInjected, RewritingBehindLine
<1>3. CASE num_include_directives # 0 /\ Places("version") # {}
  <2>1. PICK v \in 1..Len(source) : source[v].kind = "version"
    BY <1>3 DEF Places
  <2>2. QED
    BY <1>3, <2>1, CleanupOfInjected, RewritingBehindVersion
<1>4. QED
  BY <1>1, <1>2, <1>3

-----------------------------------------------------------------------------
(* The invariant holds initially, and when the preamble is taken out.      *)

LEMMA PragmaInitIInv == ASSUME PragmaInit PROVE PragmaIInv
<1>1. source \in Seq(Lines) /\ Len(source) \in Nat /\ Len(source) <= MaxLines
  <2>1. PICK m \in 0..MaxLines : source \in [1..m -> Lines]
    BY DEF PragmaInit, BoundedSeq, SeqOf
  <2>2. m \in Nat /\ m <= MaxLines
    BY StagePragmaAssumption
  <2>3. QED
    BY <2>1, <2>2
<1>2. Inputs
  BY <1>1, StagePragmaAssumption DEF PragmaInit, Inputs
<1>3. PICK macros \in Nat : lines = Injected(macros)
  <2>1. \A m \in 0..MaxMacros : m \in Nat
    BY StagePragmaAssumption
  <2>2. QED
    BY <2>1 DEF PragmaInit, Injected
<1>4. Untouched
  BY <1>3 DEF PragmaInit, Untouched, Injected
<1>5. lines \in Seq(TextLines) /\ Len(lines) \in Nat
  <2>1. lines \in Seq(Lines \cup {Blank, PoundExtension})
    BY <1>1, <1>3, InjectedText
  <2>2. QED
    BY <2>1 DEF TextLines
<1>6. PragmaTypeOK
  <2>1. 1 \in 1..Len(lines) + 1 /\ Len(lines) + 1 \in 1..Len(lines) + 1
    BY <1>5
  <2>2. ErrorTag \in Names /\ None \in Values \cup {None}
    BY DEF Names
  <2>3. at \in [name : Names, number : Nat]
    BY <2>2 DEF PragmaInit
  <2>4. first \in [pragma : 1 .. Len(lines) + 1, code : 1 .. Len(lines) + 1]
    BY <2>1 DEF PragmaInit
  <2>5. stages \in Seq([name : Names, number : Nat, stage : Values]) /\ Len(stages) = 0
    BY DEF PragmaInit
  <2>6. verdict \in [stage : Values \cup {None}, errors : 0 .. Len(stages) + 1]
    BY <2>2, <2>5 DEF PragmaInit
  <2>7. QED
    BY <1>1, <1>5, <2>1, <2>3, <2>4, <2>5, <2>6 DEF PragmaInit, PragmaTypeOK, TextLines
<1>7. phase = "cleanup" /\ verdict = [stage |-> None, errors |-> 0]
  BY DEF PragmaInit
<1>8. QED
  BY <1>2, <1>4, <1>6, <1>7 DEF PragmaIInv, StageIsUnanimous

\* What depends on the source alone.
LEMMA SourceKept ==
  ASSUME UNCHANGED <<source, forced>>
  PROVE  /\ \A kind : Places(kind)' = Places(kind)
         /\ Version' = Version /\ NumbersNextLine' = NumbersNextLine
         /\ \A k : LocationInSource(k)' = LocationInSource(k)
         /\ \A k : Pragma(k)' = Pragma(k) /\ Rank(k)' = Rank(k)
<1>1. /\ \A kind : Places(kind)' = Places(kind)
      /\ Version' = Version /\ NumbersNextLine' = NumbersNextLine
  BY DEF Places, Version, NumbersNextLine
<1>2. \A k : LocationInSource(k)' = LocationInSource(k)
  BY <1>1 DEF LocationInSource
<1>3. \A k : Pragma(k)' = Pragma(k) /\ Rank(k)' = Rank(k)
  BY <1>1, <1>2 DEF Pragma, Rank
<1>4. QED
  BY <1>1, <1>2, <1>3

\* Nothing has been seen before the first line of the source.
LEMMA NothingSeen ==
  ASSUME source \in Seq(Lines), Walked = 0, NEW kind
  PROVE  Seen(kind) = {} /\ Cardinality(Seen(kind)) = 0
<1>1. Seen(kind) = {}
  BY SourceTypes DEF Seen
<1>2. QED
  BY <1>1, FS_EmptySet

LEMMA FirstLocation ==
  ASSUME source \in Seq(Lines)
  PROVE  LocationInSource(1) = [name |-> ErrorTag, number |-> 1]
<1>1. \A j \in 1..Len(source) : ~ (j < 1)
  OBVIOUS
<1>2. Marks(1) = {} /\ NamedMarks(1) = {}
  BY <1>1, SourceTypes DEF Marks, NamedMarks
<1>3. LocationInSource(1).name = ErrorTag /\ LocationInSource(1).number = 1
  BY <1>2, NameByMarks, NumberByMarks
<1>4. QED
  BY <1>3, LocationIsNameAndNumber

LEMMA CleanupKeeps == ASSUME PragmaIInv, Cleanup PROVE PragmaIInv'
<1>1. /\ source \in Seq(Lines) /\ Preprocessable(source)
      /\ Untouched /\ PragmaTypeOK /\ Inputs
  BY DEF PragmaIInv, Inputs, Cleanup
<1>2. PICK macros \in Nat : lines = Injected(macros)
  BY <1>1 DEF Untouched, Injected
<1>3. RewrittenAs(CleanupPreamble(lines)) /\ CleanupPreamble(lines) \in Seq(TextLines)
  BY <1>1, <1>2, CleanupRewrites
<1>4. lines' \in Seq(TextLines) /\ Len(lines') \in Nat
  BY <1>3 DEF Cleanup
<1>5. Rewritten'
  <2>1. RewrittenAs(lines')
    BY <1>3 DEF Cleanup
  <2>2. source' = source /\ forced' = forced
    BY DEF Cleanup
  <2>3. Version' = Version /\ NumbersNextLine' = NumbersNextLine
    BY <2>2, SourceKept
  <2>4. QED
    BY <2>1, <2>2, <2>3 DEF Rewritten, RewrittenAs, DeduceVersionProfile
<1>6. UNCHANGED <<source, num_include_directives, forced, i, at, stages, verdict>>
  BY DEF Cleanup
<1>7. /\ i = 1 /\ at = [name |-> ErrorTag, number |-> 1] /\ stages = <<>>
  BY <1>1 DEF Untouched
<1>8. first' = [pragma |-> Len(lines') + 1, code |-> Len(lines') + 1]
  BY DEF Cleanup
<1>9. WalkedSoFar'
  <2>1. PICK o \in {0, 2, 3} : o = Offset'
    BY <1>5 DEF Rewritten, RewrittenAs, Offset
  <2>8. i' = 1 /\ (1 > o => o = 0 /\ 1 - 1 - o = 0 /\ 1 - o = 1)
    BY <1>6, <1>7
  <2>2. Walked' = 0
    BY <2>1, <2>8 DEF Walked
  <2>3. \A kind : Seen(kind)' = {}
    <3>1. SUFFICES ASSUME NEW kind PROVE Seen(kind)' = {}
      OBVIOUS
    <3>2. Places(kind) \subseteq 1..Len(source) /\ Len(source) \in Nat
      BY <1>1, SourceTypes
    <3>3. Places(kind)' = Places(kind)
      BY <1>6, SourceKept
    <3>4. QED
      BY <2>2, <3>2, <3>3 DEF Seen
  <2>4. LocationKept'
    <3>1. \A k : LocationInSource(k)' = LocationInSource(k)
      BY <1>6, SourceKept
    <3>2. LocationInSource(1) = at'
      BY <1>1, <1>6, <1>7, FirstLocation
    <3>3. QED
      BY <2>1, <2>8, <3>1, <3>2 DEF LocationKept
  <2>5. PragmasFound'
    <3>1. Len(stages') = 0 /\ Cardinality({}) = 0
      BY <1>6, <1>7, FS_EmptySet
    <3>2. 1..0 = {}
      OBVIOUS
    <3>3. QED
      BY <2>3, <3>1, <3>2 DEF PragmasFound
  <2>6. IsFirst(first.pragma, "stage")' /\ IsFirst(first.code, "code")'
    BY <1>8, <2>3 DEF IsFirst
  <2>7. QED
    BY <1>5, <2>4, <2>5, <2>6 DEF WalkedSoFar
<1>10. PragmaTypeOK'
  <2>1. i' \in 1..Len(lines') + 1
    BY <1>4, <1>6, <1>7
  <2>2. first' \in [pragma : 1 .. Len(lines') + 1, code : 1 .. Len(lines') + 1]
    BY <1>4, <1>8
  <2>3. phase' = "scan"
    BY DEF Cleanup
  <2>4. QED
    BY <1>1, <1>4, <1>6, <2>1, <2>2, <2>3 DEF PragmaTypeOK, TextLines
<1>11. Inputs'
  BY <1>1, <1>6 DEF Inputs, Preprocessable
<1>12. phase' = "scan" /\ verdict' = [stage |-> None, errors |-> 0]
  BY <1>6 DEF PragmaIInv, Cleanup
<1>13. QED
  BY <1>9, <1>10, <1>11, <1>12 DEF PragmaIInv, StageIsUnanimous

-----------------------------------------------------------------------------
(* The walk takes a line.                                                  *)

LEMMA LineTypes ==
  ASSUME NEW l \in TextLines
  PROVE  /\ l.kind = "line" => l.text \in Names /\ l.number \in Nat
         /\ l.kind = "stage" => l.text \in Values
<1>1. CASE l \in Lines
  <2>1. l.number \in Nat /\ l.text \in Values
    BY <1>1, StagePragmaAssumption DEF Values
  <2>2. QED
    BY <2>1 DEF Names
<1>2. CASE l \in {Blank, PoundExtension}
  <2>1. Blank.kind = "blank" /\ PoundExtension.kind = "directive"
    BY TagTypes
  <2>2. QED
    BY <1>2, <2>1
<1>3. CASE l \in {Line("line", 0, ErrorTag), Line("line", 1, ErrorTag)}
  <2>1. l.kind = "line" /\ l.text = ErrorTag /\ l.number \in Nat
    BY <1>3 DEF Line
  <2>2. QED
    BY <2>1 DEF Names
<1>4. QED
  BY <1>1, <1>2, <1>3 DEF TextLines

LEMMA FollowingTypes ==
  ASSUME NEW a \in [name : Names, number : Nat], NEW l \in TextLines
  PROVE  Following(a, l) \in [name : Names, number : Nat]
<1>1. CASE l.kind = "line"
  <2>1. l.text \in Names /\ l.number \in Nat /\ l.number + 1 \in Nat
    BY <1>1, LineTypes
  <2>2. QED
    BY <1>1, <2>1 DEF Following
<1>2. CASE l.kind # "line"
  BY <1>2 DEF Following
<1>3. QED
  BY <1>1, <1>2

\* A line of the text is before the source, or is a line of it, or a #version
\* that was blanked.
LEMMA LineIsOfTheSource ==
  ASSUME source \in Seq(Lines), lines \in Seq(TextLines), Rewritten, i \in 1..Len(lines)
  PROVE  /\ Offset \in {0, 2, 3} /\ i \in Nat /\ Len(lines) = Offset + Len(source)
         /\ Len(source) \in Nat /\ lines[i] \in TextLines
         /\ i <= Offset => /\ lines[i].kind \notin {"stage", "code"}
                           /\ i = Offset => lines[i] = Tag
         /\ i > Offset => i - Offset \in 1..Len(source)
         /\ \A k \in 1..Len(source) : i = Offset + k =>
              \A kind \in {"stage", "code", "line"} :
                 /\ lines[i].kind = kind <=> source[k].kind = kind
                 /\ lines[i].kind = kind => lines[i] = source[k]
<1>1. PICK o \in {0, 2, 3} : o = Offset
  BY DEF Rewritten, RewrittenAs, Offset
<1>2. Len(source) \in Nat /\ Len(lines) \in Nat /\ i \in Nat /\ lines[i] \in TextLines
  OBVIOUS
<1>3. Len(lines) = o + Len(source)
  BY <1>1, <1>2 DEF Offset
<1>4. /\ \A k \in 1..Len(source) : lines[o + k] = IF o # 0 /\ source[k].kind = "version"
                                                  THEN Blank ELSE source[k]
      /\ \A k \in 1..o : lines[k].kind \notin {"stage", "code"}
      /\ o # 0 => lines[o] = Tag
  BY <1>1 DEF Rewritten, RewrittenAs, Offset, Tag
<1>5. i <= o => /\ lines[i].kind \notin {"stage", "code"}
                /\ i = o => lines[i] = Tag
  BY <1>2, <1>4
<1>6. i > o => i - o \in 1..Len(source)
  BY <1>2, <1>3
<1>7. ASSUME NEW k \in 1..Len(source), i = o + k, NEW kind \in {"stage", "code", "line"}
      PROVE  /\ lines[i].kind = kind <=> source[k].kind = kind
             /\ lines[i].kind = kind => lines[i] = source[k]
  BY <1>4, <1>7, TagTypes
<1>8. QED
  BY <1>1, <1>2, <1>3, <1>5, <1>6, <1>7

LEMMA SeenTypes ==
  ASSUME source \in Seq(Lines), NEW kind
  PROVE  IsFiniteSet(Seen(kind)) /\ Cardinality(Seen(kind)) \in Nat
         /\ Seen(kind) \subseteq 1..Len(source)
<1>1. Seen(kind) \subseteq 1..Len(source) /\ Len(source) \in Nat
  BY SourceTypes DEF Seen
<1>2. IsFiniteSet(1..Len(source))
  BY <1>1, FS_Interval
<1>3. QED
  BY <1>1, <1>2, FS_Subset, FS_CardinalityType

\* The walk over line k of the source has it seen.
LEMMA SeenGrows ==
  ASSUME source \in Seq(Lines), NEW k \in 1..Len(source), NEW kind,
         Walked = k - 1, Walked' = k, UNCHANGED <<source, forced>>
  PROVE  /\ Seen(kind)' = Seen(kind) \cup (IF source[k].kind = kind THEN {k} ELSE {})
         /\ k \notin Seen(kind)
<1>1. Places(kind) \subseteq 1..Len(source) /\ Len(source) \in Nat
  BY SourceTypes
<1>2. k \in Places(kind) <=> source[k].kind = kind
  BY SourceTypes DEF Places
<1>3. Places(kind)' = Places(kind)
  BY SourceKept
<1>4. \A j \in 1..Len(source) : j <= k <=> j <= k - 1 \/ j = k
  BY <1>1
<1>5. Seen(kind)' = {j \in Places(kind) : j <= k}
  BY <1>3 DEF Seen
<1>6. Seen(kind) = {j \in Places(kind) : j <= k - 1}
  BY DEF Seen
<1>7. k \notin Seen(kind)
  BY <1>1, <1>6
<1>8. QED
  BY <1>1, <1>2, <1>4, <1>5, <1>6, <1>7

\* The pragma on line k is the next one.
LEMMA NextRank ==
  ASSUME source \in Seq(Lines), NEW k \in 1..Len(source), source[k].kind = "stage",
         Walked = k - 1
  PROVE  Rank(k) = Cardinality(Seen("stage")) + 1
<1>1. Places("stage") \subseteq 1..Len(source) /\ Len(source) \in Nat
      /\ k \in Places("stage")
  BY SourceTypes DEF Places
<1>2. {j \in Places("stage") : j <= k} = Seen("stage") \cup {k}
  BY <1>1 DEF Seen
<1>3. k \notin Seen("stage")
  BY <1>1 DEF Seen
<1>4. Cardinality(Seen("stage") \cup {k}) = Cardinality(Seen("stage")) + 1
  BY <1>3, SeenTypes, FS_AddElement
<1>5. QED
  BY <1>2, <1>4 DEF Rank

\* What the walk keeps, whatever the line.
LEMMA ScanTypes ==
  ASSUME PragmaIInv, ScanLine
  PROVE  /\ source \in Seq(Lines) /\ lines \in Seq(TextLines) /\ Len(lines) \in Nat
         /\ Rewritten /\ LocationKept /\ PragmasFound
         /\ IsFirst(first.pragma, "stage") /\ IsFirst(first.code, "code")
         /\ i \in 1..Len(lines) /\ i \in Nat /\ i' = i + 1
         /\ at \in [name : Names, number : Nat] /\ PragmaTypeOK /\ Inputs
         /\ first \in [pragma : 1 .. Len(lines) + 1, code : 1 .. Len(lines) + 1]
         /\ stages \in Seq([name : Names, number : Nat, stage : Values])
         /\ phase' = "scan" /\ verdict' = [stage |-> None, errors |-> 0]
         /\ UNCHANGED <<source, num_include_directives, forced, lines, phase, verdict>>
<1>1. PragmaTypeOK /\ Inputs /\ phase = "scan" /\ i <= Len(lines) /\ i' = i + 1
      /\ UNCHANGED <<source, num_include_directives, forced, lines, phase, verdict>>
  BY DEF PragmaIInv, ScanLine
<1>2. WalkedSoFar /\ verdict = [stage |-> None, errors |-> 0]
  BY <1>1 DEF PragmaIInv
<1>3. /\ lines \in Seq(TextLines) /\ i \in 1..Len(lines) + 1
      /\ at \in [name : Names, number : Nat]
      /\ first \in [pragma : 1 .. Len(lines) + 1, code : 1 .. Len(lines) + 1]
      /\ stages \in Seq([name : Names, number : Nat, stage : Values])
      /\ source \in Seq(Lines)
  BY <1>1 DEF PragmaTypeOK, TextLines
<1>4. Len(lines) \in Nat
  BY <1>3
<1>5. i \in 1..Len(lines) /\ i \in Nat
  BY <1>1, <1>3, <1>4
<1>6. QED
  BY <1>1, <1>2, <1>3, <1>4, <1>5 DEF WalkedSoFar

LEMMA ScanKeepsTypes == ASSUME PragmaIInv, ScanLine PROVE PragmaTypeOK'
<1>1. lines[i] \in TextLines
  BY ScanTypes
<1>2. at' \in [name : Names, number : Nat]
  BY <1>1, ScanTypes, FollowingTypes DEF ScanLine
<1>3. i' \in 1 .. Len(lines') + 1
  BY ScanTypes
<1>4. stages' \in Seq([name : Names, number : Nat, stage : Values])
  <2>1. lines[i].kind = "stage" =>
          [name |-> at.name, number |-> at.number, stage |-> lines[i].text]
            \in [name : Names, number : Nat, stage : Values]
    BY <1>1, ScanTypes, LineTypes
  <2>2. stages \in Seq([name : Names, number : Nat, stage : Values])
    BY ScanTypes
  <2>3. CASE lines[i].kind = "stage"
    <3>1. PICK pragma \in [name : Names, number : Nat, stage : Values] :
            stages' = Append(stages, pragma)
      BY <2>1, <2>3 DEF ScanLine
    <3>2. QED
      BY <2>2, <3>1
  <2>4. CASE lines[i].kind # "stage"
    BY <2>2, <2>4 DEF ScanLine
  <2>5. QED
    BY <2>3, <2>4
<1>5. first' \in [pragma : 1 .. Len(lines') + 1, code : 1 .. Len(lines') + 1]
  <2>1. \A n \in 1 .. Len(lines) + 1 : Least(n, i) \in 1 .. Len(lines) + 1
    BY ScanTypes DEF Least
  <2>2. first' \in [pragma : 1 .. Len(lines) + 1, code : 1 .. Len(lines) + 1]
    BY <2>1, ScanTypes DEF ScanLine
  <2>3. QED
    BY <2>2, ScanTypes
<1>6. verdict' \in [stage : Values \cup {None}, errors : 0 .. Len(stages') + 1]
  <2>1. Len(stages') \in Nat
    BY <1>4
  <2>2. 0 \in 0 .. Len(stages') + 1
    BY <2>1
  <2>3. QED
    BY <2>2, ScanTypes
<1>7. QED
  BY <1>2, <1>3, <1>4, <1>5, <1>6, ScanTypes DEF PragmaTypeOK, TextLines

\* A line of what is before the source.
LEMMA ScanBefore ==
  ASSUME PragmaIInv, ScanLine, i <= Offset
  PROVE  LocationKept' /\ PragmasFound'
         /\ IsFirst(first.pragma, "stage")' /\ IsFirst(first.code, "code")'
<1>1. PICK o \in {0, 2, 3} : o = Offset
  BY ScanTypes, LineIsOfTheSource
<1>2. /\ lines[i].kind \notin {"stage", "code"} /\ (i = o => lines[i] = Tag)
      /\ i \in Nat /\ i' = i + 1 /\ i <= o /\ UNCHANGED <<source, forced, lines>>
  BY <1>1, ScanTypes, LineIsOfTheSource
<1>3. stages' = stages /\ first' = first
  BY <1>2 DEF ScanLine
<1>4. Offset' = o
  BY <1>1, <1>2 DEF Offset
<1>5. Walked = 0
  BY <1>1, <1>2 DEF Walked
<1>6. Walked' = 0
  BY <1>2, <1>4 DEF Walked
<1>7. \A kind : Seen(kind)' = Seen(kind)
  BY <1>2, <1>5, <1>6, SourceKept DEF Seen
<1>8. LocationKept'
  <2>1. \A k : LocationInSource(k)' = LocationInSource(k)
    BY <1>2, SourceKept
  <2>2. i' > o => i = o /\ i' - o = 1
    BY <1>2
  <2>3. i = o => at' = [name |-> ErrorTag, number |-> 1]
    <3>1. SUFFICES ASSUME i = o PROVE at' = [name |-> ErrorTag, number |-> 1]
      OBVIOUS
    <3>2. lines[i] = Tag /\ at' = Following(at, lines[i])
      BY <1>2, <3>1 DEF ScanLine
    <3>3. LineDirectiveIsForNextLine(DeduceVersionProfile(lines)) <=> NumbersNextLine
      BY ScanTypes DEF LineDirectiveIsForNextLine, NumbersNextLine, Rewritten, RewrittenAs
    <3>4. /\ Tag.kind = "line" /\ Tag.text = ErrorTag
          /\ Tag.number = IF NumbersNextLine THEN 1 ELSE 0
      BY DEF Tag, Line
    <3>5. ErrorTag # ""
      BY DEF ErrorTag
    <3>6. at' = [name |-> ErrorTag,
                 number |-> IF NumbersNextLine THEN Tag.number ELSE Tag.number + 1]
      BY <3>2, <3>3, <3>4, <3>5 DEF Following
    <3>7. (IF NumbersNextLine THEN Tag.number ELSE Tag.number + 1) = 1
      BY <3>4
    <3>8. QED
      BY <3>6, <3>7
  <2>4. LocationInSource(1) = [name |-> ErrorTag, number |-> 1]
    BY ScanTypes, FirstLocation
  <2>5. QED
    BY <1>4, <2>1, <2>2, <2>3, <2>4 DEF LocationKept
<1>9. PragmasFound'
  <2>1. \A k : Pragma(k)' = Pragma(k) /\ Rank(k)' = Rank(k)
    BY <1>2, SourceKept
  <2>2. QED
    BY <1>3, <1>7, <2>1, ScanTypes DEF PragmasFound
<1>10. IsFirst(first.pragma, "stage")' /\ IsFirst(first.code, "code")'
  BY <1>1, <1>2, <1>3, <1>4, <1>7, ScanTypes DEF IsFirst
<1>11. QED
  BY <1>8, <1>9, <1>10

LEMMA LeastIsOne ==
  ASSUME NEW m \in Int, NEW n \in Int
  PROVE  Least(m, n) \in {m, n} /\ Least(m, n) <= m /\ Least(m, n) <= n
BY DEF Least

\* A line of the source.
LEMMA ScanLineOfTheSource ==
  ASSUME PragmaIInv, ScanLine, i > Offset
  PROVE  LocationKept' /\ PragmasFound'
         /\ IsFirst(first.pragma, "stage")' /\ IsFirst(first.code, "code")'
<1>1. PICK o \in {0, 2, 3} : o = Offset
  BY ScanTypes, LineIsOfTheSource
<1>2. PICK k \in 1..Len(source) : k = i - o
  BY <1>1, ScanTypes, LineIsOfTheSource
<1>3. /\ Len(source) \in Nat /\ i \in Nat /\ i' = i + 1 /\ i = o + k /\ k \in Nat
      /\ UNCHANGED <<source, forced, lines>> /\ source \in Seq(Lines)
      /\ Len(lines) = o + Len(source) /\ lines[i] \in TextLines
  <2>1. /\ Len(source) \in Nat /\ i \in Nat /\ i' = i + 1 /\ source \in Seq(Lines)
        /\ UNCHANGED <<source, forced, lines>>
        /\ Len(lines) = Offset + Len(source) /\ lines[i] \in TextLines
    BY ScanTypes, LineIsOfTheSource
  <2>2. i = o + k /\ k \in Nat
    BY <1>2, <2>1
  <2>3. QED
    BY <1>1, <2>1, <2>2
<1>4. \A kind \in {"stage", "code", "line"} :
         /\ lines[i].kind = kind <=> source[k].kind = kind
         /\ lines[i].kind = kind => lines[i] = source[k]
  BY <1>1, <1>3, ScanTypes, LineIsOfTheSource
<1>5. Offset' = o
  BY <1>1, <1>3 DEF Offset
<1>6. Walked = k - 1
  BY <1>1, <1>2, <1>3 DEF Walked
<1>7. Walked' = k
  BY <1>2, <1>3, <1>5 DEF Walked
<1>8. at = LocationInSource(k)
  BY <1>1, <1>2, <1>3, ScanTypes DEF LocationKept
<1>9. \A kind : /\ Seen(kind)' = Seen(kind) \cup (IF source[k].kind = kind THEN {k} ELSE {})
                /\ k \notin Seen(kind)
  BY <1>3, <1>6, <1>7, SeenGrows
<1>10. LocationKept'
  <2>1. DeduceVersionProfile(lines) = Version
    BY ScanTypes DEF Rewritten, RewrittenAs
  <2>2. LocationInSource(k + 1) = Following(at, lines[i])
    BY <1>3, <1>4, <1>8, <2>1, LocationAfter
  <2>3. at' = LocationInSource(k + 1)
    BY <2>2 DEF ScanLine
  <2>4. \A m : LocationInSource(m)' = LocationInSource(m)
    BY <1>3, SourceKept
  <2>5. i' - o = k + 1
    BY <1>3
  <2>6. QED
    BY <1>5, <2>3, <2>4, <2>5 DEF LocationKept
<1>11. PragmasFound'
  <2>1. \A m : Pragma(m)' = Pragma(m) /\ Rank(m)' = Rank(m)
    BY <1>3, SourceKept
  <2>2. CASE source[k].kind # "stage"
    <3>1. stages' = stages /\ Seen("stage")' = Seen("stage")
      BY <1>4, <1>9, <2>2 DEF ScanLine
    <3>2. QED
      BY <2>1, <3>1, ScanTypes DEF PragmasFound
  <2>3. CASE source[k].kind = "stage"
    <3> DEFINE n == Len(stages)
    <3>1. /\ n \in Nat /\ n = Cardinality(Seen("stage"))
          /\ \A m \in Seen("stage") : Rank(m) \in 1..n /\ stages[Rank(m)] = Pragma(m)
          /\ \A r \in 1..n : \E m \in Seen("stage") : Rank(m) = r
      BY ScanTypes DEF PragmasFound
    <3>2. /\ stages' = Append(stages, Pragma(k))
          /\ Len(stages') = n + 1 /\ stages'[n + 1] = Pragma(k)
          /\ \A r \in 1..n : stages'[r] = stages[r]
      <4>1. Pragma(k) = [name |-> at.name, number |-> at.number, stage |-> lines[i].text]
        BY <1>4, <1>8, <2>3 DEF Pragma
      <4>2. stages' = Append(stages, Pragma(k))
        BY <1>4, <2>3, <4>1 DEF ScanLine
      <4>3. QED
        BY <4>2, ScanTypes
    <3> HIDE DEF n
    <3>3. Rank(k) = n + 1
      BY <1>3, <1>6, <2>3, <3>1, NextRank
    <3>4. Seen("stage")' = Seen("stage") \cup {k} /\ k \notin Seen("stage")
      BY <1>9, <2>3
    <3>5. Cardinality(Seen("stage") \cup {k}) = n + 1
      BY <1>3, <3>1, <3>4, SeenTypes, FS_AddElement
    <3>6. \A m \in Seen("stage") \cup {k} :
             Rank(m) \in 1..n + 1 /\ stages'[Rank(m)] = Pragma(m)
      BY <3>1, <3>2, <3>3
    <3>7. \A r \in 1..n + 1 : \E m \in Seen("stage") \cup {k} : Rank(m) = r
      <4>1. \A r \in 1..n + 1 : r \in 1..n \/ r = n + 1
        BY <3>1
      <4>2. QED
        BY <3>1, <3>3, <4>1
    <3>8. QED
      BY <2>1, <3>2, <3>4, <3>5, <3>6, <3>7 DEF PragmasFound
  <2>4. QED
    BY <2>2, <2>3
<1>12. \A place, kind : IsFirst(place, kind) <=>
          /\ \A m \in Seen(kind) : place <= o + m
          /\ place = Len(lines) + 1 \/ \E m \in Seen(kind) : place = o + m
  BY <1>1 DEF IsFirst
<1>13. IsFirst(first.pragma, "stage")'
  <2>1. first'.pragma = IF source[k].kind = "stage" THEN Least(first.pragma, i) ELSE first.pragma
    BY <1>4, ScanTypes DEF ScanLine
  <2>2. /\ first.pragma \in 1..Len(lines) + 1 /\ Len(lines) \in Nat
        /\ Seen("stage") \subseteq 1..Len(source)
    BY <1>3, ScanTypes, SeenTypes
  <2>3. /\ \A m \in Seen("stage") : first.pragma <= o + m
        /\ first.pragma = Len(lines) + 1 \/ \E m \in Seen("stage") : first.pragma = o + m
    BY <1>12, ScanTypes
  <2>4. /\ \A m \in Seen("stage")' : first'.pragma <= o + m
        /\ first'.pragma = Len(lines) + 1 \/ \E m \in Seen("stage")' : first'.pragma = o + m
    <3>1. CASE source[k].kind # "stage"
      BY <1>9, <2>1, <2>3, <3>1
    <3>2. CASE source[k].kind = "stage"
      <4>1. Seen("stage")' = Seen("stage") \cup {k} /\ first'.pragma = Least(first.pragma, i)
        BY <1>9, <2>1, <3>2
      <4>2. PICK q \in {first.pragma, i} : q = first'.pragma /\ q <= first.pragma /\ q <= i
        BY <1>3, <2>2, <4>1, LeastIsOne
      <4>3. ASSUME NEW m \in Seen("stage")' PROVE q <= o + m
        <5>1. CASE m = k
          BY <1>3, <4>2, <5>1
        <5>2. CASE m \in Seen("stage")
          <6>1. first.pragma <= o + m /\ m \in Int /\ first.pragma \in Int /\ q \in Int
            BY <1>3, <2>2, <2>3, <4>2, <5>2
          <6>2. QED
            BY <4>2, <6>1
        <5>3. QED
          BY <4>1, <5>1, <5>2
      <4>4. q = Len(lines) + 1 \/ \E m \in Seen("stage")' : q = o + m
        <5>1. CASE q = i
          BY <1>3, <4>1, <5>1
        <5>2. CASE q = first.pragma
          BY <2>3, <4>1, <5>2
        <5>3. QED
          BY <4>2, <5>1, <5>2
      <4>5. QED
        BY <4>2, <4>3, <4>4
    <3>3. QED
      BY <3>1, <3>2
  <2>5. QED
    BY <1>3, <1>5, <2>4 DEF IsFirst
<1>14. IsFirst(first.code, "code")'
  <2>1. first'.code = IF source[k].kind = "code" THEN Least(first.code, i) ELSE first.code
    BY <1>4, ScanTypes DEF ScanLine
  <2>2. /\ first.code \in 1..Len(lines) + 1 /\ Len(lines) \in Nat
        /\ Seen("code") \subseteq 1..Len(source)
    BY <1>3, ScanTypes, SeenTypes
  <2>3. /\ \A m \in Seen("code") : first.code <= o + m
        /\ first.code = Len(lines) + 1 \/ \E m \in Seen("code") : first.code = o + m
    BY <1>12, ScanTypes
  <2>4. /\ \A m \in Seen("code")' : first'.code <= o + m
        /\ first'.code = Len(lines) + 1 \/ \E m \in Seen("code")' : first'.code = o + m
    <3>1. CASE source[k].kind # "code"
      BY <1>9, <2>1, <2>3, <3>1
    <3>2. CASE source[k].kind = "code"
      <4>1. Seen("code")' = Seen("code") \cup {k} /\ first'.code = Least(first.code, i)
        BY <1>9, <2>1, <3>2
      <4>2. PICK q \in {first.code, i} : q = first'.code /\ q <= first.code /\ q <= i
        BY <1>3, <2>2, <4>1, LeastIsOne
      <4>3. ASSUME NEW m \in Seen("code")' PROVE q <= o + m
        <5>1. CASE m = k
          BY <1>3, <4>2, <5>1
        <5>2. CASE m \in Seen("code")
          <6>1. first.code <= o + m /\ m \in Int /\ first.code \in Int /\ q \in Int
            BY <1>3, <2>2, <2>3, <4>2, <5>2
          <6>2. QED
            BY <4>2, <6>1
        <5>3. QED
          BY <4>1, <5>1, <5>2
      <4>4. q = Len(lines) + 1 \/ \E m \in Seen("code")' : q = o + m
        <5>1. CASE q = i
          BY <1>3, <4>1, <5>1
        <5>2. CASE q = first.code
          BY <2>3, <4>1, <5>2
        <5>3. QED
          BY <4>2, <5>1, <5>2
      <4>5. QED
        BY <4>2, <4>3, <4>4
    <3>3. QED
      BY <3>1, <3>2
  <2>5. QED
    BY <1>3, <1>5, <2>4 DEF IsFirst
<1>15. QED
  BY <1>10, <1>11, <1>13, <1>14

LEMMA ScanKeeps == ASSUME PragmaIInv, ScanLine PROVE PragmaIInv'
<1>1. /\ phase' = "scan" /\ verdict' = [stage |-> None, errors |-> 0]
      /\ UNCHANGED <<source, num_include_directives, forced, lines>>
  BY ScanTypes
<1>2. Rewritten'
  <2>1. Rewritten /\ Version' = Version /\ NumbersNextLine' = NumbersNextLine
    BY <1>1, ScanTypes, SourceKept
  <2>2. DeduceVersionProfile(lines)' = DeduceVersionProfile(lines)
    BY <1>1 DEF DeduceVersionProfile
  <2>3. QED
    BY <1>1, <2>1, <2>2 DEF Rewritten, RewrittenAs, Preprocessable
<1>3. \/ i <= Offset
      \/ i > Offset
  <2>1. i \in Nat /\ Offset \in {0, 2, 3}
    BY ScanTypes, LineIsOfTheSource
  <2>2. QED
    BY <2>1
<1>4. WalkedSoFar'
  BY <1>2, <1>3, ScanBefore, ScanLineOfTheSource DEF WalkedSoFar
<1>5. Inputs'
  BY <1>1, ScanTypes DEF Inputs, Preprocessable
<1>6. QED
  BY <1>1, <1>4, <1>5, ScanKeepsTypes DEF PragmaIInv, StageIsUnanimous

-----------------------------------------------------------------------------
(* The end of the walk.                                                    *)

AtTheEnd == phase # "cleanup" /\ i > Len(lines)

\* At the end all has been seen.
LEMMA AllSeen ==
  ASSUME PragmaIInv, AtTheEnd
  PROVE  /\ \A kind : Seen(kind) = Places(kind)
         /\ source \in Seq(Lines) /\ PragmasFound /\ Len(lines) \in Nat
         /\ i = Len(lines) + 1 /\ Len(stages) \in Nat
         /\ stages \in Seq([name : Names, number : Nat, stage : Values])
         /\ first.pragma \in Nat /\ first.code \in Nat
         /\ IsFirst(first.pragma, "stage") /\ IsFirst(first.code, "code")
         /\ PragmaTypeOK /\ Inputs /\ WalkedSoFar
<1>1. PragmaTypeOK /\ Inputs /\ WalkedSoFar /\ i > Len(lines)
  BY DEF PragmaIInv, AtTheEnd
<1>2. /\ source \in Seq(Lines) /\ lines \in Seq(TextLines) /\ i \in 1..Len(lines) + 1
      /\ stages \in Seq([name : Names, number : Nat, stage : Values])
      /\ first \in [pragma : 1 .. Len(lines) + 1, code : 1 .. Len(lines) + 1]
  BY <1>1 DEF PragmaTypeOK, TextLines
<1>3. Len(lines) \in Nat /\ Len(source) \in Nat /\ Len(stages) \in Nat
  BY <1>2
<1>4. i = Len(lines) + 1
  BY <1>1, <1>2, <1>3
<1>5. PICK o \in {0, 2, 3} : o = Offset
  BY <1>1 DEF WalkedSoFar, Rewritten, RewrittenAs, Offset
<1>6. Len(lines) = o + Len(source)
  BY <1>3, <1>5 DEF Offset
<1>7. Walked = Len(source)
  BY <1>3, <1>4, <1>5, <1>6 DEF Walked
<1>8. \A kind : Seen(kind) = Places(kind)
  <2>1. SUFFICES ASSUME NEW kind PROVE Seen(kind) = Places(kind)
    OBVIOUS
  <2>2. Places(kind) \subseteq 1..Len(source)
    BY <1>2, SourceTypes
  <2>3. QED
    BY <1>3, <1>7, <2>2 DEF Seen
<1>9. first.pragma \in Nat /\ first.code \in Nat
  BY <1>2, <1>3
<1>10. QED
  BY <1>1, <1>2, <1>3, <1>4, <1>8, <1>9 DEF WalkedSoFar

\* What was found is what the source has, in its order.
LEMMA PragmasInOrder ==
  ASSUME PragmaIInv, AtTheEnd
  PROVE  stages = Selected([k \in DOMAIN source |-> Pragma(k)], Places("stage"))
<1> DEFINE n == Len(stages)  found == [k \in DOMAIN source |-> Pragma(k)]
<1>1. /\ n \in Nat /\ n = Cardinality(Places("stage"))
      /\ stages \in Seq([name : Names, number : Nat, stage : Values])
      /\ \A k \in Places("stage") : Rank(k) \in 1..n /\ stages[Rank(k)] = Pragma(k)
      /\ \A m \in 1..n : \E k \in Places("stage") : Rank(k) = m
  BY AllSeen DEF PragmasFound
<1>2. stages = [m \in 1..n |-> stages[m]]
  BY <1>1
<1>3. ASSUME NEW m \in 1..n
      PROVE  stages[m] = found[CHOOSE k \in Places("stage") :
                               Cardinality({j \in Places("stage") : j <= k}) = m]
  <2> DEFINE k0 == CHOOSE k \in Places("stage") : Rank(k) = m
  <2>1. k0 \in Places("stage") /\ Rank(k0) = m
    BY <1>1
  <2>2. k0 \in DOMAIN source
    BY <2>1 DEF Places
  <2>3. k0 = CHOOSE k \in Places("stage") : Cardinality({j \in Places("stage") : j <= k}) = m
    BY DEF Rank
  <2> HIDE DEF k0
  <2>4. stages[m] = Pragma(k0) /\ found[k0] = Pragma(k0)
    BY <1>1, <2>1, <2>2
  <2>5. QED
    BY <2>3, <2>4
<1> HIDE DEF found, n
<1>4. stages = [m \in 1..n |-> found[CHOOSE k \in Places("stage") :
                               Cardinality({j \in Places("stage") : j <= k}) = m]]
  BY <1>2, <1>3
<1>5. stages = Selected(found, Places("stage"))
  BY <1>1, <1>4 DEF Selected
<1>6. QED
  BY <1>5 DEF found

\* The pragmas of one stage, which is known, and before any code.
Agreed ==
  /\ \A j, k \in Places("stage") : source[j].text = source[k].text
  /\ \A k \in Places("stage") : MapStageNameToLanguage(source[k].text) # None
  /\ \E k \in Places("stage") : \A j \in Places("code") : k < j

\* The first pragma is behind code unless some pragma is before all code.
LEMMA BehindCode ==
  ASSUME PragmaIInv, AtTheEnd, Places("stage") # {}
  PROVE  first.pragma > first.code <=>
           ~ \E k \in Places("stage") : \A j \in Places("code") : k < j
<1>1. PICK o \in {0, 2, 3} : o = Offset
  BY AllSeen DEF WalkedSoFar, Rewritten, RewrittenAs, Offset
<1>2. /\ \A k \in Places("stage") : first.pragma <= o + k
      /\ first.pragma = Len(lines) + 1 \/ \E k \in Places("stage") : first.pragma = o + k
      /\ \A k \in Places("code") : first.code <= o + k
      /\ first.code = Len(lines) + 1 \/ \E k \in Places("code") : first.code = o + k
  BY <1>1, AllSeen DEF IsFirst
<1>3. /\ Places("stage") \subseteq 1..Len(source) /\ Places("code") \subseteq 1..Len(source)
      /\ Len(source) \in Nat /\ Len(lines) \in Nat /\ Len(lines) - Len(source) = o
      /\ first.pragma \in Nat /\ first.code \in Nat
  BY <1>1, AllSeen, SourceTypes DEF Offset
<1>4. \A k \in Places("stage") : \A j \in Places("code") : k # j
  BY DEF Places
<1>5. PICK p \in Places("stage") : first.pragma = o + p
  <2>1. \A k \in Places("stage") : o + k # Len(lines) + 1 /\ o + k < Len(lines) + 1
    BY <1>3
  <2>2. PICK k \in Places("stage") : TRUE
    OBVIOUS
  <2>3. first.pragma <= o + k /\ o + k < Len(lines) + 1
    BY <1>2, <2>1, <2>2
  <2>4. k \in Nat
    BY <1>3
  <2>5. first.pragma # Len(lines) + 1
    BY <1>3, <2>3, <2>4
  <2>6. QED
    BY <1>2, <2>5
<1>6. p \in Nat /\ \A j \in Places("code") \cup Places("stage") : j \in Nat
  BY <1>3
<1>7. ASSUME first.pragma > first.code
      PROVE  \A k \in Places("stage") : \E j \in Places("code") : ~ (k < j)
  <2>1. first.code # Len(lines) + 1
    <3>1. o + p < Len(lines) + 1
      BY <1>3
    <3>2. QED
      BY <1>3, <1>5, <1>6, <1>7, <3>1
  <2>2. PICK c \in Places("code") : first.code = o + c
    BY <1>2, <2>1
  <2>3. c < p
    BY <1>5, <1>6, <1>7, <2>2
  <2>4. ASSUME NEW k \in Places("stage") PROVE ~ (k < c)
    <3>1. o + p <= o + k
      BY <1>2, <1>5
    <3>2. QED
      BY <1>6, <2>3, <3>1
  <2>5. QED
    BY <2>4
<1>8. ASSUME ~ (first.pragma > first.code), NEW j \in Places("code")
      PROVE  p < j
  <2>1. o + p <= first.code /\ first.code <= o + j
    BY <1>2, <1>3, <1>5, <1>6, <1>8
  <2>2. p <= j /\ p # j
    BY <1>3, <1>4, <1>6, <2>1
  <2>3. QED
    BY <1>6, <2>2
<1>9. QED
  BY <1>7, <1>8

\* The stages found are those of the pragmas in the source.
LEMMA StagesOfPragmas ==
  ASSUME PragmaIInv, AtTheEnd
  PROVE  /\ stages = <<>> <=> Places("stage") = {}
         /\ \A k \in Places("stage") : \E m \in 1..Len(stages) : stages[m].stage = source[k].text
         /\ \A m \in 1..Len(stages) : \E k \in Places("stage") : stages[m].stage = source[k].text
<1>1. /\ stages \in Seq([name : Names, number : Nat, stage : Values])
      /\ \A k \in Places("stage") : Rank(k) \in 1..Len(stages) /\ stages[Rank(k)] = Pragma(k)
      /\ \A m \in 1..Len(stages) : \E k \in Places("stage") : Rank(k) = m
  BY AllSeen DEF PragmasFound
<1>2. \A k : Pragma(k).stage = source[k].text
  BY DEF Pragma
<1>3. \A k \in Places("stage") : \E m \in 1..Len(stages) : stages[m].stage = source[k].text
  BY <1>1, <1>2
<1>4. \A m \in 1..Len(stages) : \E k \in Places("stage") : stages[m].stage = source[k].text
  BY <1>1, <1>2
<1>5. stages = <<>> <=> Places("stage") = {}
  <2>1. stages = <<>> <=> 1..Len(stages) = {}
    BY <1>1
  <2>2. QED
    BY <1>3, <1>4, <2>1
<1>6. QED
  BY <1>3, <1>4, <1>5

\* There is no error exactly if the pragmas agree.
LEMMA ErrorsOfPragmas ==
  ASSUME PragmaIInv, AtTheEnd, Places("stage") # {}
  PROVE  /\ ErrorsIn(stages, first) \in 0..Len(stages) + 1
         /\ ErrorsIn(stages, first) = 0 <=> Agreed
<1> DEFINE n == Len(stages)
           different == {k \in 2 .. n : stages[k].stage # stages[1].stage}
           behind == IF first.pragma > first.code THEN 1 ELSE 0
           unknown == IF MapStageNameToLanguage(stages[1].stage) = None THEN 1 ELSE 0
<1>1. n \in Nat /\ n # 0
  <2>1. stages # <<>> /\ n \in Nat
        /\ stages \in Seq([name : Names, number : Nat, stage : Values])
    BY StagesOfPragmas, AllSeen
  <2>2. QED
    BY <2>1
<1>2. ErrorsIn(stages, first) = behind + unknown + Cardinality(different)
  BY DEF ErrorsIn
<1>3. /\ IsFiniteSet(different) /\ Cardinality(different) \in Nat
      /\ Cardinality(different) <= n - 1
      /\ Cardinality(different) = 0 <=> different = {}
  <2>1. IsFiniteSet(2..n) /\ Cardinality(2..n) = n - 1
    <3>1. IsFiniteSet(2..n) /\ Cardinality(2..n) = IF 2 <= n THEN n - 2 + 1 ELSE 0
      BY <1>1, FS_Interval
    <3>2. QED
      BY <1>1, <3>1
  <2>2. different \subseteq 2..n
    OBVIOUS
  <2>3. IsFiniteSet(different) /\ Cardinality(different) <= n - 1
    BY <2>1, <2>2, FS_Subset
  <2>4. QED
    BY <2>3, FS_CardinalityType, FS_EmptySet
<1>4. behind \in {0, 1} /\ unknown \in {0, 1}
  OBVIOUS
<1>5. \A k \in Places("stage") : \E m \in 1..n : stages[m].stage = source[k].text
  BY StagesOfPragmas
<1>6. \A m \in 1..n : \E k \in Places("stage") : stages[m].stage = source[k].text
  BY StagesOfPragmas
<1>7. different = {} <=> \A j, k \in Places("stage") : source[j].text = source[k].text
  <2>1. different = {} <=> \A m \in 1..n : stages[m].stage = stages[1].stage
    <3>1. \A m \in 1..n : m = 1 \/ m \in 2..n
      BY <1>1
    <3>2. \A m \in 2..n : m \in 1..n
      BY <1>1
    <3>3. QED
      BY <3>1, <3>2
  <2>2. 1 \in 1..n
    BY <1>1
  <2> HIDE DEF different, n
  <2>3. QED
    BY <1>5, <1>6, <2>1, <2>2
<1>8. behind = 0 <=> \E k \in Places("stage") : \A j \in Places("code") : k < j
  BY BehindCode
<1>9. ASSUME different = {}
      PROVE  unknown = 0 <=> \A k \in Places("stage") :
                               MapStageNameToLanguage(source[k].text) # None
  <2>1. PICK p \in Places("stage") : stages[1].stage = source[p].text
    BY <1>1, <1>6
  <2>2. \A k \in Places("stage") : source[k].text = source[p].text
    BY <1>7, <1>9, <2>1
  <2>3. QED
    BY <2>1, <2>2
<1> HIDE DEF n, different, behind, unknown
<1>10. ErrorsIn(stages, first) = 0 <=> behind = 0 /\ unknown = 0 /\ different = {}
  BY <1>2, <1>3, <1>4
<1>11. ErrorsIn(stages, first) \in 0..n + 1
  BY <1>1, <1>2, <1>3, <1>4
<1>12. QED
  BY <1>7, <1>8, <1>9, <1>10, <1>11 DEF Agreed, n

LEMMA KnownStages ==
  ASSUME NEW stage
  PROVE  MapStageNameToLanguage(stage) \in {stage, None}
BY DEF MapStageNameToLanguage

\* What was seen stays seen.
LEMMA WalkKept ==
  ASSUME WalkedSoFar, UNCHANGED <<source, forced, lines, i, at, stages, first>>
  PROVE  WalkedSoFar'
<1>1. /\ \A kind : Places(kind)' = Places(kind)
      /\ Version' = Version /\ NumbersNextLine' = NumbersNextLine
      /\ \A k : LocationInSource(k)' = LocationInSource(k)
      /\ \A k : Pragma(k)' = Pragma(k) /\ Rank(k)' = Rank(k)
  BY SourceKept
<1>2. Offset' = Offset /\ Walked' = Walked
  BY DEF Offset, Walked
<1>3. \A kind : Seen(kind)' = Seen(kind)
  BY <1>1, <1>2 DEF Seen
<1>4. Rewritten'
  <2>1. DeduceVersionProfile(lines)' = DeduceVersionProfile(lines)
    BY DEF DeduceVersionProfile
  <2>2. QED
    BY <1>1, <2>1 DEF WalkedSoFar, Rewritten, RewrittenAs, Preprocessable
<1>5. LocationKept'
  BY <1>1, <1>2 DEF WalkedSoFar, LocationKept
<1>6. PragmasFound'
  BY <1>1, <1>3 DEF WalkedSoFar, PragmasFound
<1>7. IsFirst(first.pragma, "stage")' /\ IsFirst(first.code, "code")'
  BY <1>2, <1>3 DEF WalkedSoFar, IsFirst
<1>8. QED
  BY <1>4, <1>5, <1>6, <1>7 DEF WalkedSoFar

LEMMA ConcludeKeeps == ASSUME PragmaIInv, Conclude PROVE PragmaIInv'
<1> AtTheEnd
  BY DEF Conclude, AtTheEnd
<1>1. /\ UNCHANGED <<source, num_include_directives, forced, lines, i, at, stages, first>>
      /\ phase' = "done" /\ phase = "scan"
  BY DEF Conclude
<1>2. PragmaTypeOK /\ Inputs /\ WalkedSoFar /\ verdict = [stage |-> None, errors |-> 0]
      /\ i = Len(lines) + 1
  BY <1>1, AllSeen DEF PragmaIInv
<1>3. Inputs' /\ WalkedSoFar' /\ i' = Len(lines') + 1
  BY <1>1, <1>2, WalkKept DEF Inputs, Preprocessable
<1>4. \A kind : Places(kind)' = Places(kind)
  BY <1>1, SourceKept
<1>5. verdict' \in [stage : Values \cup {None}, errors : 0 .. Len(stages) + 1]
      /\ StageIsUnanimous'
  <2>1. CASE Places("stage") = {}
    <3>1. verdict' = [stage |-> None, errors |-> 0]
      BY <1>2, <2>1, StagesOfPragmas DEF Conclude
    <3>2. Len(stages) \in Nat
      BY AllSeen
    <3>3. ~ (0 > 0) /\ 0 \in 0 .. Len(stages) + 1
      BY <3>2
    <3>4. verdict' \in [stage : Values \cup {None}, errors : 0 .. Len(stages) + 1]
      BY <3>1, <3>3
    <3>5. StageIsUnanimous'
      BY <1>4, <2>1, <3>1, <3>3 DEF StageIsUnanimous
    <3>6. QED
      BY <3>4, <3>5
  <2>2. CASE Places("stage") # {}
    <3> DEFINE errors == ErrorsIn(stages, first)
               stage == IF errors = 0 THEN MapStageNameToLanguage(stages[1].stage) ELSE None
    <3>1. verdict' = [errors |-> errors, stage |-> stage]
      BY <2>2, StagesOfPragmas DEF Conclude
    <3>2. errors \in 0 .. Len(stages) + 1 /\ (errors = 0 <=> Agreed)
      BY <2>2, ErrorsOfPragmas
    <3>3. PICK p \in Places("stage") : stages[1].stage = source[p].text
      <4>1. stages # <<>> /\ stages \in Seq([name : Names, number : Nat, stage : Values])
        BY <2>2, AllSeen, StagesOfPragmas
      <4>2. 1 \in 1..Len(stages)
        BY <4>1
      <4>3. QED
        BY <4>2, StagesOfPragmas
    <3>4. source[p].text \in Values
      BY AllSeen, SourceTypes
    <3> HIDE DEF errors
    <3>5. stage \in Values \cup {None}
      BY <3>3, <3>4, KnownStages
    <3>6. Agreed => \A k \in Places("stage") : stage = MapStageNameToLanguage(source[k].text)
                                               /\ stage # None
      <4>1. SUFFICES ASSUME Agreed, NEW k \in Places("stage")
                     PROVE  stage = MapStageNameToLanguage(source[k].text) /\ stage # None
        OBVIOUS
      <4>2. source[k].text = source[p].text /\ MapStageNameToLanguage(source[k].text) # None
        BY <4>1 DEF Agreed
      <4>3. QED
        BY <3>2, <3>3, <4>1, <4>2
    <3>7. ~ Agreed => stage = None
      BY <3>2
    <3>8. errors > 0 <=> ~ Agreed
      <4>1. Len(stages) \in Nat
        BY AllSeen
      <4>2. QED
        BY <3>2, <4>1
    <3> HIDE DEF stage
    <3>9. Agreed' = Agreed
      BY <1>1, <1>4 DEF Agreed
    <3>10. StageIsUnanimous'
      <4>1. /\ stage # None <=> Agreed
            /\ errors > 0 <=> ~ Agreed
            /\ Agreed => \A k \in Places("stage") : stage = MapStageNameToLanguage(source[k].text)
        BY <2>2, <3>3, <3>6, <3>7, <3>8
      <4>2. verdict'.stage = stage /\ verdict'.errors = errors
        BY <3>1
      <4>3. QED
        BY <1>1, <1>4, <2>2, <4>1, <4>2 DEF StageIsUnanimous, Agreed
    <3>11. verdict' \in [stage : Values \cup {None}, errors : 0 .. Len(stages) + 1]
      BY <3>1, <3>2, <3>5
    <3>12. QED
      BY <3>10, <3>11
  <2>3. QED
    BY <2>1, <2>2
<1>6. PragmaTypeOK'
  BY <1>1, <1>2, <1>5 DEF PragmaTypeOK
<1>7. QED
  BY <1>1, <1>3, <1>5, <1>6 DEF PragmaIInv

LEMMA StutterKeeps == ASSUME PragmaIInv, UNCHANGED pragmaVars PROVE PragmaIInv'
<1>1. UNCHANGED <<source, num_include_directives, forced, lines, phase, i, at, stages,
                  first, verdict>>
  BY DEF pragmaVars
<1>2. PragmaTypeOK' /\ Inputs'
  BY <1>1 DEF PragmaIInv, PragmaTypeOK, Inputs, Preprocessable
<1>3. phase' = "cleanup" => Untouched'
  BY <1>1 DEF PragmaIInv, Untouched
<1>4. phase' # "cleanup" => WalkedSoFar'
  BY <1>1, WalkKept DEF PragmaIInv
<1>5. StageIsUnanimous'
  <2>1. \A kind : Places(kind)' = Places(kind)
    BY <1>1, SourceKept
  <2>2. QED
    BY <1>1, <2>1 DEF PragmaIInv, StageIsUnanimous
<1>6. QED
  BY <1>1, <1>2, <1>3, <1>4, <1>5 DEF PragmaIInv

\* What the walk has done so far is what the source says of the lines seen.
THEOREM PragmaInvariance == PragmaSpec => []PragmaIInv
<1>1. PragmaInit => PragmaIInv
  BY PragmaInitIInv
<1>2. PragmaIInv /\ [PragmaNext]_pragmaVars => PragmaIInv'
  BY CleanupKeeps, ScanKeeps, ConcludeKeeps, StutterKeeps DEF PragmaNext, PragmaDone
<1>3. QED
  BY <1>1, <1>2, PTL DEF PragmaSpec

\* The walk reads no line that is not there, and keeps to its types.
THEOREM PragmaTypeCorrect == PragmaSpec => []PragmaTypeOK
<1>1. PragmaIInv => PragmaTypeOK
  BY DEF PragmaIInv
<1>2. QED
  BY <1>1, PragmaInvariance, PTL

\* Whatever the preamble held and wherever #version went, each pragma is found
\* where its author counts it, and in their order; and the text that is left
\* has #version where the compiler accepts it.
THEOREM PragmasCorrect == PragmaSpec => []PragmasKeepTheirPlace
<1>1. ASSUME PragmaIInv PROVE PragmasKeepTheirPlace
  <2>1. phase # "cleanup" => Preprocessable(lines)
    BY <1>1 DEF PragmaIInv, WalkedSoFar, Rewritten, RewrittenAs
  <2>2. ASSUME phase = "done"
        PROVE  stages = Selected([k \in DOMAIN source |-> Pragma(k)], Places("stage"))
    <3>1. i = Len(lines) + 1 /\ Len(lines) \in Nat
      BY <1>1, <2>2 DEF PragmaIInv, PragmaTypeOK
    <3>2. AtTheEnd
      BY <2>2, <3>1 DEF AtTheEnd
    <3>3. QED
      BY <1>1, <3>2, PragmasInOrder
  <2>3. QED
    BY <2>1, <2>2 DEF PragmasKeepTheirPlace
<1>2. QED
  BY <1>1, PragmaInvariance, PTL

\* The walk finds a stage exactly if there are pragmas that agree.
THEOREM VerdictCorrect == PragmaSpec => []StageIsUnanimous
<1>1. PragmaIInv => StageIsUnanimous
  BY DEF PragmaIInv
<1>2. QED
  BY <1>1, PragmaInvariance, PTL

-----------------------------------------------------------------------------
(* The two together: what Compile is given for the pragmas of its source.  *)

\* What GetShaderStageFromSourceCode returns to Compile.
Deduced ==
  CASE verdict.errors > 0 -> "error"
    [] ~ verdict.errors > 0 /\ verdict.stage = None -> NoStage
    [] OTHER -> verdict.stage

\* Compile knows the stages that pragmas can name.
KnownToCompile == \A l \in Lines : MapStageNameToLanguage(l.text) \in Stages \cup {None}

\* By the pragmas alone.
LEMMA DeducedByPragmas ==
  ASSUME KnownToCompile, source \in Seq(Lines), StageIsUnanimous, phase = "done"
  PROVE  /\ Places("stage") = {} => Deduced = NoStage
         /\ Places("stage") # {} /\ ~ Agreed => Deduced = "error"
         /\ Places("stage") # {} /\ Agreed =>
              /\ Deduced \in Stages
              /\ \A k \in Places("stage") : Deduced = MapStageNameToLanguage(source[k].text)
<1>1. /\ verdict.stage # None <=> Places("stage") # {} /\ Agreed
      /\ verdict.errors > 0 <=> Places("stage") # {} /\ ~ Agreed
      /\ verdict.stage # None =>
           \A k \in Places("stage") : verdict.stage = MapStageNameToLanguage(source[k].text)
  BY DEF StageIsUnanimous, Agreed
<1>2. CASE Places("stage") = {}
  BY <1>1, <1>2 DEF Deduced
<1>3. CASE Places("stage") # {} /\ ~ Agreed
  BY <1>1, <1>3 DEF Deduced
<1>4. CASE Places("stage") # {} /\ Agreed
  <2>1. Deduced = verdict.stage /\ verdict.stage # None
    BY <1>1, <1>4 DEF Deduced
  <2>2. PICK k \in Places("stage") : TRUE
    BY <1>4
  <2>3. source[k] \in Lines
    BY SourceTypes
  <2>4. verdict.stage \in Stages \cup {None}
    BY <1>1, <2>1, <2>3 DEF KnownToCompile
  <2>5. QED
    BY <1>1, <1>4, <2>1, <2>4
<1>5. QED
  BY <1>2, <1>3, <1>4

\* Compile's calls leave out no verdict: a walk that has ended gives Compile a
\* stage, none, or an error.
THEOREM VerdictIsAnInput ==
  ASSUME KnownToCompile
  PROVE  PragmaSpec => [](phase = "done" => Deduced \in Stages \cup {NoStage, "error"})
<1>1. ASSUME PragmaIInv, phase = "done" PROVE Deduced \in Stages \cup {NoStage, "error"}
  <2>1. source \in Seq(Lines) /\ StageIsUnanimous
    BY <1>1 DEF PragmaIInv, Inputs
  <2>2. QED
    BY <1>1, <2>1, DeducedByPragmas
<1>2. PragmaIInv => (phase = "done" => Deduced \in Stages \cup {NoStage, "error"})
  BY <1>1
<1>3. QED
  BY <1>2, PragmaInvariance, PTL

\* Compile was given what the walk over the same source found, its client did
\* not force a stage, and it made SPIR-V.
CompiledAsDeduced ==
  /\ Succeeded /\ Compiled /\ call.kind.how # "forced"
  /\ phase = "done" /\ call.pragma = Deduced

\* "Shader stage specification" of glslc/README.asciidoc, of what the author
\* wrote and through to the binary: if there are pragmas then all are of one
\* stage that is known, the first is before any code, and that stage was
\* compiled; if there are none then the client's default stage was.
StageIsTheAuthors ==
  IF Places("stage") = {} THEN local.used_shader_stage = call.kind.stage
  ELSE Agreed /\ \A k \in Places("stage") :
                      local.used_shader_stage = MapStageNameToLanguage(source[k].text)

\* What is compiled is of the stage that the author's pragmas name, or of the
\* client's default where there are none.
THEOREM AuthorDecidesTheStage ==
  ASSUME KnownToCompile
  PROVE  Spec /\ PragmaSpec => [](CompiledAsDeduced => StageIsTheAuthors)
<1>1. ASSUME IInv, PragmaIInv, CompiledAsDeduced PROVE StageIsTheAuthors
  <2>1. /\ call.kind.how # "forced" /\ call.pragma = Deduced
        /\ local.used_shader_stage = IF call.pragma # NoStage THEN call.pragma
                                     ELSE call.kind.stage
    BY <1>1 DEF CompiledAsDeduced, IInv, Properties, StageIsDecided
  <2>2. local.used_shader_stage \in Stages \cup {NoStage}
    BY <1>1 DEF IInv, TypeOK, Locals
  <2>3. NoStage \notin Stages \cup {"error"} /\ "error" \notin Stages
    BY CompileAssumption
  <2>4. source \in Seq(Lines) /\ StageIsUnanimous /\ phase = "done"
    BY <1>1 DEF CompiledAsDeduced, PragmaIInv, Inputs
  <2>5. CASE Places("stage") = {}
    <3>1. Deduced = NoStage
      BY <2>4, <2>5, DeducedByPragmas
    <3>2. QED
      BY <2>1, <2>5, <3>1 DEF StageIsTheAuthors
  <2>6. CASE Places("stage") # {} /\ ~ Agreed
    <3>1. Deduced = "error"
      BY <2>4, <2>6, DeducedByPragmas
    <3>2. QED
      BY <2>1, <2>2, <2>3, <3>1
  <2>7. CASE Places("stage") # {} /\ Agreed
    <3>1. /\ Deduced \in Stages
          /\ \A k \in Places("stage") : Deduced = MapStageNameToLanguage(source[k].text)
      BY <2>4, <2>7, DeducedByPragmas
    <3>2. local.used_shader_stage = Deduced
      BY <2>1, <2>3, <3>1
    <3>3. QED
      BY <2>7, <3>1, <3>2 DEF StageIsTheAuthors
  <2>8. QED
    BY <2>5, <2>6, <2>7
<1>2. IInv /\ PragmaIInv => (CompiledAsDeduced => StageIsTheAuthors)
  BY <1>1
<1>3. QED
  BY <1>2, Invariance, PragmaInvariance, PTL

=============================================================================
