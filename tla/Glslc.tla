------------------------------- MODULE Glslc -------------------------------
(***************************************************************************)
(* The command-line compiler: main(), which takes the arguments in turn,   *)
(* FileCompiler, which decides on the kind of output, names it and writes  *)
(* it, and DependencyInfoDumpingHandler, which writes a make rule beside   *)
(* the output or in its place.  The compiler proper is the library; here   *)
(* it succeeds, fails, or finds no stage.                                  *)
(*                                                                         *)
(* A path is split at its last slash and a name at its dots: "a.b/foo" has *)
(* the directory <<"a", "b">> and the name <<"foo">>.  A directory is one   *)
(* name; there are none within others.                                     *)
(***************************************************************************)
EXTENDS Naturals, FiniteSets, SequencesExt

CONSTANTS Args,    \* the arguments that a command line is made of
          Parts,   \* the strings that their values are made of
          MaxArgs  \* bound on their number

Options == {"input", "-o", "-fshader-stage=", "-x", "-c", "-S", "-E", "-M", "-MD",
            "-MF", "-MT", "-mfmt=", "--help", "compile option", "unknown"}

Path == [dir : Seq(Parts), name : Seq(Parts)]
File(name) == [dir |-> <<>>, name |-> name]
NoValue == File(<<>>)  \* also the value that is missing at the end of a line
Dash == File(<<"-">>)  \* standard input or output

\* Names have parts of the program's own, and any others.
\* Stages and languages that are not recognized are no values, so that they are
\* told from those that nothing was said about.
ASSUME GlslcAssumption ==
  /\ MaxArgs \in Nat
  /\ {"-", "a", "spv", "spvasm", "d", "infer", "default", "assembly", "glsl",
      "hlsl"} \subseteq Parts
  /\ \A a \in Args :
       /\ a \in [opt : Options, value : Path]
       /\ a.opt = "input" => a.value # NoValue
       /\ a.opt = "-fshader-stage=" => a.value.name # <<"infer">>
       /\ a.opt = "-x" /\ a.value # NoValue => a.value.name # <<>>

VARIABLES
  argv,         \* the arguments so far
  phase,        \* "args", then "files", then "exit"
  main,         \* main's current stage and language, success, has_stdin_input
  input_files,
  fc,           \* the FileCompiler's members
  dep,          \* the dependency handler's members
  results,      \* whether each input compiled so far succeeded
  disk,         \* the files written
  stdout,       \* what went to standard output
  exit          \* the exit status; 2 before it, 3 if the process was stopped

vars == <<argv, phase, main, input_files, fc, dep, results, disk, stdout, exit>>

OutputTypes == {"SpirvBinary", "SpirvAssemblyText", "PreprocessedText"}
DumpModes == {"not_set", "dump_as_compilation_output", "dump_as_extra_file"}

Written == OutputTypes \cup {"rule", "partial"}

TypeOK ==
  /\ argv \in Seq(Args) /\ Len(argv) <= MaxArgs
  /\ phase \in {"args", "files", "exit"}
  /\ main \in [stage : Seq(Parts), language : Seq(Parts), success : BOOLEAN,
               has_stdin_input : BOOLEAN]
  /\ input_files \in Seq([name : Path, stage : Seq(Parts), language : Seq(Parts)])
  /\ fc \in [output_type_ : OutputTypes, needs_linking_ : BOOLEAN,
             file_extension_ : Seq(Parts), output_file_name_ : Path,
             formatted : BOOLEAN]
  /\ dep \in [made : BOOLEAN, mode_ : DumpModes, file : Path, target : Path]
  /\ results \in Seq(BOOLEAN) /\ Len(results) <= Len(input_files)
  /\ disk \subseteq [to : Path \ {Dash}, of : DOMAIN results, what : Written,
                    target : Path]
  /\ \A w, v \in disk : w.to = v.to => w = v
  /\ stdout \in Seq([of : DOMAIN results, what : Written])
  /\ exit \in {0, 1, 2, 3} /\ (phase = "exit" <=> exit # 2)

Init ==
  /\ argv = <<>>
  /\ phase = "args"
  /\ main = [stage |-> <<"infer">>, language |-> <<>>, success |-> TRUE,
             has_stdin_input |-> FALSE]
  /\ input_files = <<>>
  /\ fc = [output_type_ |-> "SpirvBinary", needs_linking_ |-> TRUE,
           file_extension_ |-> <<>>, output_file_name_ |-> NoValue,
           formatted |-> FALSE]
  /\ dep = [made |-> FALSE, mode_ |-> "not_set", file |-> NoValue,
            target |-> NoValue]
  /\ results = <<>>
  /\ disk = {}
  /\ stdout = <<>>
  /\ exit = 2

-----------------------------------------------------------------------------
(* File names.                                                             *)

GetFileExtension(path) ==
  IF Len(path.name) > 1 THEN Last(path.name) ELSE "none"

IsStageFile(path) ==
  GetFileExtension(path) \in {"vert", "frag", "tesc", "tese", "geom", "comp"}

\* substr up to find_last_of('.'), which may be in the directory, and then
\* GetBaseFileName.
WithoutExtension(path) ==
  CASE Len(path.name) > 1 -> Front(path.name)
    [] Len(path.name) = 1 /\ Len(path.dir) > 1 -> Front(path.dir)
    [] OTHER -> path.name

PreprocessingOnly == fc.output_type_ = "PreprocessedText"

\* Mutated: asks for -o only when linking.
CandidateFromInput(path) ==
  IF fc.output_file_name_ # NoValue /\ fc.needs_linking_
  THEN fc.output_file_name_
  ELSE LET extension == IF PreprocessingOnly \/ fc.needs_linking_
                        THEN <<"spv">> ELSE fc.file_extension_
       IN  File((IF IsStageFile(path) THEN path.name
                                      ELSE WithoutExtension(path)) \o extension)

GetCandidateOutputFileName(path) ==
  IF fc.output_file_name_ # NoValue /\ ~PreprocessingOnly
  THEN fc.output_file_name_
  ELSE LET extension == IF PreprocessingOnly \/ fc.needs_linking_
                        THEN <<"spv">> ELSE fc.file_extension_
       IN  File((IF IsStageFile(path) THEN path.name
                                      ELSE WithoutExtension(path)) \o extension)

GetOutputFileName(path) ==
  CASE fc.output_file_name_ # NoValue -> fc.output_file_name_
    [] fc.output_file_name_ = NoValue /\ fc.needs_linking_ -> File(<<"a", "spv">>)
    [] OTHER -> GetCandidateOutputFileName(path)

\* The stage in a file name is only a default; an assembly file is told by it.
DeduceDefaultShaderKindFromFileName(path) ==
  LET extension == GetFileExtension(path)
  IN  CASE extension = "spvasm" -> <<"assembly">>
        [] IsStageFile(path) \/
           extension \in {"rgen", "rahit", "rchit", "rmiss", "rint", "rcall",
                         "task", "mesh"} -> <<"default", extension>>
        [] OTHER -> <<"infer">>

-----------------------------------------------------------------------------
(* The command line.                                                       *)

Return(status) == phase' = "exit" /\ exit' = status

SetOutputFileName(a) ==
  /\ a.opt = "-o" /\ a.value # NoValue
  /\ fc' = [fc EXCEPT !.output_file_name_ = a.value]
  /\ UNCHANGED <<phase, exit, main, input_files, dep>>

SetStage(a) ==
  /\ a.opt = "-fshader-stage=" /\ a.value # NoValue
  /\ main' = [main EXCEPT !.stage = a.value.name]
  /\ UNCHANGED <<phase, exit, input_files, fc, dep>>

\* Without its value -x ends the line, but what came before it is validated.
SetLanguage(a) ==
  /\ a.opt = "-x"
  /\ main' = IF a.value = NoValue THEN [main EXCEPT !.success = FALSE]
                                  ELSE [main EXCEPT !.language = a.value.name]
  /\ UNCHANGED <<phase, exit, input_files, fc, dep>>

SetIndividualCompilationFlag(a) ==
  /\ a.opt = "-c"
  /\ fc' = IF fc.output_type_ = "SpirvAssemblyText" THEN fc
           ELSE [fc EXCEPT !.needs_linking_ = FALSE, !.file_extension_ = <<"spv">>]
  /\ UNCHANGED <<phase, exit, main, input_files, dep>>

\* Mutated: forgets that -E came before.
SetDisassemblyFlagAlways(a) ==
  /\ a.opt = "-S"
  /\ fc' = [fc EXCEPT !.output_type_ = "SpirvAssemblyText",
                      !.needs_linking_ = FALSE, !.file_extension_ = <<"spvasm">>]
  /\ UNCHANGED <<phase, exit, main, input_files, dep>>

SetDisassemblyFlag(a) ==
  /\ a.opt = "-S"
  /\ fc' = IF PreprocessingOnly THEN fc
           ELSE [fc EXCEPT !.output_type_ = "SpirvAssemblyText",
                           !.needs_linking_ = FALSE,
                           !.file_extension_ = <<"spvasm">>]
  /\ UNCHANGED <<phase, exit, main, input_files, dep>>

Preprocessing ==
  [fc EXCEPT !.output_type_ = "PreprocessedText", !.needs_linking_ = FALSE,
             !.output_file_name_ = IF @ = NoValue THEN Dash ELSE @]

SetPreprocessingOnlyFlag(a) ==
  /\ a.opt = "-E"
  /\ fc' = Preprocessing
  /\ UNCHANGED <<phase, exit, main, input_files, dep>>

\* -M and -MD; either makes the handler, and the second of the two is refused.
SetDumpMode(a) ==
  /\ a.opt \in {"-M", "-MD"}
  /\ fc' = IF a.opt = "-M" THEN Preprocessing ELSE fc
  /\ IF dep.mode_ = "not_set"
     THEN /\ dep' = [dep EXCEPT !.made = TRUE,
                                !.mode_ = IF a.opt = "-M"
                                          THEN "dump_as_compilation_output"
                                          ELSE "dump_as_extra_file"]
          /\ UNCHANGED <<phase, exit>>
     ELSE Return(1) /\ UNCHANGED dep
  /\ UNCHANGED <<main, input_files>>

SetDependencyNames(a) ==
  /\ a.opt \in {"-MF", "-MT"} /\ a.value # NoValue
  /\ dep' = IF a.opt = "-MF" THEN [dep EXCEPT !.made = TRUE, !.file = a.value]
                             ELSE [dep EXCEPT !.made = TRUE, !.target = a.value]
  /\ UNCHANGED <<phase, exit, main, input_files, fc>>

SetSpirvBinaryOutputFormat(a) ==
  /\ a.opt = "-mfmt=" /\ a.value # NoValue
  /\ fc' = [fc EXCEPT !.formatted = TRUE]
  /\ UNCHANGED <<phase, exit, main, input_files, dep>>

\* --help, --version and --show-limits print and return.
Inform(a) ==
  /\ a.opt = "--help"
  /\ Return(0)
  /\ UNCHANGED <<main, input_files, fc, dep>>

\* An option that only sets a compile option.  So does a bare -D: its error is
\* printed, and the line is taken on.
SetCompileOption(a) ==
  /\ a.opt = "compile option"
  /\ UNCHANGED <<phase, exit, main, input_files, fc, dep>>

\* An unknown argument, a value that is missing or not recognized.
Refuse(a) ==
  /\ \/ a.opt = "unknown"
     \/ a.opt \in {"-o", "-fshader-stage=", "-MF", "-MT", "-mfmt="}
        /\ a.value = NoValue
  /\ Return(1)
  /\ UNCHANGED <<main, input_files, fc, dep>>

InputFileSpec(path) ==
  [name |-> path,
   stage |-> IF main.stage = <<"infer">>
             THEN DeduceDefaultShaderKindFromFileName(path) ELSE main.stage,
   language |-> CASE main.language # <<>> -> main.language
                  [] main.language = <<>> /\ GetFileExtension(path) = "hlsl"
                       -> <<"hlsl">>
                  [] OTHER -> <<"glsl">>]

AddInput(a) ==
  /\ a.opt = "input"
  /\ IF a.value = Dash /\ main.has_stdin_input
     THEN Return(1) /\ UNCHANGED <<main, input_files>>
     ELSE /\ main' = [main EXCEPT !.has_stdin_input = @ \/ a.value = Dash]
          /\ input_files' = Append(input_files, InputFileSpec(a.value))
          /\ UNCHANGED <<phase, exit>>
  /\ UNCHANGED <<fc, dep>>

Take(a) ==
  \/ SetOutputFileName(a) \/ SetStage(a) \/ SetLanguage(a)
  \/ SetIndividualCompilationFlag(a) \/ SetDisassemblyFlag(a)
  \/ SetPreprocessingOnlyFlag(a) \/ SetDumpMode(a) \/ SetDependencyNames(a)
  \/ SetSpirvBinaryOutputFormat(a) \/ Inform(a)
  \/ SetCompileOption(a) \/ Refuse(a) \/ AddInput(a)

\* An argument without its value is the last one.
TakeArgument ==
  /\ phase = "args" /\ main.success /\ Len(argv) < MaxArgs
  /\ \E a \in Args : argv' = Append(argv, a) /\ Take(a)
  /\ UNCHANGED <<results, disk, stdout>>

IsValid(num_files) ==
  /\ dep.mode_ # "not_set"
  /\ dep.file # NoValue \/ dep.target # NoValue => num_files <= 1

\* Mutated: -o is only a problem when preprocessing.
ValidateOptionsLoose(num_files) ==
  /\ num_files > 0
  /\ num_files > 1 =>
       /\ ~fc.needs_linking_
       /\ PreprocessingOnly => fc.output_file_name_ = Dash
  /\ dep.made => IsValid(num_files)
  /\ fc.formatted => /\ fc.output_type_ = "SpirvBinary"
                     /\ dep.mode_ # "dump_as_compilation_output"

ValidateOptions(num_files) ==
  /\ num_files > 0
  /\ num_files > 1 =>
       /\ ~fc.needs_linking_
       /\ IF PreprocessingOnly THEN fc.output_file_name_ = Dash
                               ELSE fc.output_file_name_ = NoValue
  /\ dep.made => IsValid(num_files)
  /\ fc.formatted => /\ fc.output_type_ = "SpirvBinary"
                     /\ dep.mode_ # "dump_as_compilation_output"

EndOfLine ==
  /\ phase = "args"
  /\ IF ValidateOptions(Len(input_files)) /\ main.success
     THEN phase' = "files" /\ UNCHANGED exit
     ELSE Return(1)
  /\ UNCHANGED <<argv, main, input_files, fc, dep, results, disk, stdout>>

-----------------------------------------------------------------------------
(* CompileShaderFile, for each input in turn.  What the library and the    *)
(* file system answer is chosen.                                           *)

Current == Len(results) + 1
Input == input_files[Current]

Finished(success) ==
  /\ phase = "files" /\ Current <= Len(input_files)
  /\ results' = Append(results, success)
  /\ UNCHANGED <<argv, phase, main, input_files, fc, dep, exit>>

\* Mutated: the stream appends.
StoreAppended(files, to, what, target) ==
  files \cup {[to |-> to, of |-> Current, what |-> what, target |-> target]}

\* An output stream truncates its file.
Store(files, to, what, target) ==
  {w \in files : w.to # to} \cup
  {[to |-> to, of |-> Current, what |-> what, target |-> target]}

GetTarget == IF dep.target # NoValue THEN dep.target
             ELSE GetCandidateOutputFileName(Input.name)

GetDependencyFileName ==
  IF dep.file # NoValue THEN dep.file
  ELSE LET output == GetCandidateOutputFileName(Input.name)
       IN  [output EXCEPT !.name = @ \o <<"d">>]

\* A rule beside the output goes to its file or to standard output; what is
\* dumped is the "rule" or only "partial".
DiskWith(dumped) ==
  IF dep.mode_ = "dump_as_extra_file" /\ GetDependencyFileName # Dash
  THEN Store(disk, GetDependencyFileName, dumped, GetTarget)
  ELSE disk

StdoutWith(dumped) ==
  IF dep.mode_ = "dump_as_extra_file" /\ GetDependencyFileName = Dash
  THEN Append(stdout, [of |-> Current, what |-> dumped])
  ELSE stdout

DumpDependencyInfo(dumped) ==
  disk' = DiskWith(dumped) /\ stdout' = StdoutWith(dumped)

\* Assembly is only ever assembled; for text there is nothing to do.
IsAssembly == Input.stage = <<"assembly">>

CompilationOutput ==
  IF dep.mode_ = "dump_as_compilation_output" THEN "rule" ELSE fc.output_type_

Compiles == Current <= Len(input_files) /\
            (IsAssembly => fc.output_type_ = "SpirvBinary")

CannotRead == Finished(FALSE) /\ UNCHANGED <<disk, stdout>>

SkipAssembly ==
  /\ Finished(TRUE)
  /\ ~Compiles
  /\ UNCHANGED <<disk, stdout>>

\* Preprocessing asks for no stage.
NoStageFound ==
  /\ Finished(FALSE)
  /\ Input.stage = <<"infer">> /\ ~PreprocessingOnly
  /\ UNCHANGED <<disk, stdout>>

\* The file is not opened, or opened and not all of the rule written.
CannotDumpDependencyInfo ==
  /\ Finished(FALSE)
  /\ Compiles /\ dep.mode_ = "dump_as_extra_file"
  /\ \/ UNCHANGED <<disk, stdout>>
     \/ DumpDependencyInfo("partial")

\* The rule is written whether or not the compilation succeeded.
CompilationFails ==
  /\ Finished(FALSE)
  /\ Compiles
  /\ DumpDependencyInfo("rule")

\* The result of a failed assembly has no data to ask for (BytesAreReadable of
\* Compile), and it is asked before its status: the null pointer may stop glslc.
StopsAtNull ==
  /\ phase = "files" /\ Compiles /\ IsAssembly
  /\ results' = Append(results, FALSE)
  /\ phase' = "exit" /\ exit' = 3
  /\ UNCHANGED <<argv, main, input_files, fc, dep, disk, stdout>>

CannotOpenOutput ==
  /\ Finished(FALSE)
  /\ Compiles
  /\ GetOutputFileName(Input.name) # Dash
  /\ DumpDependencyInfo("rule")

\* One case per kind of stream that GetOutputStream returns.
Emit(what, success) ==
  LET output == GetOutputFileName(Input.name)
  IN  /\ Finished(success)
      /\ Compiles
      /\ \/ /\ output = Dash
            /\ disk' = DiskWith("rule")
            /\ stdout' = Append(StdoutWith("rule"), [of |-> Current, what |-> what])
         \/ /\ output # Dash
            /\ disk' = Store(DiskWith("rule"), output, what, GetTarget)
            /\ stdout' = StdoutWith("rule")

\* Mutated: emits what there is before it looks at the status.
EmitUnchecked ==
  \/ Emit(CompilationOutput, TRUE)
  \/ Emit(CompilationOutput, FALSE)

EmitCompiledResult ==
  \/ Emit(CompilationOutput, TRUE)
  \/ Emit("partial", FALSE)

CompileShaderFile ==
  \/ CannotRead \/ SkipAssembly \/ NoStageFound \/ CannotDumpDependencyInfo
  \/ CompilationFails \/ StopsAtNull \/ CannotOpenOutput \/ EmitCompiledResult

Succeeded == \A i \in DOMAIN results : results[i]

\* Mutated: main keeps the status of the last file only.
ExitLast ==
  /\ phase = "files" /\ Len(results) = Len(input_files)
  /\ Return(IF Last(results) THEN 0 ELSE 1)
  /\ UNCHANGED <<argv, main, input_files, fc, dep, results, disk, stdout>>

Exit ==
  /\ phase = "files" /\ Len(results) = Len(input_files)
  /\ Return(IF Succeeded THEN 0 ELSE 1)
  /\ UNCHANGED <<argv, main, input_files, fc, dep, results, disk, stdout>>

Exited == phase = "exit" /\ UNCHANGED vars

Next == TakeArgument \/ EndOfLine \/ CompileShaderFile \/ Exit \/ Exited

Spec == Init /\ [][Next]_vars

-----------------------------------------------------------------------------
(* Properties.  They read the command line back from argv.                 *)

\* The places of some options on the line.
Places(opts) == {i \in DOMAIN argv : argv[i].opt \in opts}

Given(opt) == Places({opt}) # {}
AtMostOne(S) == \A i, j \in S : i = j

\* The value of the last opt with a value among the first n arguments.
Latest(opt, n, default) ==
  LET settings == {i \in 1..n : argv[i].opt = opt /\ argv[i].value # NoValue}
  IN  IF settings = {} THEN default
      ELSE argv[Max(settings)].value

\* The order of -c, -S, -E, -M and -o means nothing: preprocessing beats
\* disassembly, which beats plain compilation, and -o beats the standard
\* output of preprocessing (SetIndividualCompilationFlag,
\* SetDisassemblyFlag, SetPreprocessingOnlyFlag, each of which undoes or
\* keeps what the others set).
ModesIgnoreOrder ==
  LET text == Given("-E") \/ Given("-M")
  IN  /\ fc.output_type_ = CASE text -> "PreprocessedText"
                             [] ~text /\ Given("-S") -> "SpirvAssemblyText"
                             [] OTHER -> "SpirvBinary"
      /\ fc.needs_linking_ = ~(text \/ Given("-S") \/ Given("-c"))
      /\ ~text => fc.file_extension_ = CASE Given("-S") -> <<"spvasm">>
                                         [] ~Given("-S") /\ Given("-c") -> <<"spv">>
                                         [] OTHER -> <<>>
      /\ fc.output_file_name_ =
           Latest("-o", Len(argv), IF text THEN Dash ELSE NoValue)

\* An input has the stage and language of the latest -fshader-stage= and -x
\* before it, whatever follows, and without them those of its name (main's
\* current_fshader_stage and current_source_language).
LatestSettingsApply ==
  \A k \in DOMAIN argv :
    LET j == Cardinality({i \in 1..k : argv[i].opt = "input"})
        path == argv[k].value
        extension == GetFileExtension(path)
    IN  argv[k].opt = "input" /\ j <= Len(input_files) =>
          input_files[j] =
            [name |-> path,
             stage |-> Latest("-fshader-stage=", k,
                              File(DeduceDefaultShaderKindFromFileName(path))).name,
             language |-> Latest("-x", k, File(<<IF extension = "hlsl" THEN "hlsl"
                                                 ELSE "glsl">>)).name]

\* What a line asks for does not depend on how its options are mixed: the modes
\* are those of the whole line, the settings of an input those before it.
SettingsFollowTheLine == ModesIgnoreOrder /\ LatestSettingsApply

\* What makes a command line acceptable, whatever its order.
Acceptable ==
  /\ \A i \in DOMAIN argv :
       /\ argv[i].opt \notin {"unknown", "--help"}
       /\ argv[i].opt \in {"-o", "-fshader-stage=", "-x", "-MF", "-MT", "-mfmt="}
            => argv[i].value # NoValue
  /\ Given("input")
  /\ AtMostOne({i \in Places({"input"}) : argv[i].value = Dash})
  /\ AtMostOne(Places({"-M", "-MD"}))
  /\ Given("-MF") \/ Given("-MT") =>
       Places({"-M", "-MD"}) # {} /\ AtMostOne(Places({"input"}))
  /\ Given("-mfmt=") => Places({"-S", "-E", "-M"}) = {}
  /\ ~AtMostOne(Places({"input"})) =>
       /\ Places({"-c", "-S", "-E", "-M"}) # {}
       /\ Given("-o") => /\ Places({"-E", "-M"}) # {}
                         /\ Latest("-o", Len(argv), NoValue) = Dash

\* A line is compiled exactly if it is acceptable: checks made at once, at
\* the end of the line or after it leave nothing through, and refuse nothing
\* else (main's returns and ValidateOptions).
AcceptedLines ==
  /\ phase = "files" => Acceptable
  /\ exit = 1 /\ results = <<>> => ~Acceptable

Inputs == DOMAIN input_files

Skipped(i) == input_files[i].stage = <<"assembly">> /\ fc.output_type_ # "SpirvBinary"

\* What input i leaves where its output belongs, if it succeeds.
OutputOf(i) ==
  IF GetOutputFileName(input_files[i].name) = Dash
  THEN {o.what : o \in {stdout[n] : n \in {m \in DOMAIN stdout : stdout[m].of = i}}}
  ELSE {w.what : w \in {v \in disk : /\ v.to = GetOutputFileName(input_files[i].name)
                                     /\ v.of >= i}}

\* Exit status 0 means that every input was tried and every output is in its
\* place, whole, unless a later input took the place; a failed input does
\* not stop the next (main's loop, success &= CompileShaderFile), unless it is
\* an assembly.
ExitStatusIsHonest ==
  /\ phase = "exit" /\ results # <<>> =>
       \/ Len(results) = Len(input_files)
       \/ exit = 3 /\ input_files[Len(results)].stage = <<"assembly">>
  /\ exit = 0 /\ ~Given("--help") =>
       \A i \in Inputs : Skipped(i) \/ CompilationOutput \in OutputOf(i)

\* An input that fails leaves no output that looks whole, only a dependency
\* rule or a part that it could not finish (EmitCompiledResult).
FailuresLeaveNoOutput ==
  /\ \A w \in disk : w.what \in OutputTypes => results[w.of]
  /\ \A n \in DOMAIN stdout : stdout[n].what \in OutputTypes => results[stdout[n].of]

\* With -MD and -c or -S a rule's target is the file that holds the output,
\* unless -MT names it: make would rebuild in vain otherwise
\* (GetCandidateOutputFileName and GetOutputFileName agree then).
RulesNameTheOutput ==
  ~fc.needs_linking_ /\ ~PreprocessingOnly /\ dep.target = NoValue =>
    \A w \in disk : w.what = "rule" =>
      w.target = GetOutputFileName(input_files[w.of].name)

=============================================================================
