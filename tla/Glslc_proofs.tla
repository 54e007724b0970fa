---------------------------- MODULE Glslc_proofs ----------------------------
(***************************************************************************)
(* Proofs about Glslc, for command lines of any length over any arguments. *)
(***************************************************************************)
EXTENDS Glslc, FiniteSetTheorems, TLAPS

\* main's current settings are the latest on the line.
SettingsSoFar ==
  /\ main.stage = Latest("-fshader-stage=", Len(argv), File(<<"infer">>)).name
  /\ main.language = Latest("-x", Len(argv), File(<<>>)).name

\* Each input on the line is in the list, unless it was the one refused.
InputCount ==
  /\ Len(input_files) <= Cardinality(Places({"input"}))
  /\ phase # "exit" => Len(input_files) = Cardinality(Places({"input"}))

DashInputs == {i \in Places({"input"}) : argv[i].value = Dash}

\* A line that has not been refused so far, and what the state says of it.
NoMistakeSoFar ==
  \A i \in DOMAIN argv :
    /\ argv[i].opt \notin {"unknown", "--help"}
    /\ argv[i].opt \in {"-o", "-fshader-stage=", "-MF", "-MT", "-mfmt="}
         => argv[i].value # NoValue

LanguagesGiven == \A i \in DOMAIN argv : argv[i].opt = "-x" => argv[i].value # NoValue

MainSoFar ==
  /\ main.success <=> LanguagesGiven
  /\ AtMostOne(DashInputs)
  /\ main.has_stdin_input <=> DashInputs # {}

DependenciesSoFar ==
  /\ AtMostOne(Places({"-M", "-MD"}))
  /\ dep.mode_ = "not_set" <=> Places({"-M", "-MD"}) = {}
  /\ dep.mode_ = "dump_as_compilation_output" <=> Given("-M")
  /\ dep.made <=> Places({"-M", "-MD", "-MF", "-MT"}) # {}
  /\ dep.file # NoValue <=> Given("-MF")
  /\ dep.target # NoValue <=> Given("-MT")

LineSoFar ==
  phase # "exit" =>
    /\ NoMistakeSoFar /\ MainSoFar /\ DependenciesSoFar
    /\ fc.formatted <=> Given("-mfmt=")

\* Nothing is compiled before the end of the line, or written before that.
Phases ==
  /\ phase = "args" => results = <<>>
  /\ results = <<>> => disk = {} /\ stdout = <<>>

\* While no input has failed every output is in its place.
OutputsInPlace ==
  Succeeded =>
    \A i \in DOMAIN results : Skipped(i) \/ CompilationOutput \in OutputOf(i)

IInv ==
  /\ TypeOK /\ SettingsFollowTheLine /\ SettingsSoFar /\ InputCount /\ LineSoFar
  /\ AcceptedLines /\ Phases /\ OutputsInPlace
  /\ ExitStatusIsHonest /\ FailuresLeaveNoOutput /\ RulesNameTheOutput

-----------------------------------------------------------------------------
(* The line grows by an argument.                                          *)

\* A nonempty set of naturals has a least element.
LEMMA LeastExists ==
  ASSUME NEW S \in SUBSET Nat, S # {}
  PROVE  \E i \in S : \A j \in S : i <= j
<1>1. \E i \in S : \A j \in S : ~ (<<j, i>> \in OpToRel(<, Nat))
  BY NatLessThanWellFounded, WFMin
<1>2. \A i, j \in Nat : j < i => <<j, i>> \in OpToRel(<, Nat)
  BY DEF OpToRel
<1>3. PICK i \in S : \A j \in S : ~ (<<j, i>> \in OpToRel(<, Nat))
  BY <1>1
<1>4. \A j \in S : ~ (j < i)
  BY <1>2, <1>3
<1>5. QED
  BY <1>4

\* A nonempty set of places up to n has a greatest: the latest setting exists.
LEMMA GreatestExists ==
  ASSUME NEW n \in Nat, NEW S \in SUBSET (1..n), S # {}
  PROVE  \E i \in S : \A j \in S : i >= j
<1> DEFINE T == {k \in 0..n : n - k \in S}
<1>1. ASSUME NEW i \in S PROVE n - i \in T
  <2>1. i \in 1..n
    OBVIOUS
  <2>2. n - i \in 0..n /\ n - (n - i) = i
    BY <2>1
  <2>3. QED
    BY <2>2
<1>2. T # {}
  BY <1>1
<1> T \in SUBSET Nat
  OBVIOUS
<1>3. PICK k \in T : \A j \in T : k <= j
  BY <1>2, LeastExists
<1>4. ASSUME NEW j \in S PROVE j <= n - k
  BY <1>1, <1>3
<1>5. QED
  BY <1>3, <1>4

LEMMA Appended ==
  ASSUME NEW a \in Args, argv \in Seq(Args), argv' = Append(argv, a)
  PROVE  /\ Len(argv) \in Nat /\ DOMAIN argv = 1..Len(argv)
         /\ argv' \in Seq(Args) /\ Len(argv') = Len(argv) + 1
         /\ DOMAIN argv' = 1..Len(argv) + 1
         /\ argv'[Len(argv) + 1] = a
         /\ \A i \in 1..Len(argv) : argv'[i] = argv[i] /\ argv[i] \in Args
OBVIOUS

LEMMA PlacesAppended ==
  ASSUME NEW a \in Args, argv \in Seq(Args), argv' = Append(argv, a),
         NEW opts
  PROVE  /\ Places(opts)' = Places(opts) \cup
                            (IF a.opt \in opts THEN {Len(argv) + 1} ELSE {})
         /\ Len(argv) + 1 \notin Places(opts)
         /\ Places(opts) \subseteq 1..Len(argv)
BY Appended DEF Places

LEMMA GivenAppended ==
  ASSUME NEW a \in Args, argv \in Seq(Args), argv' = Append(argv, a),
         NEW opt
  PROVE  Given(opt)' = (Given(opt) \/ a.opt = opt)
BY PlacesAppended DEF Given

\* The places of the settings that Latest chooses from.
Settings(opt, n) == {i \in 1..n : argv[i].opt = opt /\ argv[i].value # NoValue}

LEMMA MaxIsGreatest ==
  ASSUME NEW n \in Nat, NEW S \in SUBSET (1..n), S # {}
  PROVE  Max(S) \in S /\ \A j \in S : j <= Max(S)
<1>1. \E i \in S : \A j \in S : i >= j
  BY GreatestExists
<1>2. QED
  BY <1>1 DEF Max

LEMMA LatestBySettings ==
  ASSUME NEW opt, NEW n, NEW default
  PROVE  Latest(opt, n, default) =
           IF Settings(opt, n) = {} THEN default
           ELSE argv[Max(Settings(opt, n))].value
BY DEF Latest, Settings

LEMMA SettingsAppended ==
  ASSUME NEW a \in Args, argv \in Seq(Args), argv' = Append(argv, a),
         NEW opt
  PROVE  /\ \A k \in 0..Len(argv) : Settings(opt, k)' = Settings(opt, k)
         /\ Settings(opt, Len(argv))' =
              Settings(opt, Len(argv)) \cup
              (IF a.opt = opt /\ a.value # NoValue THEN {Len(argv) + 1} ELSE {})
BY Appended DEF Settings

\* What comes later does not change what the first k arguments set.
LEMMA LatestKept ==
  ASSUME NEW a \in Args, argv \in Seq(Args), argv' = Append(argv, a),
         NEW opt, NEW k \in 0..Len(argv), NEW default
  PROVE  Latest(opt, k, default)' = Latest(opt, k, default)
<1> DEFINE S == Settings(opt, k)
<1>1. S' = S
  BY SettingsAppended
<1>2. Latest(opt, k, default) = IF S = {} THEN default ELSE argv[Max(S)].value
  BY LatestBySettings
<1>3. Latest(opt, k, default)' = IF S' = {} THEN default ELSE argv'[Max(S')].value
  BY DEF Latest, Settings
<1>4. ASSUME S # {} PROVE argv'[Max(S)] = argv[Max(S)]
  <2>1. k \in Nat /\ S \in SUBSET (1..k)
    BY Appended DEF Settings
  <2>2. Max(S) \in 1..k
    BY <1>4, <2>1, MaxIsGreatest
  <2>3. QED
    BY <2>2, Appended
<1>5. Max(S') = Max(S)
  BY <1>1
<1>6. CASE S = {}
  BY <1>1, <1>2, <1>3, <1>6
<1>7. CASE S # {}
  BY <1>1, <1>2, <1>3, <1>4, <1>5, <1>7
<1>8. QED
  BY <1>6, <1>7

\* The last argument of the line sets its option, if it has a value.
LEMMA LatestAppended ==
  ASSUME NEW a \in Args, argv \in Seq(Args), argv' = Append(argv, a),
         NEW opt, NEW default
  PROVE  Latest(opt, Len(argv), default)' =
           IF a.opt = opt /\ a.value # NoValue THEN a.value
           ELSE Latest(opt, Len(argv), default)
<1> DEFINE n == Len(argv)
           S == Settings(opt, n)
<1>1. n \in Nat /\ S \in SUBSET (1..n)
  BY Appended DEF Settings
<1>2. S' = S \cup (IF a.opt = opt /\ a.value # NoValue THEN {n + 1} ELSE {})
  BY SettingsAppended
<1>3. Latest(opt, n, default) = IF S = {} THEN default ELSE argv[Max(S)].value
  BY LatestBySettings
<1>4. Latest(opt, n, default)' = IF S' = {} THEN default ELSE argv'[Max(S')].value
  BY DEF Latest, Settings
<1>5. CASE a.opt = opt /\ a.value # NoValue
  <2>1. S' = S \cup {n + 1}
    BY <1>2, <1>5
  <2>2. n + 1 \in Nat /\ S \cup {n + 1} \in SUBSET (1..n + 1)
    BY <1>1
  <2> HIDE DEF S
  <2>3. Max(S') \in S' /\ \A j \in S' : j <= Max(S')
    BY <2>1, <2>2, MaxIsGreatest
  <2>4. Max(S') = n + 1
    <3>1. Max(S \cup {n + 1}) \in S \cup {n + 1} /\ n + 1 <= Max(S \cup {n + 1})
      BY <2>1, <2>3
    <3>2. Max(S \cup {n + 1}) \in 1..n + 1
      BY <2>2, <3>1
    <3>3. Max(S \cup {n + 1}) = n + 1
      BY <1>1, <3>1, <3>2
    <3>4. QED
      BY <2>1, <3>3
  <2>5. argv'[n + 1] = a
    BY Appended
  <2>6. QED
    BY <1>4, <1>5, <2>1, <2>4, <2>5
<1>6. CASE ~(a.opt = opt /\ a.value # NoValue)
  <2>1. S' = S
    BY <1>2, <1>6
  <2>2. ASSUME S # {} PROVE argv'[Max(S)] = argv[Max(S)]
    <3>1. Max(S) \in 1..n
      BY <1>1, <2>2, MaxIsGreatest
    <3>2. QED
      BY <3>1, Appended
  <2> HIDE DEF S
  <2>3. QED
    BY <1>3, <1>4, <1>6, <2>1, <2>2
<1>7. QED
  BY <1>5, <1>6

-----------------------------------------------------------------------------
(* Type correctness.                                                       *)

LEMMA ArgumentTypes ==
  ASSUME NEW a \in Args
  PROVE  /\ a.opt \in Options /\ a.value \in Path
         /\ a.value.dir \in Seq(Parts) /\ a.value.name \in Seq(Parts)
         /\ a.opt = "input" => a.value # NoValue
         /\ a.opt = "-fshader-stage=" => a.value.name # <<"infer">>
         /\ a.opt = "-x" /\ a.value # NoValue => a.value.name # <<>>
BY GlslcAssumption DEF Path

LEMMA Singleton ==
  ASSUME NEW S, NEW x \in S
  PROVE  <<x>> \in Seq(S)
OBVIOUS

LEMMA Pair ==
  ASSUME NEW S, NEW x \in S, NEW y \in S
  PROVE  <<x, y>> \in Seq(S)
OBVIOUS

LEMMA Literals ==
  /\ <<>> \in Seq(Parts)
  /\ <<"-">> \in Seq(Parts) /\ <<"spv">> \in Seq(Parts)
  /\ <<"spvasm">> \in Seq(Parts) /\ <<"d">> \in Seq(Parts)
  /\ <<"infer">> \in Seq(Parts) /\ <<"assembly">> \in Seq(Parts)
  /\ <<"glsl">> \in Seq(Parts) /\ <<"hlsl">> \in Seq(Parts)
  /\ <<"a", "spv">> \in Seq(Parts)
  /\ \A part \in Parts : <<"default", part>> \in Seq(Parts)
<1>1. {"-", "a", "spv", "spvasm", "d", "infer", "default", "assembly", "glsl",
       "hlsl"} \subseteq Parts
  BY GlslcAssumption
<1>2. /\ "-" \in Parts /\ "a" \in Parts /\ "spv" \in Parts /\ "spvasm" \in Parts
      /\ "d" \in Parts /\ "infer" \in Parts /\ "default" \in Parts
      /\ "assembly" \in Parts /\ "glsl" \in Parts /\ "hlsl" \in Parts
  BY <1>1
<1>3. QED
  BY <1>2, Singleton, Pair

LEMMA PathTypes ==
  /\ NoValue \in Path /\ Dash \in Path /\ NoValue # Dash
  /\ \A name \in Seq(Parts) : File(name) \in Path
BY Literals DEF NoValue, Dash, Path, File

LEMMA ExtensionType ==
  ASSUME NEW path \in Path
  PROVE  GetFileExtension(path) \in Parts \cup {"none"}
<1>1. path.name \in Seq(Parts)
  BY DEF Path
<1>2. Len(path.name) > 1 => Last(path.name) \in Parts
  BY <1>1 DEF Last
<1>3. QED
  BY <1>2 DEF GetFileExtension

LEMMA InputFileSpecType ==
  ASSUME NEW path \in Path, TypeOK
  PROVE  InputFileSpec(path) \in [name : Path, stage : Seq(Parts),
                                  language : Seq(Parts)]
<1>1. DeduceDefaultShaderKindFromFileName(path) \in Seq(Parts)
  BY ExtensionType, Literals DEF DeduceDefaultShaderKindFromFileName, IsStageFile
<1>2. main.stage \in Seq(Parts) /\ main.language \in Seq(Parts)
  BY DEF TypeOK
<1>3. QED
  BY <1>1, <1>2, Literals DEF InputFileSpec

LEMMA OutputNameTypes ==
  ASSUME NEW path \in Path, TypeOK
  PROVE  /\ GetCandidateOutputFileName(path) \in Path
         /\ GetOutputFileName(path) \in Path
<1>1. path.name \in Seq(Parts) /\ path.dir \in Seq(Parts)
  BY DEF Path
<1>2. WithoutExtension(path) \in Seq(Parts)
  BY <1>1 DEF WithoutExtension, Front
<1>3. fc.file_extension_ \in Seq(Parts) /\ fc.output_file_name_ \in Path
  BY DEF TypeOK
<1>4. GetCandidateOutputFileName(path) \in Path
  <2> DEFINE base == IF IsStageFile(path) THEN path.name ELSE WithoutExtension(path)
             extension == IF PreprocessingOnly \/ fc.needs_linking_
                          THEN <<"spv">> ELSE fc.file_extension_
  <2>1. base \in Seq(Parts) /\ extension \in Seq(Parts)
    BY <1>1, <1>2, <1>3, Literals
  <2> HIDE DEF base, extension
  <2>2. base \o extension \in Seq(Parts)
    BY <2>1
  <2>3. File(base \o extension) \in Path
    BY <2>2, PathTypes
  <2>4. QED
    BY <1>3, <2>3 DEF GetCandidateOutputFileName, base, extension
<1>5. GetOutputFileName(path) \in Path
  BY <1>3, <1>4, Literals, PathTypes DEF GetOutputFileName
<1>6. QED
  BY <1>4, <1>5

\* The parts of TypeOK that the arguments set, and those that the inputs set.
ArgumentsTyped ==
  /\ main \in [stage : Seq(Parts), language : Seq(Parts), success : BOOLEAN,
               has_stdin_input : BOOLEAN]
  /\ input_files \in Seq([name : Path, stage : Seq(Parts), language : Seq(Parts)])
  /\ fc \in [output_type_ : OutputTypes, needs_linking_ : BOOLEAN,
             file_extension_ : Seq(Parts), output_file_name_ : Path,
             formatted : BOOLEAN]
  /\ dep \in [made : BOOLEAN, mode_ : DumpModes, file : Path, target : Path]

PhaseTyped ==
  /\ phase \in {"args", "files", "exit"}
  /\ exit \in {0, 1, 2, 3} /\ (phase = "exit" <=> exit # 2)

LEMMA ReturnTyped ==
  ASSUME NEW status \in {0, 1}, Return(status)
  PROVE  PhaseTyped'
BY DEF Return, PhaseTyped

LEMMA TakeTypes ==
  ASSUME TypeOK, phase = "args", NEW a \in Args, Take(a)
  PROVE  /\ ArgumentsTyped' /\ PhaseTyped'
         /\ input_files' = input_files \/ Len(input_files') = Len(input_files) + 1
<1>0. ArgumentsTyped /\ PhaseTyped
  BY DEF TypeOK, ArgumentsTyped, PhaseTyped
<1> DEFINE FcType == [output_type_ : OutputTypes, needs_linking_ : BOOLEAN,
                      file_extension_ : Seq(Parts), output_file_name_ : Path,
                      formatted : BOOLEAN]
           DepType == [made : BOOLEAN, mode_ : DumpModes, file : Path, target : Path]
<1>1. CASE SetOutputFileName(a)
  BY <1>0, <1>1, ArgumentTypes DEF SetOutputFileName, ArgumentsTyped, PhaseTyped
<1>2. CASE SetStage(a)
  BY <1>0, <1>2, ArgumentTypes DEF SetStage, ArgumentsTyped, PhaseTyped
<1>3. CASE SetLanguage(a)
  BY <1>0, <1>3, ArgumentTypes DEF SetLanguage, ArgumentsTyped, PhaseTyped
<1>4. CASE SetIndividualCompilationFlag(a)
  BY <1>0, <1>4, Literals DEF SetIndividualCompilationFlag, ArgumentsTyped, PhaseTyped
<1>5. CASE SetDisassemblyFlag(a)
  BY <1>0, <1>5, Literals
  DEF SetDisassemblyFlag, OutputTypes, ArgumentsTyped, PhaseTyped
<1>6. Preprocessing \in FcType
  BY <1>0, PathTypes DEF Preprocessing, OutputTypes, ArgumentsTyped
<1>7. CASE SetPreprocessingOnlyFlag(a)
  BY <1>0, <1>6, <1>7 DEF SetPreprocessingOnlyFlag, ArgumentsTyped, PhaseTyped
<1>8. CASE SetDumpMode(a)
  <2>1. fc' \in FcType /\ UNCHANGED <<main, input_files>>
    BY <1>0, <1>6, <1>8 DEF SetDumpMode, ArgumentsTyped
  <2>2. dep' \in DepType
    BY <1>0, <1>8 DEF SetDumpMode, ArgumentsTyped, DumpModes
  <2>3. PhaseTyped'
    <3>1. Return(1) \/ UNCHANGED <<phase, exit>>
      BY <1>8 DEF SetDumpMode
    <3>2. QED
      BY <1>0, <3>1, ReturnTyped DEF PhaseTyped
  <2>4. QED
    BY <1>0, <2>1, <2>2, <2>3 DEF ArgumentsTyped
<1>9. CASE SetDependencyNames(a)
  BY <1>0, <1>9, ArgumentTypes DEF SetDependencyNames, ArgumentsTyped, PhaseTyped
<1>10. CASE SetSpirvBinaryOutputFormat(a)
  BY <1>0, <1>10 DEF SetSpirvBinaryOutputFormat, ArgumentsTyped, PhaseTyped
<1>11. CASE Inform(a)
  BY <1>0, <1>11, ReturnTyped DEF Inform, ArgumentsTyped
<1>12. CASE SetCompileOption(a)
  BY <1>0, <1>12 DEF SetCompileOption, ArgumentsTyped, PhaseTyped
<1>13. CASE Refuse(a)
  BY <1>0, <1>13, ReturnTyped DEF Refuse, ArgumentsTyped
<1>14. CASE AddInput(a)
  <2>1. InputFileSpec(a.value) \in [name : Path, stage : Seq(Parts),
                                    language : Seq(Parts)]
    BY InputFileSpecType, ArgumentTypes
  <2>2. UNCHANGED <<fc, dep>>
    BY <1>14 DEF AddInput
  <2>3. CASE a.value = Dash /\ main.has_stdin_input
    BY <1>0, <1>14, <2>2, <2>3, ReturnTyped DEF AddInput, ArgumentsTyped
  <2>4. CASE ~(a.value = Dash /\ main.has_stdin_input)
    <3>1. /\ main' = [main EXCEPT !.has_stdin_input = @ \/ a.value = Dash]
          /\ input_files' = Append(input_files, InputFileSpec(a.value))
          /\ UNCHANGED <<phase, exit>>
      BY <1>14, <2>4 DEF AddInput
    <3>2. (main.has_stdin_input \/ a.value = Dash) \in BOOLEAN
      OBVIOUS
    <3>3. main' \in [stage : Seq(Parts), language : Seq(Parts), success : BOOLEAN,
                     has_stdin_input : BOOLEAN]
      BY <1>0, <3>1, <3>2 DEF ArgumentsTyped
    <3>4. QED
      BY <1>0, <2>1, <2>2, <3>1, <3>3 DEF ArgumentsTyped, PhaseTyped
  <2>5. QED
    BY <2>3, <2>4
<1>15. QED
  BY <1>1, <1>2, <1>3, <1>4, <1>5, <1>7, <1>8, <1>9, <1>10, <1>11, <1>12, <1>13,
     <1>14 DEF Take

LEMMA TakeArgumentTypes == TypeOK /\ TakeArgument => TypeOK'
<1> SUFFICES ASSUME TypeOK, TakeArgument PROVE TypeOK'
  OBVIOUS
<1>1. PICK a \in Args : argv' = Append(argv, a) /\ Take(a)
  BY DEF TakeArgument
<1>2. /\ phase = "args" /\ Len(argv) < MaxArgs
      /\ UNCHANGED <<results, disk, stdout>>
  BY DEF TakeArgument
<1>3. argv' \in Seq(Args) /\ Len(argv') <= MaxArgs
  <2>1. argv \in Seq(Args) /\ MaxArgs \in Nat
    BY GlslcAssumption DEF TypeOK
  <2>2. QED
    BY <1>1, <1>2, <2>1
<1>4. /\ ArgumentsTyped' /\ PhaseTyped'
      /\ input_files' = input_files \/ Len(input_files') = Len(input_files) + 1
  BY <1>1, <1>2, TakeTypes
<1>5. Len(results') <= Len(input_files')
  BY <1>2, <1>4 DEF TypeOK, ArgumentsTyped
<1>6. QED
  BY <1>2, <1>3, <1>4, <1>5 DEF TypeOK, ArgumentsTyped, PhaseTyped

LEMMA EndOfLineTypes == TypeOK /\ EndOfLine => TypeOK'
<1> SUFFICES ASSUME TypeOK, EndOfLine PROVE TypeOK'
  OBVIOUS
<1>1. UNCHANGED <<argv, main, input_files, fc, dep, results, disk, stdout>>
  BY DEF EndOfLine
<1>2. PhaseTyped'
  <2>1. (phase' = "files" /\ exit' = exit /\ exit = 2) \/ Return(1)
    BY DEF EndOfLine, TypeOK
  <2>2. QED
    BY <2>1, ReturnTyped DEF PhaseTyped
<1>3. QED
  BY <1>1, <1>2 DEF TypeOK, PhaseTyped

LEMMA ExitTypes == TypeOK /\ Exit => TypeOK'
<1> SUFFICES ASSUME TypeOK, Exit PROVE TypeOK'
  OBVIOUS
<1>1. UNCHANGED <<argv, main, input_files, fc, dep, results, disk, stdout>>
  BY DEF Exit
<1>2. Return(0) \/ Return(1)
  BY DEF Exit
<1>3. PhaseTyped'
  BY <1>2, ReturnTyped
<1>4. QED
  BY <1>1, <1>3 DEF TypeOK, PhaseTyped

\* What a file or standard output may hold after some results.
Files(of) == [to : Path \ {Dash}, of : of, what : Written, target : Path]
OneOfEach(files) == \A w, v \in files : w.to = v.to => w = v
Streams(of) == Seq([of : of, what : Written])

LEMMA StoreTypes ==
  ASSUME NEW of, Current \in of, NEW files \in SUBSET Files(of),
         OneOfEach(files), NEW to \in Path \ {Dash}, NEW what \in Written,
         NEW target \in Path
  PROVE  /\ Store(files, to, what, target) \in SUBSET Files(of)
         /\ OneOfEach(Store(files, to, what, target))
BY DEF Store, Files, OneOfEach

LEMMA AppendedSequence ==
  ASSUME NEW S, NEW s \in Seq(S), NEW x \in S, NEW t, t = Append(s, x)
  PROVE  /\ Len(s) \in Nat /\ DOMAIN s = 1..Len(s)
         /\ t \in Seq(S) /\ Len(t) = Len(s) + 1 /\ DOMAIN t = 1..Len(s) + 1
         /\ Len(s) + 1 \in DOMAIN t /\ DOMAIN s \subseteq DOMAIN t
         /\ t[Len(s) + 1] = x
         /\ \A i \in DOMAIN s : t[i] = s[i] /\ i < Len(s) + 1
         /\ t # <<>>
OBVIOUS

LEMMA ElementType ==
  ASSUME NEW S, NEW s \in Seq(S), NEW i \in DOMAIN s
  PROVE  s[i] \in S
OBVIOUS

LEMMA WiderSequence ==
  ASSUME NEW S, NEW T, S \subseteq T, NEW s \in Seq(S)
  PROVE  s \in Seq(T)
OBVIOUS

\* An input is compiled: a result is added.
Compiled(success) ==
  /\ results' = Append(results, success)
  /\ UNCHANGED <<argv, main, input_files, fc, dep>>

LEMMA ResultsAppended ==
  ASSUME TypeOK, NEW success \in BOOLEAN, Compiled(success)
  PROVE  /\ Len(results) \in Nat /\ DOMAIN results = 1..Len(results)
         /\ Current = Len(results) + 1
         /\ results' \in Seq(BOOLEAN) /\ Len(results') = Current
         /\ DOMAIN results' = 1..Current /\ Current \in DOMAIN results'
         /\ DOMAIN results \subseteq DOMAIN results'
         /\ results'[Current] = success
         /\ \A i \in DOMAIN results : results'[i] = results[i] /\ i < Current
         /\ results' # <<>>
<1>1. results \in Seq(BOOLEAN) /\ results' = Append(results, success)
  BY DEF TypeOK, Compiled
<1>2. Current = Len(results) + 1
  BY DEF Current
<1>3. QED
  BY <1>1, <1>2, AppendedSequence

LEMMA GrownTypes ==
  ASSUME NEW D, NEW E, D \subseteq E
  PROVE  /\ \A files \in SUBSET Files(D) : files \in SUBSET Files(E)
         /\ \A out \in Streams(D) : out \in Streams(E)
<1>1. Files(D) \subseteq Files(E)
  BY DEF Files
<1>2. [of : D, what : Written] \subseteq [of : E, what : Written]
  OBVIOUS
<1>3. ASSUME NEW out \in Streams(D) PROVE out \in Streams(E)
  BY <1>2, WiderSequence DEF Streams
<1>4. QED
  BY <1>1, <1>3

\* One input more, whatever became of it.
LEMMA CompiledTypes ==
  ASSUME TypeOK, Current <= Len(input_files),
         NEW success \in BOOLEAN, Compiled(success), PhaseTyped',
         disk' \in SUBSET Files(DOMAIN results'), OneOfEach(disk'),
         stdout' \in Streams(DOMAIN results')
  PROVE  TypeOK'
<1>1. results' \in Seq(BOOLEAN) /\ Len(results') <= Len(input_files)
  BY ResultsAppended
<1>2. UNCHANGED <<argv, main, input_files, fc, dep>>
  BY DEF Compiled
<1>3. QED
  BY <1>1, <1>2 DEF TypeOK, PhaseTyped, Files, OneOfEach, Streams

LEMMA InputTypes ==
  ASSUME TypeOK, Current <= Len(input_files)
  PROVE  /\ Current \in DOMAIN input_files /\ Input.name \in Path
         /\ GetOutputFileName(Input.name) \in Path
         /\ GetTarget \in Path /\ GetDependencyFileName \in Path
<1>1. /\ Len(results) \in Nat /\ Len(input_files) \in Nat
      /\ DOMAIN input_files = 1..Len(input_files)
  BY DEF TypeOK
<1>2. Current \in DOMAIN input_files
  BY <1>1 DEF Current
<1>3. Input.name \in Path
  <2>1. input_files \in Seq([name : Path, stage : Seq(Parts), language : Seq(Parts)])
    BY DEF TypeOK
  <2>2. input_files[Current] \in [name : Path, stage : Seq(Parts),
                                  language : Seq(Parts)]
    BY <1>2, <2>1, ElementType
  <2>3. QED
    BY <2>2 DEF Input
<1>4. /\ GetOutputFileName(Input.name) \in Path
      /\ GetCandidateOutputFileName(Input.name) \in Path
  BY <1>3, OutputNameTypes
<1>5. dep.target \in Path /\ dep.file \in Path
  BY DEF TypeOK
<1>6. GetDependencyFileName \in Path
  <2> DEFINE output == GetCandidateOutputFileName(Input.name)
  <2>1. output.name \o <<"d">> \in Seq(Parts)
    <3>1. output.name \in Seq(Parts)
      BY <1>4 DEF Path
    <3>2. QED
      BY <3>1, Literals
  <2>2. [output EXCEPT !.name = @ \o <<"d">>] \in Path
    BY <1>4, <2>1 DEF Path
  <2>3. QED
    BY <1>5, <2>2 DEF GetDependencyFileName
<1>7. QED
  BY <1>2, <1>3, <1>4, <1>5, <1>6 DEF GetTarget

\* What the dependency handler leaves.
LEMMA RuleTypes ==
  ASSUME TypeOK, Current <= Len(input_files), NEW success \in BOOLEAN,
         Compiled(success), NEW dumped \in {"rule", "partial"}
  PROVE  /\ DiskWith(dumped) \in SUBSET Files(DOMAIN results')
         /\ OneOfEach(DiskWith(dumped))
         /\ StdoutWith(dumped) \in Streams(DOMAIN results')
<1> DEFINE E == DOMAIN results'
<1>1. Current \in E /\ DOMAIN results \subseteq E
  BY ResultsAppended
<1>2. disk \in SUBSET Files(DOMAIN results) /\ OneOfEach(disk)
      /\ stdout \in Streams(DOMAIN results)
  BY DEF TypeOK, Files, OneOfEach, Streams
<1>3. disk \in SUBSET Files(E) /\ stdout \in Streams(E)
  BY <1>1, <1>2, GrownTypes
<1>4. dumped \in Written
  BY DEF Written
<1>5. GetDependencyFileName \in Path /\ GetTarget \in Path
  BY InputTypes
<1> HIDE DEF E
<1>6. DiskWith(dumped) \in SUBSET Files(E) /\ OneOfEach(DiskWith(dumped))
  <2>1. CASE GetDependencyFileName # Dash
    BY <1>1, <1>2, <1>3, <1>4, <1>5, <2>1, StoreTypes DEF DiskWith
  <2>2. CASE GetDependencyFileName = Dash
    BY <1>2, <1>3, <2>2 DEF DiskWith
  <2>3. QED
    BY <2>1, <2>2
<1>7. StdoutWith(dumped) \in Streams(E)
  <2>1. [of |-> Current, what |-> dumped] \in [of : E, what : Written]
    BY <1>1, <1>4
  <2>2. stdout \in Seq([of : E, what : Written])
    BY <1>3 DEF Streams
  <2>3. Append(stdout, [of |-> Current, what |-> dumped]) \in Streams(E)
    BY <2>1, <2>2 DEF Streams
  <2>4. QED
    BY <1>3, <2>3 DEF StdoutWith
<1>8. QED
  BY <1>6, <1>7 DEF E

-----------------------------------------------------------------------------
(* What CompileShaderFile comes to, for the proofs about it.               *)

NothingWritten(success) ==
  /\ success => ~Compiles
  /\ UNCHANGED <<phase, exit, disk, stdout>>

StoppedAtNull ==
  /\ IsAssembly
  /\ phase' = "exit" /\ exit' = 3
  /\ UNCHANGED <<disk, stdout>>

\* The output is written, after the rule.
OutputWritten(what) ==
  /\ Compiles
  /\ UNCHANGED <<phase, exit>>
  /\ \/ /\ GetOutputFileName(Input.name) = Dash
        /\ disk' = DiskWith("rule")
        /\ stdout' = Append(StdoutWith("rule"), [of |-> Current, what |-> what])
     \/ /\ GetOutputFileName(Input.name) # Dash
        /\ disk' = Store(DiskWith("rule"), GetOutputFileName(Input.name), what, GetTarget)
        /\ stdout' = StdoutWith("rule")

\* The rule or a part of it is written, and no output.
RuleWritten ==
  /\ \E dumped \in {"rule", "partial"} :
       disk' = DiskWith(dumped) /\ stdout' = StdoutWith(dumped)
  /\ UNCHANGED <<phase, exit>>

LEMMA Outcomes ==
  ASSUME CompileShaderFile
  PROVE  /\ phase = "files" /\ Current <= Len(input_files)
         /\ \/ \E success \in BOOLEAN : Compiled(success) /\ NothingWritten(success)
            \/ Compiled(FALSE) /\ StoppedAtNull
            \/ Compiled(FALSE) /\ RuleWritten
            \/ Compiled(TRUE) /\ OutputWritten(CompilationOutput)
            \/ Compiled(FALSE) /\ OutputWritten("partial")
<1> USE DEF Finished, Compiled
<1>1. CASE CannotRead
  BY <1>1 DEF CannotRead, NothingWritten
<1>2. CASE SkipAssembly
  BY <1>2 DEF SkipAssembly, NothingWritten
<1>3. CASE NoStageFound
  BY <1>3 DEF NoStageFound, NothingWritten
<1>4. CASE CannotDumpDependencyInfo
  BY <1>4 DEF CannotDumpDependencyInfo, DumpDependencyInfo, NothingWritten, RuleWritten
<1>5. CASE CompilationFails
  BY <1>5 DEF CompilationFails, DumpDependencyInfo, RuleWritten
<1>6. CASE StopsAtNull
  BY <1>6 DEF StopsAtNull, StoppedAtNull, Compiles
<1>7. CASE CannotOpenOutput
  BY <1>7 DEF CannotOpenOutput, DumpDependencyInfo, RuleWritten
<1>8. ASSUME NEW what, NEW success, Emit(what, success)
      PROVE  /\ phase = "files" /\ Current <= Len(input_files)
             /\ Compiled(success) /\ OutputWritten(what)
  BY <1>8 DEF Emit, OutputWritten
<1>9. CASE EmitCompiledResult
  BY <1>8, <1>9 DEF EmitCompiledResult
<1>10. QED
  BY <1>1, <1>2, <1>3, <1>4, <1>5, <1>6, <1>7, <1>9 DEF CompileShaderFile

LEMMA OutputWrittenTypes ==
  ASSUME TypeOK, Current <= Len(input_files), NEW success \in BOOLEAN,
         Compiled(success), NEW what \in Written, OutputWritten(what)
  PROVE  /\ disk' \in SUBSET Files(DOMAIN results') /\ OneOfEach(disk')
         /\ stdout' \in Streams(DOMAIN results')
<1> DEFINE E == DOMAIN results'
           output == GetOutputFileName(Input.name)
<1>1. DiskWith("rule") \in SUBSET Files(E) /\ OneOfEach(DiskWith("rule"))
      /\ StdoutWith("rule") \in Streams(E)
  BY RuleTypes
<1>2. Current \in E
  BY ResultsAppended
<1>3. output \in Path /\ GetTarget \in Path
  BY InputTypes
<1> HIDE DEF E, output
<1>4. CASE output = Dash
  <2>1. disk' = DiskWith("rule")
        /\ stdout' = Append(StdoutWith("rule"), [of |-> Current, what |-> what])
    BY <1>4 DEF OutputWritten, output
  <2>2. [of |-> Current, what |-> what] \in [of : E, what : Written]
    BY <1>2
  <2>3. stdout' \in Streams(E)
    <3>1. StdoutWith("rule") \in Seq([of : E, what : Written])
      BY <1>1 DEF Streams
    <3>2. Append(StdoutWith("rule"), [of |-> Current, what |-> what])
            \in Seq([of : E, what : Written])
      BY <2>2, <3>1
    <3>3. QED
      BY <2>1, <3>2 DEF Streams
  <2>4. QED
    BY <1>1, <2>1, <2>3 DEF E
<1>5. CASE output # Dash
  <2>1. disk' = Store(DiskWith("rule"), output, what, GetTarget)
        /\ stdout' = StdoutWith("rule")
    BY <1>5 DEF OutputWritten, output
  <2>2. disk' \in SUBSET Files(E) /\ OneOfEach(disk')
    BY <1>1, <1>2, <1>3, <1>5, <2>1, StoreTypes
  <2>3. QED
    BY <1>1, <2>1, <2>2 DEF E
<1>6. QED
  BY <1>4, <1>5

LEMMA CompileTypes == TypeOK /\ CompileShaderFile => TypeOK'
<1> SUFFICES ASSUME TypeOK, CompileShaderFile PROVE TypeOK'
  OBVIOUS
<1>1. Current <= Len(input_files) /\ phase = "files"
  BY Outcomes
<1>2. disk \in SUBSET Files(DOMAIN results) /\ OneOfEach(disk)
      /\ stdout \in Streams(DOMAIN results) /\ PhaseTyped
  BY DEF TypeOK, Files, OneOfEach, Streams, PhaseTyped
<1>3. UNCHANGED <<phase, exit>> => PhaseTyped'
  BY <1>2 DEF PhaseTyped
<1>4. StoppedAtNull => PhaseTyped'
  BY DEF StoppedAtNull, PhaseTyped
<1>5. ASSUME NEW success \in BOOLEAN, Compiled(success), UNCHANGED <<disk, stdout>>,
             PhaseTyped'
      PROVE  TypeOK'
  <2>1. DOMAIN results \subseteq DOMAIN results'
    BY <1>5, ResultsAppended
  <2>2. disk' \in SUBSET Files(DOMAIN results') /\ OneOfEach(disk')
        /\ stdout' \in Streams(DOMAIN results')
    BY <1>2, <1>5, <2>1, GrownTypes
  <2>3. QED
    BY <1>1, <1>5, <2>2, CompiledTypes
<1>6. CASE Compiled(FALSE) /\ RuleWritten
  <2>1. disk' \in SUBSET Files(DOMAIN results') /\ OneOfEach(disk')
        /\ stdout' \in Streams(DOMAIN results')
    BY <1>1, <1>6, RuleTypes DEF RuleWritten
  <2>2. PhaseTyped'
    BY <1>3, <1>6 DEF RuleWritten
  <2>3. QED
    BY <1>1, <1>6, <2>1, <2>2, CompiledTypes
<1>7. ASSUME NEW success \in BOOLEAN, NEW what \in Written, Compiled(success),
             OutputWritten(what)
      PROVE  TypeOK'
  <2>1. PhaseTyped'
    BY <1>3, <1>7 DEF OutputWritten
  <2>2. QED
    BY <1>1, <1>7, <2>1, OutputWrittenTypes, CompiledTypes
<1>8. CompilationOutput \in Written /\ "partial" \in Written
  BY DEF CompilationOutput, Written, TypeOK
<1>9. CASE \E success \in BOOLEAN : Compiled(success) /\ NothingWritten(success)
  BY <1>3, <1>5, <1>9 DEF NothingWritten
<1>10. CASE Compiled(FALSE) /\ StoppedAtNull
  BY <1>4, <1>5, <1>10 DEF StoppedAtNull
<1>11. QED
  BY <1>6, <1>7, <1>8, <1>9, <1>10, Outcomes

LEMMA TypeStep == TypeOK /\ [Next]_vars => TypeOK'
<1> SUFFICES ASSUME TypeOK, [Next]_vars PROVE TypeOK'
  OBVIOUS
<1>1. UNCHANGED vars => TypeOK'
  BY DEF vars, TypeOK
<1>2. Exited => UNCHANGED vars
  BY DEF Exited
<1>3. QED
  BY <1>1, <1>2, TakeArgumentTypes, EndOfLineTypes, CompileTypes, ExitTypes DEF Next

LEMMA TypeInit == Init => TypeOK
<1> SUFFICES ASSUME Init PROVE TypeOK
  OBVIOUS
<1>1. argv \in Seq(Args) /\ Len(argv) <= MaxArgs
  <2>1. MaxArgs \in Nat
    BY GlslcAssumption
  <2>2. QED
    BY <2>1 DEF Init
<1>2. ArgumentsTyped /\ PhaseTyped
  BY Literals, PathTypes DEF Init, ArgumentsTyped, PhaseTyped, OutputTypes, DumpModes
<1>3. results \in Seq(BOOLEAN) /\ Len(results) <= Len(input_files)
  BY DEF Init
<1>4. QED
  BY <1>1, <1>2, <1>3 DEF Init, TypeOK, ArgumentsTyped, PhaseTyped

-----------------------------------------------------------------------------
(* The modes do not depend on the order of the options.                    *)

\* No setting before n, or one that the default does not matter for.
LEMMA LatestOrDefault ==
  ASSUME argv \in Seq(Args), NEW opt, NEW n \in 0..Len(argv)
  PROVE  \/ \A d : Latest(opt, n, d) = d
         \/ \E b \in Args : /\ b.opt = opt /\ b.value # NoValue
                            /\ \A d : Latest(opt, n, d) = b.value
<1> DEFINE S == Settings(opt, n)
<1>1. n \in Nat /\ n <= Len(argv) /\ S \in SUBSET (1..n)
  BY DEF Settings
<1>2. CASE S = {}
  BY <1>2, LatestBySettings
<1>3. CASE S # {}
  <2>1. Max(S) \in S
    BY <1>1, <1>3, MaxIsGreatest
  <2>2. Max(S) \in DOMAIN argv /\ argv[Max(S)].opt = opt
        /\ argv[Max(S)].value # NoValue
    BY <1>1, <2>1 DEF Settings
  <2>3. argv[Max(S)] \in Args
    BY <2>2
  <2>4. \A d : Latest(opt, n, d) = argv[Max(S)].value
    BY <1>3, LatestBySettings
  <2>5. QED
    BY <2>2, <2>3, <2>4
<1>4. QED
  BY <1>2, <1>3

\* ModesIgnoreOrder, of a line with or without -E or -M, -S and -c, and of a
\* last -o.
Modes(m, text, disassembly, individual, output) ==
  /\ m.output_type_ = CASE text -> "PreprocessedText"
                         [] ~text /\ disassembly -> "SpirvAssemblyText"
                         [] OTHER -> "SpirvBinary"
  /\ m.needs_linking_ = ~(text \/ disassembly \/ individual)
  /\ ~text => m.file_extension_ =
                CASE disassembly -> <<"spvasm">>
                  [] ~disassembly /\ individual -> <<"spv">>
                  [] OTHER -> <<>>
  /\ m.output_file_name_ = output

Text == Given("-E") \/ Given("-M")

LEMMA ModesIgnoreOrderIsModes ==
  ModesIgnoreOrder <=>
    Modes(fc, Text, Given("-S"), Given("-c"),
          Latest("-o", Len(argv), IF Text THEN Dash ELSE NoValue))
BY DEF ModesIgnoreOrder, Modes, Text

LEMMA ModesStep ==
  ASSUME TypeOK, ModesIgnoreOrder, NEW a \in Args, argv' = Append(argv, a), Take(a)
  PROVE  ModesIgnoreOrder'
<1> DEFINE o(d) == Latest("-o", Len(argv), d)
<1>1. argv \in Seq(Args) /\ Len(argv) \in 0..Len(argv)
  BY DEF TypeOK
<1>2. /\ Given("-E")' = (Given("-E") \/ a.opt = "-E")
      /\ Given("-M")' = (Given("-M") \/ a.opt = "-M")
      /\ Given("-S")' = (Given("-S") \/ a.opt = "-S")
      /\ Given("-c")' = (Given("-c") \/ a.opt = "-c")
  BY <1>1, GivenAppended
<1>3. \A d : Latest("-o", Len(argv), d)' =
               IF a.opt = "-o" /\ a.value # NoValue THEN a.value ELSE o(d)
  BY <1>1, LatestAppended
<1>4. (\A d : o(d) = d) \/ (\E v \in Path \ {NoValue} : \A d : o(d) = v)
  <2>1. CASE \A d : o(d) = d
    BY <2>1
  <2>2. CASE \E b \in Args : b.value # NoValue /\ \A d : o(d) = b.value
    BY <2>2, ArgumentTypes
  <2>3. QED
    BY <1>1, <2>1, <2>2, LatestOrDefault
<1>5. Modes(fc, Text, Given("-S"), Given("-c"), o(IF Text THEN Dash ELSE NoValue))
  BY ModesIgnoreOrderIsModes
<1>6. Dash # NoValue
  BY PathTypes
<1>7. Latest("-o", Len(argv), IF Text THEN Dash ELSE NoValue)' =
        IF a.opt = "-o" /\ a.value # NoValue THEN a.value
        ELSE o(IF Text' THEN Dash ELSE NoValue)
  <2>1. CASE Text'
    <3>1. Latest("-o", Len(argv), IF Text THEN Dash ELSE NoValue)' =
            Latest("-o", Len(argv), Dash)'
      BY <2>1
    <3>2. QED
      BY <1>3, <2>1, <3>1
  <2>2. CASE ~Text'
    <3>1. Latest("-o", Len(argv), IF Text THEN Dash ELSE NoValue)' =
            Latest("-o", Len(argv), NoValue)'
      BY <2>2
    <3>2. QED
      BY <1>3, <2>2, <3>1
  <2>3. QED
    BY <2>1, <2>2
<1> DEFINE output == IF a.opt = "-o" /\ a.value # NoValue THEN a.value
                     ELSE o(IF Text' THEN Dash ELSE NoValue)
<1>8. /\ Text \in BOOLEAN /\ Given("-S") \in BOOLEAN /\ Given("-c") \in BOOLEAN
      /\ Text' = (Text \/ a.opt = "-E" \/ a.opt = "-M")
  BY <1>2 DEF Text, Given
<1>9. fc \in [output_type_ : OutputTypes, needs_linking_ : BOOLEAN,
              file_extension_ : Seq(Parts), output_file_name_ : Path,
              formatted : BOOLEAN]
  BY DEF TypeOK
<1> HIDE DEF o
<1>10. ASSUME UNCHANGED fc, a.opt \notin {"-E", "-M", "-S", "-c"},
              a.opt = "-o" => a.value = NoValue
       PROVE  Modes(fc', Text', Given("-S")', Given("-c")', output)
  BY <1>2, <1>5, <1>8, <1>10
<1>11. Modes(fc', Text', Given("-S")', Given("-c")', output)
  <2>1. CASE SetOutputFileName(a)
    BY <1>2, <1>5, <1>8, <1>9, <2>1 DEF SetOutputFileName, Modes
  <2>2. CASE SetStage(a) \/ SetLanguage(a) \/ SetDependencyNames(a) \/ Inform(a)
             \/ SetCompileOption(a) \/ Refuse(a) \/ AddInput(a)
    BY <1>10, <2>2 DEF SetStage, SetLanguage, SetDependencyNames, Inform,
                       SetCompileOption, Refuse, AddInput
  <2>3. CASE SetIndividualCompilationFlag(a)
    BY <1>2, <1>5, <1>8, <1>9, <2>3 DEF SetIndividualCompilationFlag, Modes
  <2>4. CASE SetDisassemblyFlag(a)
    BY <1>2, <1>5, <1>8, <1>9, <2>4 DEF SetDisassemblyFlag, PreprocessingOnly, Modes
  <2>5. ASSUME fc' = Preprocessing, a.opt \in {"-E", "-M"}
        PROVE  Modes(fc', Text', Given("-S")', Given("-c")', output)
    <3>1. fc'.output_file_name_ = o(Dash)
      BY <1>4, <1>5, <1>6, <1>8, <1>9, <2>5 DEF Preprocessing, Modes
    <3>2. output = o(Dash)
      BY <1>8, <2>5
    <3>3. fc'.output_type_ = "PreprocessedText" /\ fc'.needs_linking_ = FALSE
      BY <1>9, <2>5 DEF Preprocessing
    <3>4. QED
      BY <1>8, <2>5, <3>1, <3>2, <3>3 DEF Modes
  <2>6. CASE SetPreprocessingOnlyFlag(a)
    BY <2>5, <2>6 DEF SetPreprocessingOnlyFlag
  <2>7. CASE SetDumpMode(a)
    BY <1>10, <2>5, <2>7 DEF SetDumpMode
  <2>8. CASE SetSpirvBinaryOutputFormat(a)
    BY <1>2, <1>5, <1>8, <1>9, <2>8 DEF SetSpirvBinaryOutputFormat, Modes
  <2>9. QED
    BY <2>1, <2>2, <2>3, <2>4, <2>6, <2>7, <2>8 DEF Take
<1>12. QED
  BY <1>7, <1>11, ModesIgnoreOrderIsModes DEF o, ModesIgnoreOrder, Modes, Text

-----------------------------------------------------------------------------
(* An input has the settings before it.                                    *)

LEMMA SettingsSoFarStep ==
  ASSUME TypeOK, SettingsSoFar, NEW a \in Args, argv' = Append(argv, a), Take(a)
  PROVE  SettingsSoFar'
<1>1. argv \in Seq(Args)
  BY DEF TypeOK
<1>2. /\ Latest("-fshader-stage=", Len(argv), File(<<"infer">>))' =
           IF a.opt = "-fshader-stage=" /\ a.value # NoValue THEN a.value
           ELSE Latest("-fshader-stage=", Len(argv), File(<<"infer">>))
      /\ Latest("-x", Len(argv), File(<<>>))' =
           IF a.opt = "-x" /\ a.value # NoValue THEN a.value
           ELSE Latest("-x", Len(argv), File(<<>>))
  BY <1>1, LatestAppended DEF File
<1>3. main \in [stage : Seq(Parts), language : Seq(Parts), success : BOOLEAN,
                has_stdin_input : BOOLEAN]
  BY DEF TypeOK
<1>4. /\ main'.stage = IF a.opt = "-fshader-stage=" /\ a.value # NoValue
                       THEN a.value.name ELSE main.stage
      /\ main'.language = IF a.opt = "-x" /\ a.value # NoValue
                          THEN a.value.name ELSE main.language
  <2>1. CASE UNCHANGED main /\ a.opt \notin {"-fshader-stage=", "-x"}
    BY <2>1
  <2>2. CASE SetStage(a)
    BY <1>3, <2>2 DEF SetStage
  <2>3. CASE SetLanguage(a)
    BY <1>3, <2>3 DEF SetLanguage
  <2>4. CASE Refuse(a)
    BY <1>3, <2>4 DEF Refuse
  <2>5. CASE AddInput(a)
    BY <1>3, <2>5 DEF AddInput
  <2>6. QED
    BY <2>1, <2>2, <2>3, <2>4, <2>5
    DEF Take, SetOutputFileName, SetIndividualCompilationFlag, SetDisassemblyFlag,
        SetPreprocessingOnlyFlag, SetDumpMode, SetDependencyNames,
        SetSpirvBinaryOutputFormat, Inform, SetCompileOption
<1>5. QED
  BY <1>2, <1>4 DEF SettingsSoFar

\* The inputs among the first k arguments, and what the line says of the k-th.
InputsUpTo(k) == {i \in 1..k : argv[i].opt = "input"}

SpecOnLine(k) ==
  LET path == argv[k].value
  IN  [name |-> path,
       stage |-> Latest("-fshader-stage=", k,
                        File(DeduceDefaultShaderKindFromFileName(path))).name,
       language |-> Latest("-x", k, File(<<IF GetFileExtension(path) = "hlsl"
                                           THEN "hlsl" ELSE "glsl">>)).name]

LEMMA LatestSettingsApplyBySpec ==
  LatestSettingsApply <=>
    \A k \in DOMAIN argv :
      argv[k].opt = "input" /\ Cardinality(InputsUpTo(k)) <= Len(input_files) =>
        input_files[Cardinality(InputsUpTo(k))] = SpecOnLine(k)
BY DEF LatestSettingsApply, InputsUpTo, SpecOnLine

LEMMA InputsAreFinite ==
  ASSUME argv \in Seq(Args)
  PROVE  /\ IsFiniteSet(Places({"input"})) /\ Cardinality(Places({"input"})) \in Nat
         /\ InputsUpTo(Len(argv)) = Places({"input"})
         /\ \A k \in DOMAIN argv :
              /\ Cardinality(InputsUpTo(k)) \in Nat
              /\ Cardinality(InputsUpTo(k)) <= Cardinality(Places({"input"}))
              /\ argv[k].opt = "input" => Cardinality(InputsUpTo(k)) >= 1
<1>1. Len(argv) \in Nat /\ DOMAIN argv = 1..Len(argv)
  OBVIOUS
<1>2. IsFiniteSet(1..Len(argv))
  BY <1>1, FS_Interval
<1>3. Places({"input"}) \in SUBSET (1..Len(argv))
  BY <1>1 DEF Places
<1>4. IsFiniteSet(Places({"input"})) /\ Cardinality(Places({"input"})) \in Nat
  BY <1>2, <1>3, FS_Subset, FS_CardinalityType
<1>5. InputsUpTo(Len(argv)) = Places({"input"})
  BY <1>1 DEF InputsUpTo, Places
<1>6. ASSUME NEW k \in DOMAIN argv
      PROVE  /\ Cardinality(InputsUpTo(k)) \in Nat
             /\ Cardinality(InputsUpTo(k)) <= Cardinality(Places({"input"}))
             /\ argv[k].opt = "input" => Cardinality(InputsUpTo(k)) >= 1
  <2>0. k \in Nat /\ k >= 1 /\ k <= Len(argv)
    BY <1>1
  <2>1. InputsUpTo(k) \in SUBSET Places({"input"})
    BY <1>1, <2>0 DEF InputsUpTo, Places
  <2>2. /\ IsFiniteSet(InputsUpTo(k))
        /\ Cardinality(InputsUpTo(k)) <= Cardinality(Places({"input"}))
    BY <1>4, <2>1, FS_Subset
  <2>3. Cardinality(InputsUpTo(k)) \in Nat
    BY <2>2, FS_CardinalityType
  <2>4. argv[k].opt = "input" => k \in InputsUpTo(k)
    BY <1>1, <2>0 DEF InputsUpTo
  <2>5. Cardinality(InputsUpTo(k)) = 0 <=> InputsUpTo(k) = {}
    BY <2>2, FS_EmptySet
  <2>6. QED
    BY <2>2, <2>3, <2>4, <2>5
<1>7. QED
  BY <1>4, <1>5, <1>6

LEMMA InputsAppended ==
  ASSUME NEW a \in Args, argv \in Seq(Args), argv' = Append(argv, a)
  PROVE  Cardinality(Places({"input"}))' =
           IF a.opt = "input" THEN Cardinality(Places({"input"})) + 1
           ELSE Cardinality(Places({"input"}))
<1>1. /\ Places({"input"})' = Places({"input"}) \cup
                         (IF a.opt = "input" THEN {Len(argv) + 1} ELSE {})
      /\ Len(argv) + 1 \notin Places({"input"})
  BY PlacesAppended
<1>2. IsFiniteSet(Places({"input"}))
  BY InputsAreFinite
<1>3. Cardinality(Places({"input"}) \cup {Len(argv) + 1}) = Cardinality(Places({"input"})) + 1
  BY <1>1, <1>2, FS_AddElement
<1>4. CASE a.opt = "input"
  BY <1>1, <1>3, <1>4
<1>5. CASE a.opt # "input"
  BY <1>1, <1>5
<1>6. QED
  BY <1>4, <1>5

LEMMA TakeInput ==
  ASSUME TypeOK, phase = "args", NEW a \in Args, Take(a)
  PROVE  \/ /\ a.opt # "input" /\ UNCHANGED input_files
         \/ /\ a.opt = "input" /\ phase' = "exit" /\ UNCHANGED input_files
         \/ /\ a.opt = "input" /\ UNCHANGED phase
            /\ input_files' = Append(input_files, InputFileSpec(a.value))
BY DEF Take, SetOutputFileName, SetStage, SetLanguage, SetIndividualCompilationFlag,
       SetDisassemblyFlag, SetPreprocessingOnlyFlag, SetDumpMode,
       SetDependencyNames, SetSpirvBinaryOutputFormat, Inform, SetCompileOption,
       Refuse, AddInput, Return

LEMMA InputCountStep ==
  ASSUME TypeOK, InputCount, phase = "args", NEW a \in Args,
         argv' = Append(argv, a), Take(a)
  PROVE  InputCount'
<1>1. argv \in Seq(Args) /\ Len(input_files) \in Nat
  BY DEF TypeOK
<1>2. Cardinality(Places({"input"})) \in Nat
  BY <1>1, InputsAreFinite
<1>3. Cardinality(Places({"input"}))' = IF a.opt = "input" THEN Cardinality(Places({"input"})) + 1
                                   ELSE Cardinality(Places({"input"}))
  BY <1>1, InputsAppended
<1>4. \A spec : Len(Append(input_files, spec)) = Len(input_files) + 1
  BY DEF TypeOK
<1>5. Len(input_files) = Cardinality(Places({"input"}))
  BY DEF InputCount
<1>6. QED
  <2>1. CASE a.opt # "input" /\ UNCHANGED input_files
    BY <1>1, <1>2, <1>3, <1>5, <2>1 DEF InputCount
  <2>2. CASE a.opt = "input" /\ phase' = "exit" /\ UNCHANGED input_files
    BY <1>1, <1>2, <1>3, <1>5, <2>2 DEF InputCount
  <2>3. CASE a.opt = "input" /\ input_files' = Append(input_files, InputFileSpec(a.value))
    <3>1. Len(input_files') = Cardinality(Places({"input"}))'
      BY <1>3, <1>4, <1>5, <2>3
    <3>2. Cardinality(Places({"input"}))' \in Nat
      BY <1>2, <1>3
    <3>3. QED
      BY <3>1, <3>2 DEF InputCount
  <2>4. QED
    BY <2>1, <2>2, <2>3, TakeInput

\* The first k arguments say the same of the k-th, whatever follows them.
LEMMA SpecKept ==
  ASSUME NEW a \in Args, argv \in Seq(Args), argv' = Append(argv, a),
         NEW k \in 1..Len(argv)
  PROVE  InputsUpTo(k)' = InputsUpTo(k) /\ SpecOnLine(k)' = SpecOnLine(k)
<1>1. \A i \in 1..Len(argv) : argv'[i] = argv[i]
  BY Appended
<1>2. InputsUpTo(k)' = InputsUpTo(k)
  BY <1>1 DEF InputsUpTo
<1>3. k \in 0..Len(argv) /\ argv'[k] = argv[k]
  BY <1>1
<1>4. \A opt, d : Latest(opt, k, d)' = Latest(opt, k, d)
  BY <1>3, LatestKept
<1>5. SpecOnLine(k)' = SpecOnLine(k)
  BY <1>3, <1>4 DEF SpecOnLine
<1>6. QED
  BY <1>2, <1>5

\* main's current settings give an input what the line says of it.
LEMMA SpecOfInput ==
  ASSUME TypeOK, SettingsSoFar, NEW a \in Args, argv' = Append(argv, a),
         a.opt = "input", NEW n \in Nat, n = Len(argv) + 1
  PROVE  SpecOnLine(n)' = InputFileSpec(a.value)
<1> DEFINE path == a.value
           deduced == DeduceDefaultShaderKindFromFileName(path)
           language == <<IF GetFileExtension(path) = "hlsl" THEN "hlsl" ELSE "glsl">>
<1>1. argv \in Seq(Args) /\ Len(argv) \in 0..Len(argv)
  BY DEF TypeOK
<1>2. n = Len(argv') /\ argv'[n] = a
  BY <1>1, Appended
<1>3. \A opt, d : Latest(opt, n, d)' = Latest(opt, Len(argv), d)'
  BY <1>2
<1>4. /\ Latest("-fshader-stage=", n, File(deduced))'
           = Latest("-fshader-stage=", Len(argv), File(deduced))
      /\ Latest("-x", n, File(language))' = Latest("-x", Len(argv), File(language))
  BY <1>1, <1>3, LatestAppended
<1>5. \A name : File(name).name = name
  BY DEF File
<1>6. Latest("-fshader-stage=", Len(argv), File(deduced)).name =
        IF main.stage = <<"infer">> THEN deduced ELSE main.stage
  <2>1. CASE \A d : Latest("-fshader-stage=", Len(argv), d) = d
    BY <1>5, <2>1 DEF SettingsSoFar
  <2>2. CASE \E b \in Args : /\ b.opt = "-fshader-stage=" /\ b.value # NoValue
                             /\ \A d : Latest("-fshader-stage=", Len(argv), d) = b.value
    BY <2>2, ArgumentTypes DEF SettingsSoFar
  <2>3. QED
    BY <1>1, <2>1, <2>2, LatestOrDefault
<1>7. Latest("-x", Len(argv), File(language)).name =
        IF main.language = <<>> THEN language ELSE main.language
  <2>1. CASE \A d : Latest("-x", Len(argv), d) = d
    BY <1>5, <2>1 DEF SettingsSoFar
  <2>2. CASE \E b \in Args : /\ b.opt = "-x" /\ b.value # NoValue
                             /\ \A d : Latest("-x", Len(argv), d) = b.value
    BY <2>2, ArgumentTypes DEF SettingsSoFar
  <2>3. QED
    BY <1>1, <2>1, <2>2, LatestOrDefault
<1>8. SpecOnLine(n)' =
        [name |-> path,
         stage |-> Latest("-fshader-stage=", n, File(deduced))'.name,
         language |-> Latest("-x", n, File(language))'.name]
  BY <1>2 DEF SpecOnLine, DeduceDefaultShaderKindFromFileName, GetFileExtension,
              IsStageFile
<1>9. InputFileSpec(path) =
        [name |-> path,
         stage |-> IF main.stage = <<"infer">> THEN deduced ELSE main.stage,
         language |-> IF main.language = <<>> THEN language ELSE main.language]
  BY DEF InputFileSpec
<1>10. QED
  BY <1>4, <1>6, <1>7, <1>8, <1>9

LEMMA LatestSettingsApplyStep ==
  ASSUME TypeOK, SettingsSoFar, InputCount, LatestSettingsApply, phase = "args",
         NEW a \in Args, argv' = Append(argv, a), Take(a)
  PROVE  LatestSettingsApply'
<1>1. argv \in Seq(Args) /\ argv' \in Seq(Args) /\ Len(input_files) \in Nat
      /\ input_files \in Seq([name : Path, stage : Seq(Parts), language : Seq(Parts)])
  BY DEF TypeOK
<1>2. Len(input_files) = Cardinality(Places({"input"}))
  BY DEF InputCount
<1>3. InputFileSpec(a.value) \in [name : Path, stage : Seq(Parts), language : Seq(Parts)]
  BY InputFileSpecType, ArgumentTypes
<1> SUFFICES ASSUME NEW k \in DOMAIN argv', argv'[k].opt = "input",
                    Cardinality(InputsUpTo(k))' <= Len(input_files')
             PROVE  input_files'[Cardinality(InputsUpTo(k))'] = SpecOnLine(k)'
  BY DEF LatestSettingsApply, InputsUpTo, SpecOnLine
<1>4. CASE k \in 1..Len(argv)
  <2>1. /\ InputsUpTo(k)' = InputsUpTo(k) /\ SpecOnLine(k)' = SpecOnLine(k)
        /\ argv'[k] = argv[k] /\ k \in DOMAIN argv
    BY <1>1, <1>4, SpecKept, Appended
  <2>2. /\ Cardinality(InputsUpTo(k)) \in 1..Len(input_files)
    BY <1>1, <1>2, <2>1, InputsAreFinite
  <2>3. input_files[Cardinality(InputsUpTo(k))] = SpecOnLine(k)
    BY <1>1, <2>1, <2>2, LatestSettingsApplyBySpec
  <2>4. input_files' = input_files
        \/ input_files' = Append(input_files, InputFileSpec(a.value))
    BY TakeInput
  <2>5. input_files'[Cardinality(InputsUpTo(k))] = input_files[Cardinality(InputsUpTo(k))]
    <3>1. CASE input_files' = input_files
      BY <3>1
    <3>2. CASE input_files' = Append(input_files, InputFileSpec(a.value))
      <4> DEFINE Specs == [name : Path, stage : Seq(Parts), language : Seq(Parts)]
      <4>1. input_files \in Seq(Specs) /\ InputFileSpec(a.value) \in Specs
        BY <1>1, <1>3
      <4> HIDE DEF Specs
      <4>2. Cardinality(InputsUpTo(k)) \in DOMAIN input_files
        BY <2>2, <4>1
      <4>3. QED
        BY <3>2, <4>1, <4>2, AppendedSequence
    <3>3. QED
      BY <2>4, <3>1, <3>2
  <2>6. QED
    BY <2>1, <2>3, <2>5
<1>5. CASE k \notin 1..Len(argv)
  <2>1. k = Len(argv) + 1 /\ a.opt = "input" /\ k = Len(argv')
    BY <1>1, <1>5, Appended
  <2>2. InputsUpTo(k)' = InputsUpTo(Len(argv))'
    BY <2>1
  <2>3. InputsUpTo(Len(argv))' = Places({"input"})'
    BY <1>1, Appended DEF InputsUpTo, Places
  <2>4. Cardinality(InputsUpTo(k))' = Len(input_files) + 1
    BY <1>1, <1>2, <2>1, <2>2, <2>3, InputsAppended
  <2>5. input_files' = Append(input_files, InputFileSpec(a.value))
    BY <1>1, <2>1, <2>4, TakeInput
  <2>6. input_files'[Len(input_files) + 1] = InputFileSpec(a.value)
    BY <1>1, <1>3, <2>5
  <2>7. SpecOnLine(k)' = InputFileSpec(a.value)
    BY <2>1, SpecOfInput
  <2>8. QED
    BY <2>4, <2>6, <2>7
<1>6. QED
  BY <1>4, <1>5

-----------------------------------------------------------------------------
(* What the state says of the line, and what is refused.                   *)

LEMMA DashInputsAppended ==
  ASSUME NEW a \in Args, argv \in Seq(Args), argv' = Append(argv, a)
  PROVE  /\ DashInputs' = DashInputs \cup
                          (IF a.opt = "input" /\ a.value = Dash
                           THEN {Len(argv) + 1} ELSE {})
         /\ Len(argv) + 1 \notin DashInputs
<1>1. /\ Places({"input"})' = Places({"input"}) \cup
                              (IF a.opt = "input" THEN {Len(argv) + 1} ELSE {})
      /\ Len(argv) + 1 \notin Places({"input"})
      /\ Places({"input"}) \subseteq 1..Len(argv)
  BY PlacesAppended
<1>2. /\ argv'[Len(argv) + 1] = a
      /\ \A i \in 1..Len(argv) : argv'[i] = argv[i]
  BY Appended
<1>3. QED
  BY <1>1, <1>2 DEF DashInputs

\* What Take says of each of the values, for an argument that is not refused.
LEMMA TakeAccepts ==
  ASSUME TypeOK, phase = "args", NEW a \in Args, Take(a), phase' # "exit"
  PROVE  /\ a.opt \notin {"unknown", "--help"}
         /\ a.opt \in {"-o", "-fshader-stage=", "-MF", "-MT", "-mfmt="}
              => a.value # NoValue
BY DEF Take, SetOutputFileName, SetStage, SetLanguage, SetIndividualCompilationFlag,
       SetDisassemblyFlag, SetPreprocessingOnlyFlag, SetDumpMode,
       SetDependencyNames, SetSpirvBinaryOutputFormat, Inform, SetCompileOption,
       Refuse, AddInput, Return

LEMMA TakeMain ==
  ASSUME TypeOK, phase = "args", NEW a \in Args, Take(a), phase' # "exit"
  PROVE  /\ main'.success <=> main.success /\ ~(a.opt = "-x" /\ a.value = NoValue)
         /\ main'.has_stdin_input <=>
              main.has_stdin_input \/ (a.opt = "input" /\ a.value = Dash)
         /\ ~(main.has_stdin_input /\ a.opt = "input" /\ a.value = Dash)
<1>1. main \in [stage : Seq(Parts), language : Seq(Parts), success : BOOLEAN,
                has_stdin_input : BOOLEAN]
  BY DEF TypeOK
<1>2. CASE UNCHANGED main /\ a.opt \notin {"-x", "input"}
  BY <1>1, <1>2
<1>3. CASE SetStage(a)
  BY <1>1, <1>3 DEF SetStage
<1>4. CASE SetLanguage(a)
  BY <1>1, <1>4 DEF SetLanguage
<1>5. CASE AddInput(a)
  <2>1. /\ ~(a.value = Dash /\ main.has_stdin_input)
        /\ main' = [main EXCEPT !.has_stdin_input = @ \/ a.value = Dash]
        /\ a.opt = "input"
    BY <1>5 DEF AddInput, Return
  <2>2. /\ main'.success = main.success
        /\ main'.has_stdin_input = (main.has_stdin_input \/ a.value = Dash)
    BY <1>1, <2>1
  <2>3. QED
    BY <2>1, <2>2
<1>6. QED
  BY <1>2, <1>3, <1>4, <1>5
  DEF Take, SetOutputFileName, SetIndividualCompilationFlag, SetDisassemblyFlag,
      SetPreprocessingOnlyFlag, SetDumpMode, SetDependencyNames,
      SetSpirvBinaryOutputFormat, Inform, SetCompileOption, Refuse, Return

LEMMA TakeDependencies ==
  ASSUME TypeOK, phase = "args", NEW a \in Args, Take(a), phase' # "exit"
  PROVE  /\ a.opt \in {"-M", "-MD"} => dep.mode_ = "not_set"
         /\ dep'.mode_ = CASE a.opt = "-M" -> "dump_as_compilation_output"
                           [] a.opt = "-MD" -> "dump_as_extra_file"
                           [] OTHER -> dep.mode_
         /\ dep'.made <=> dep.made \/ a.opt \in {"-M", "-MD", "-MF", "-MT"}
         /\ dep'.file = IF a.opt = "-MF" THEN a.value ELSE dep.file
         /\ dep'.target = IF a.opt = "-MT" THEN a.value ELSE dep.target
         /\ fc'.formatted <=> fc.formatted \/ a.opt = "-mfmt="
<1>1. dep \in [made : BOOLEAN, mode_ : DumpModes, file : Path, target : Path]
      /\ fc \in [output_type_ : OutputTypes, needs_linking_ : BOOLEAN,
                 file_extension_ : Seq(Parts), output_file_name_ : Path,
                 formatted : BOOLEAN]
  BY DEF TypeOK
<1>2. CASE UNCHANGED <<fc, dep>> /\ a.opt \notin {"-M", "-MD", "-MF", "-MT", "-mfmt="}
  BY <1>1, <1>2
<1>3. CASE SetOutputFileName(a) \/ SetIndividualCompilationFlag(a)
           \/ SetDisassemblyFlag(a)
  BY <1>1, <1>3
  DEF SetOutputFileName, SetIndividualCompilationFlag, SetDisassemblyFlag
<1>4. Preprocessing.formatted = fc.formatted
  BY <1>1 DEF Preprocessing
<1>5. CASE SetPreprocessingOnlyFlag(a)
  BY <1>1, <1>4, <1>5 DEF SetPreprocessingOnlyFlag
<1>6. CASE SetDumpMode(a)
  <2>1. /\ a.opt \in {"-M", "-MD"} /\ dep.mode_ = "not_set"
        /\ dep' = [dep EXCEPT !.made = TRUE,
                              !.mode_ = IF a.opt = "-M"
                                        THEN "dump_as_compilation_output"
                                        ELSE "dump_as_extra_file"]
    BY <1>6 DEF SetDumpMode, Return
  <2>2. fc'.formatted = fc.formatted
    BY <1>4, <1>6 DEF SetDumpMode
  <2>3. QED
    BY <1>1, <2>1, <2>2
<1>7. CASE SetDependencyNames(a)
  BY <1>1, <1>7 DEF SetDependencyNames
<1>8. CASE SetSpirvBinaryOutputFormat(a)
  BY <1>1, <1>8 DEF SetSpirvBinaryOutputFormat
<1>9. QED
  BY <1>2, <1>3, <1>5, <1>6, <1>7, <1>8
  DEF Take, SetStage, SetLanguage, Inform, SetCompileOption, Refuse, AddInput, Return

LEMMA LineSoFarStep ==
  ASSUME TypeOK, LineSoFar, phase = "args", NEW a \in Args,
         argv' = Append(argv, a), Take(a)
  PROVE  LineSoFar'
<1> SUFFICES ASSUME phase' # "exit"
             PROVE  /\ NoMistakeSoFar' /\ MainSoFar' /\ DependenciesSoFar'
                    /\ fc'.formatted <=> Given("-mfmt=")'
  BY DEF LineSoFar
<1>1. argv \in Seq(Args)
  BY DEF TypeOK
<1>2. /\ NoMistakeSoFar /\ MainSoFar /\ DependenciesSoFar
      /\ fc.formatted <=> Given("-mfmt=")
  BY DEF LineSoFar
<1>3. /\ Len(argv) \in Nat /\ DOMAIN argv = 1..Len(argv)
      /\ DOMAIN argv' = 1..Len(argv) + 1 /\ argv'[Len(argv) + 1] = a
      /\ \A i \in 1..Len(argv) : argv'[i] = argv[i]
  BY <1>1, Appended
<1>4. \A i \in DOMAIN argv' : i \in DOMAIN argv \/ i = Len(argv) + 1
  BY <1>3
<1>5. NoMistakeSoFar'
  BY <1>2, <1>3, <1>4, TakeAccepts DEF NoMistakeSoFar
<1>6. LanguagesGiven' <=> LanguagesGiven /\ ~(a.opt = "-x" /\ a.value = NoValue)
  BY <1>3, <1>4 DEF LanguagesGiven
<1>7. MainSoFar'
  BY <1>1, <1>2, <1>6, TakeMain, DashInputsAppended DEF MainSoFar, AtMostOne
<1>8. /\ Places({"-M", "-MD"})' = Places({"-M", "-MD"}) \cup
           (IF a.opt \in {"-M", "-MD"} THEN {Len(argv) + 1} ELSE {})
      /\ Places({"-M", "-MD", "-MF", "-MT"})' = Places({"-M", "-MD", "-MF", "-MT"}) \cup
           (IF a.opt \in {"-M", "-MD", "-MF", "-MT"} THEN {Len(argv) + 1} ELSE {})
  BY <1>1, PlacesAppended
<1>9. /\ Given("-M")' <=> Given("-M") \/ a.opt = "-M"
      /\ Given("-MF")' <=> Given("-MF") \/ a.opt = "-MF"
      /\ Given("-MT")' <=> Given("-MT") \/ a.opt = "-MT"
      /\ Given("-mfmt=")' <=> Given("-mfmt=") \/ a.opt = "-mfmt="
  BY <1>1, GivenAppended DEF Given
<1>10. DependenciesSoFar'
  <2>1. AtMostOne(Places({"-M", "-MD"}))'
        /\ (dep'.mode_ = "not_set" <=> Places({"-M", "-MD"})' = {})
    BY <1>2, <1>8, TakeDependencies DEF DependenciesSoFar, AtMostOne
  <2>2. dep'.mode_ = "dump_as_compilation_output" <=> Given("-M")'
    BY <1>2, <1>9, TakeDependencies DEF DependenciesSoFar
  <2>3. dep'.made <=> Places({"-M", "-MD", "-MF", "-MT"})' # {}
    BY <1>2, <1>8, TakeDependencies DEF DependenciesSoFar
  <2>4. /\ dep'.file # NoValue <=> Given("-MF")'
        /\ dep'.target # NoValue <=> Given("-MT")'
    BY <1>2, <1>9, TakeDependencies, TakeAccepts DEF DependenciesSoFar
  <2>5. QED
    BY <2>1, <2>2, <2>3, <2>4 DEF DependenciesSoFar
<1>11. fc'.formatted <=> Given("-mfmt=")'
  BY <1>2, <1>9, TakeDependencies
<1>12. QED
  BY <1>5, <1>7, <1>10, <1>11

-----------------------------------------------------------------------------
(* A line is compiled exactly if it is acceptable.                         *)

LEMMA AtMostOneCardinality ==
  ASSUME NEW S, IsFiniteSet(S)
  PROVE  /\ Cardinality(S) \in Nat
         /\ Cardinality(S) > 0 <=> S # {}
         /\ Cardinality(S) > 1 <=> ~AtMostOne(S)
<1>1. Cardinality(S) \in Nat /\ (Cardinality(S) = 0 <=> S = {})
  BY FS_CardinalityType, FS_EmptySet
<1>2. Cardinality(S) = 1 <=> \E x : S = {x}
  BY FS_Singleton
<1>3. AtMostOne(S) <=> S = {} \/ \E x : S = {x}
  <2>1. ASSUME S # {}, AtMostOne(S) PROVE \E x : S = {x}
    <3>1. PICK x \in S : TRUE
      BY <2>1
    <3>2. S = {x}
      BY <2>1, <3>1 DEF AtMostOne
    <3>3. QED
      BY <3>2
  <2>2. QED
    BY <2>1 DEF AtMostOne
<1>4. Cardinality(S) > 1 <=> Cardinality(S) # 0 /\ Cardinality(S) # 1
  BY <1>1
<1>5. QED
  BY <1>1, <1>2, <1>3, <1>4

LEMMA PlacesOfSome ==
  /\ Places({"-M", "-MD"}) # {} <=> Given("-M") \/ Given("-MD")
  /\ Places({"-M", "-MD", "-MF", "-MT"}) # {} <=>
       Given("-M") \/ Given("-MD") \/ Given("-MF") \/ Given("-MT")
  /\ Places({"-S", "-E", "-M"}) = {} <=> ~Given("-S") /\ ~Text
  /\ Places({"-c", "-S", "-E", "-M"}) # {} <=> Given("-c") \/ Given("-S") \/ Text
  /\ Places({"-E", "-M"}) # {} <=> Text
BY DEF Places, Given, Text

\* With a value for every -o, what its default does not matter for.
LEMMA LatestOutput ==
  ASSUME argv \in Seq(Args), NoMistakeSoFar
  PROVE  \/ ~Given("-o") /\ \A d : Latest("-o", Len(argv), d) = d
         \/ Given("-o") /\ \E v \in Path \ {NoValue} :
                             \A d : Latest("-o", Len(argv), d) = v
<1>1. Len(argv) \in 0..Len(argv) /\ DOMAIN argv = 1..Len(argv)
  OBVIOUS
<1>2. Settings("-o", Len(argv)) = {} <=> ~Given("-o")
  BY <1>1 DEF Settings, Given, Places, NoMistakeSoFar
<1>3. CASE ~Given("-o")
  BY <1>2, <1>3, LatestBySettings
<1>4. CASE Given("-o")
  <2>1. PICK i \in DOMAIN argv : argv[i].opt = "-o"
    BY <1>4 DEF Given, Places
  <2>2. Len(argv) \in Nat /\ Settings("-o", Len(argv)) \in SUBSET (1..Len(argv))
    BY <1>1 DEF Settings
  <2>3. Max(Settings("-o", Len(argv))) \in Settings("-o", Len(argv))
    BY <1>2, <1>4, <2>2, MaxIsGreatest
  <2>4. argv[Max(Settings("-o", Len(argv)))] \in Args
        /\ argv[Max(Settings("-o", Len(argv)))].value # NoValue
    BY <1>1, <2>3 DEF Settings
  <2>5. \A d : Latest("-o", Len(argv), d) = argv[Max(Settings("-o", Len(argv)))].value
    BY <1>2, <1>4, LatestBySettings
  <2>6. QED
    BY <1>4, <2>4, <2>5, ArgumentTypes
<1>5. QED
  BY <1>3, <1>4

LEMMA ValidatedIsAcceptable ==
  ASSUME TypeOK, ModesIgnoreOrder, InputCount, LineSoFar, phase # "exit"
  PROVE  ValidateOptions(Len(input_files)) /\ main.success <=> Acceptable
<1> DEFINE num == Len(input_files)
           o(d) == Latest("-o", Len(argv), d)
           many == ~AtMostOne(Places({"input"}))
<1>1. argv \in Seq(Args) /\ Len(argv) \in 0..Len(argv)
  BY DEF TypeOK
<1>2. NoMistakeSoFar /\ MainSoFar /\ DependenciesSoFar
      /\ (fc.formatted <=> Given("-mfmt="))
  BY DEF LineSoFar
<1>3. /\ num \in Nat
      /\ num > 0 <=> Given("input")
      /\ num > 1 <=> many
  <2>1. num = Cardinality(Places({"input"}))
    BY DEF InputCount
  <2>2. IsFiniteSet(Places({"input"}))
    BY <1>1, InputsAreFinite
  <2>3. QED
    BY <2>1, <2>2, AtMostOneCardinality DEF Given
<1>4. num <= 1 <=> ~many
  BY <1>3
<1>5. Modes(fc, Text, Given("-S"), Given("-c"), o(IF Text THEN Dash ELSE NoValue))
  BY ModesIgnoreOrderIsModes
<1>6. \/ ~Given("-o") /\ \A d : o(d) = d
      \/ Given("-o") /\ \E v \in Path \ {NoValue} : \A d : o(d) = v
  BY <1>1, <1>2, LatestOutput
<1> HIDE DEF num, o, many
<1>7. PreprocessingOnly <=> Text
  BY <1>5 DEF Modes, PreprocessingOnly
<1>8. ~fc.needs_linking_ <=> Text \/ Given("-S") \/ Given("-c")
  BY <1>5 DEF Modes
<1>9. (IF PreprocessingOnly THEN fc.output_file_name_ = Dash
                            ELSE fc.output_file_name_ = NoValue)
        <=> (Given("-o") => Text /\ o(NoValue) = Dash)
  <2>1. fc.output_file_name_ = o(IF Text THEN Dash ELSE NoValue)
    BY <1>5 DEF Modes
  <2>2. CASE Text
    BY <1>6, <1>7, <2>1, <2>2
  <2>3. CASE ~Text
    BY <1>6, <1>7, <2>1, <2>3
  <2>4. QED
    BY <2>2, <2>3
<1>10. (dep.made => IsValid(num)) <=>
         (Given("-MF") \/ Given("-MT") => Places({"-M", "-MD"}) # {} /\ ~many)
  BY <1>2, <1>4, PlacesOfSome DEF DependenciesSoFar, IsValid
<1>11. (fc.formatted => /\ fc.output_type_ = "SpirvBinary"
                        /\ dep.mode_ # "dump_as_compilation_output")
         <=> (Given("-mfmt=") => Places({"-S", "-E", "-M"}) = {})
  <2>1. fc.output_type_ = "SpirvBinary" <=> ~Text /\ ~Given("-S")
    BY <1>5 DEF Modes
  <2>2. dep.mode_ = "dump_as_compilation_output" => Text
    BY <1>2 DEF DependenciesSoFar, Text
  <2>3. QED
    BY <1>2, <2>1, <2>2, PlacesOfSome
<1>12. AtMostOne({i \in Places({"input"}) : argv[i].value = Dash})
       /\ AtMostOne(Places({"-M", "-MD"}))
  BY <1>2 DEF MainSoFar, DashInputs, DependenciesSoFar
<1>13. main.success <=>
         \A i \in DOMAIN argv :
           /\ argv[i].opt \notin {"unknown", "--help"}
           /\ argv[i].opt \in {"-o", "-fshader-stage=", "-x", "-MF", "-MT", "-mfmt="}
                => argv[i].value # NoValue
  BY <1>2 DEF MainSoFar, LanguagesGiven, NoMistakeSoFar
<1>14. ValidateOptions(num) <=>
         /\ Given("input")
         /\ many => /\ Text \/ Given("-S") \/ Given("-c")
                    /\ Given("-o") => Text /\ o(NoValue) = Dash
         /\ Given("-MF") \/ Given("-MT") => Places({"-M", "-MD"}) # {} /\ ~many
         /\ Given("-mfmt=") => Places({"-S", "-E", "-M"}) = {}
  BY <1>3, <1>8, <1>9, <1>10, <1>11 DEF ValidateOptions
<1>15. QED
  BY <1>12, <1>13, <1>14, PlacesOfSome DEF Acceptable, num, o, many

\* main returns 1 at once only for what no later argument could mend.
LEMMA RefusedIsUnacceptable ==
  ASSUME TypeOK, LineSoFar, phase = "args", NEW a \in Args,
         argv' = Append(argv, a), Take(a), exit' = 1
  PROVE  ~Acceptable'
<1>1. argv \in Seq(Args)
  BY DEF TypeOK
<1>2. exit # 1
  BY DEF TypeOK
<1>3. /\ Len(argv) + 1 \in DOMAIN argv' /\ argv'[Len(argv) + 1] = a
  BY <1>1, Appended
<1>4. MainSoFar /\ DependenciesSoFar
  BY DEF LineSoFar
<1>5. CASE Refuse(a)
  BY <1>3, <1>5 DEF Refuse, Acceptable
<1>6. CASE SetDumpMode(a)
  <2>1. a.opt \in {"-M", "-MD"} /\ dep.mode_ # "not_set"
    BY <1>2, <1>6 DEF SetDumpMode
  <2>2. /\ Places({"-M", "-MD"})' = Places({"-M", "-MD"}) \cup {Len(argv) + 1}
        /\ Len(argv) + 1 \notin Places({"-M", "-MD"})
    BY <1>1, <2>1, PlacesAppended
  <2>3. Places({"-M", "-MD"}) # {}
    BY <1>4, <2>1 DEF DependenciesSoFar
  <2>4. ~AtMostOne(Places({"-M", "-MD"})')
    BY <2>2, <2>3 DEF AtMostOne
  <2>5. QED
    BY <2>4 DEF Acceptable
<1>7. CASE AddInput(a)
  <2>1. a.opt = "input" /\ a.value = Dash /\ main.has_stdin_input
    BY <1>2, <1>7 DEF AddInput
  <2>2. DashInputs' = DashInputs \cup {Len(argv) + 1} /\ Len(argv) + 1 \notin DashInputs
    BY <1>1, <2>1, DashInputsAppended
  <2>3. DashInputs # {}
    BY <1>4, <2>1 DEF MainSoFar
  <2>4. ~AtMostOne(DashInputs')
    BY <2>2, <2>3 DEF AtMostOne
  <2>5. QED
    BY <2>4 DEF Acceptable, DashInputs
<1>8. CASE Inform(a)
  BY <1>8 DEF Inform, Return
<1>9. CASE exit' = exit
  BY <1>2, <1>9
<1>10. QED
  BY <1>5, <1>6, <1>7, <1>8, <1>9
  DEF Take, SetOutputFileName, SetStage, SetLanguage, SetIndividualCompilationFlag,
      SetDisassemblyFlag, SetPreprocessingOnlyFlag, SetDependencyNames,
      SetSpirvBinaryOutputFormat, SetCompileOption

LEMMA AcceptedTake ==
  ASSUME TypeOK, LineSoFar, TakeArgument
  PROVE  AcceptedLines'
<1>1. PICK a \in Args : argv' = Append(argv, a) /\ Take(a)
  BY DEF TakeArgument
<1>2. phase = "args"
  BY DEF TakeArgument
<1>3. phase' # "files"
  BY <1>1, <1>2
  DEF Take, SetOutputFileName, SetStage, SetLanguage, SetIndividualCompilationFlag,
      SetDisassemblyFlag, SetPreprocessingOnlyFlag, SetDumpMode,
      SetDependencyNames, SetSpirvBinaryOutputFormat, Inform, SetCompileOption,
      Refuse, AddInput, Return
<1>4. exit' = 1 => ~Acceptable'
  BY <1>1, <1>2, RefusedIsUnacceptable
<1>5. QED
  BY <1>3, <1>4 DEF AcceptedLines

LEMMA AcceptedEnd ==
  ASSUME TypeOK, ModesIgnoreOrder, InputCount, LineSoFar, EndOfLine
  PROVE  AcceptedLines'
<1>1. phase = "args" /\ UNCHANGED argv
  BY DEF EndOfLine
<1>2. Acceptable' <=> Acceptable
  BY <1>1 DEF Acceptable, Given, Places, AtMostOne, Latest
<1>3. ValidateOptions(Len(input_files)) /\ main.success <=> Acceptable
  BY <1>1, ValidatedIsAcceptable
<1>4. CASE Acceptable
  BY <1>2, <1>3, <1>4 DEF EndOfLine, AcceptedLines, TypeOK
<1>5. CASE ~Acceptable
  BY <1>2, <1>3, <1>5 DEF EndOfLine, AcceptedLines, Return
<1>6. QED
  BY <1>4, <1>5

\* Nothing on the line, or made of it, changes once it has ended.
lineVars == <<argv, main, input_files, fc, dep>>

LineInvariants == SettingsFollowTheLine /\ SettingsSoFar /\ InputCount /\ LineSoFar

LEMMA LineTake ==
  ASSUME TypeOK, LineInvariants, TakeArgument
  PROVE  LineInvariants'
<1>1. PICK a \in Args : argv' = Append(argv, a) /\ Take(a)
  BY DEF TakeArgument
<1>2. phase = "args"
  BY DEF TakeArgument
<1>3. ModesIgnoreOrder' /\ LatestSettingsApply'
  BY <1>1, <1>2, ModesStep, LatestSettingsApplyStep
  DEF LineInvariants, SettingsFollowTheLine
<1>4. SettingsSoFar' /\ InputCount' /\ LineSoFar'
  BY <1>1, <1>2, SettingsSoFarStep, InputCountStep, LineSoFarStep DEF LineInvariants
<1>5. QED
  BY <1>3, <1>4 DEF LineInvariants, SettingsFollowTheLine

LEMMA LineKept ==
  ASSUME LineInvariants, UNCHANGED lineVars, phase = "exit" => phase' = "exit"
  PROVE  LineInvariants'
<1>1. UNCHANGED <<argv, main, input_files, fc, dep>>
  BY DEF lineVars
<1>2. SettingsFollowTheLine'
  <2>1. ModesIgnoreOrder'
    BY <1>1 DEF LineInvariants, SettingsFollowTheLine, ModesIgnoreOrder, Given,
                Places, Latest
  <2>2. \A k : InputsUpTo(k)' = InputsUpTo(k) /\ SpecOnLine(k)' = SpecOnLine(k)
    BY <1>1 DEF InputsUpTo, SpecOnLine, Latest
  <2>3. LatestSettingsApply'
    <3> SUFFICES ASSUME NEW k \in DOMAIN argv', argv'[k].opt = "input",
                        Cardinality(InputsUpTo(k))' <= Len(input_files')
                 PROVE  input_files'[Cardinality(InputsUpTo(k))'] = SpecOnLine(k)'
      BY DEF LatestSettingsApply, InputsUpTo, SpecOnLine
    <3>1. k \in DOMAIN argv /\ argv[k].opt = "input"
          /\ Cardinality(InputsUpTo(k)) <= Len(input_files)
      BY <1>1, <2>2
    <3>2. input_files[Cardinality(InputsUpTo(k))] = SpecOnLine(k)
      BY <3>1, LatestSettingsApplyBySpec DEF LineInvariants, SettingsFollowTheLine
    <3>3. QED
      BY <1>1, <2>2, <3>2
  <2>4. QED
    BY <2>1, <2>3 DEF SettingsFollowTheLine
<1>3. SettingsSoFar' /\ InputCount'
  BY <1>1 DEF LineInvariants, SettingsSoFar, InputCount, Latest, Places
<1>4. LineSoFar'
  BY <1>1 DEF LineInvariants, LineSoFar, NoMistakeSoFar, MainSoFar, LanguagesGiven,
              DependenciesSoFar, DashInputs, Given, Places
<1>5. QED
  BY <1>2, <1>3, <1>4 DEF LineInvariants

LEMMA AfterTheLine ==
  ASSUME EndOfLine \/ CompileShaderFile \/ Exit \/ UNCHANGED vars
  PROVE  UNCHANGED lineVars /\ (phase = "exit" => phase' = "exit")
<1>1. CASE EndOfLine
  BY <1>1 DEF EndOfLine, lineVars
<1>2. CASE CompileShaderFile
  BY <1>2, Outcomes DEF Compiled, lineVars
<1>3. CASE Exit
  BY <1>3 DEF Exit, lineVars
<1>4. CASE UNCHANGED vars
  BY <1>4 DEF vars, lineVars
<1>5. QED
  BY <1>1, <1>2, <1>3, <1>4

LEMMA LineStep ==
  ASSUME TypeOK, LineInvariants, [Next]_vars
  PROVE  LineInvariants'
BY LineTake, LineKept, AfterTheLine DEF Next, Exited

LEMMA AcceptedStep ==
  ASSUME TypeOK, LineInvariants, AcceptedLines, [Next]_vars
  PROVE  AcceptedLines'
<1>1. CASE TakeArgument
  BY <1>1, AcceptedTake DEF LineInvariants
<1>2. CASE EndOfLine
  BY <1>2, AcceptedEnd DEF LineInvariants, SettingsFollowTheLine
<1>3. UNCHANGED argv => (Acceptable' <=> Acceptable)
  BY DEF Acceptable, Given, Places, AtMostOne, Latest
<1>4. CASE CompileShaderFile
  <2>1. phase = "files" /\ UNCHANGED argv /\ results' # <<>>
    BY <1>4, Outcomes, ResultsAppended DEF Compiled
  <2>2. QED
    BY <1>3, <2>1 DEF AcceptedLines
<1>5. CASE Exit
  <2>1. /\ phase = "files" /\ phase' = "exit" /\ UNCHANGED <<argv, results, input_files>>
        /\ Len(results) = Len(input_files)
    BY <1>5 DEF Exit, Return
  <2>2. Acceptable
    BY <2>1 DEF AcceptedLines
  <2>3. results # <<>>
    <3>1. Len(input_files) = Cardinality(Places({"input"}))
      BY <2>1 DEF LineInvariants, InputCount
    <3>2. IsFiniteSet(Places({"input"}))
      BY InputsAreFinite DEF TypeOK
    <3>3. Len(input_files) # 0
      BY <2>2, <3>1, <3>2, FS_EmptySet DEF Acceptable, Given
    <3>4. QED
      BY <2>1, <3>3
  <2>4. QED
    BY <2>1, <2>3 DEF AcceptedLines
<1>6. CASE UNCHANGED vars
  BY <1>3, <1>6 DEF AcceptedLines, vars
<1>7. QED
  BY <1>1, <1>2, <1>4, <1>5, <1>6 DEF Next, Exited

-----------------------------------------------------------------------------
(* What the inputs leave.                                                  *)

LEMMA PhasesStep ==
  ASSUME TypeOK, Phases, [Next]_vars
  PROVE  Phases'
<1>1. CASE TakeArgument
  BY <1>1 DEF TakeArgument, Phases
<1>2. CASE EndOfLine
  BY <1>2 DEF EndOfLine, Phases, Return
<1>3. CASE CompileShaderFile
  <2>1. phase = "files" /\ results' # <<>>
    BY <1>3, Outcomes, ResultsAppended DEF Compiled
  <2>2. phase' # "args"
    BY <1>3, <2>1, Outcomes DEF NothingWritten, StoppedAtNull, RuleWritten,
                                OutputWritten
  <2>3. QED
    BY <2>1, <2>2 DEF Phases
<1>4. CASE Exit
  BY <1>4 DEF Exit, Phases, Return
<1>5. CASE UNCHANGED vars
  BY <1>5 DEF vars, Phases
<1>6. QED
  BY <1>1, <1>2, <1>3, <1>4, <1>5 DEF Next, Exited

\* Apart from an input that is compiled, nothing is written.
LEMMA OthersWriteNothing ==
  ASSUME TakeArgument \/ EndOfLine \/ Exit \/ UNCHANGED vars
  PROVE  UNCHANGED <<results, disk, stdout>>
BY DEF TakeArgument, EndOfLine, Exit, vars

LEMMA StoreMembers ==
  ASSUME NEW files, NEW to, NEW what, NEW target, NEW w \in Store(files, to, what, target)
  PROVE  \/ w \in files
         \/ w.of = Current /\ w.what = what /\ w.target = target
BY DEF Store

\* A file is new, or was there before.
LEMMA NewFiles ==
  ASSUME TypeOK, NEW dumped, NEW w \in DiskWith(dumped)
  PROVE  w \in disk \/ (w.of = Current /\ w.what = dumped /\ w.target = GetTarget)
BY StoreMembers DEF DiskWith

LEMMA NewWrites ==
  ASSUME TypeOK, NEW what, OutputWritten(what), NEW w \in disk'
  PROVE  \/ w \in disk
         \/ w.of = Current /\ w.what \in {"rule", what} /\ w.target = GetTarget
BY NewFiles, StoreMembers DEF OutputWritten

LEMMA NewRecord ==
  ASSUME NEW S, NEW s \in Seq(S), NEW x \in S, NEW n \in DOMAIN Append(s, x)
  PROVE  \/ n \in DOMAIN s /\ Append(s, x)[n] = s[n]
         \/ Append(s, x)[n] = x
OBVIOUS

LEMMA NewRule ==
  ASSUME TypeOK, NEW dumped \in {"rule", "partial"}, NEW n \in DOMAIN StdoutWith(dumped)
  PROVE  \/ n \in DOMAIN stdout /\ StdoutWith(dumped)[n] = stdout[n]
         \/ StdoutWith(dumped)[n] = [of |-> Current, what |-> dumped]
<1> DEFINE Records == [of : DOMAIN results \cup {Current}, what : Written]
           rule == [of |-> Current, what |-> dumped]
<1>1. stdout \in Seq(Records)
  <2>1. [of : DOMAIN results, what : Written] \subseteq Records
    OBVIOUS
  <2>2. stdout \in Seq([of : DOMAIN results, what : Written])
    BY DEF TypeOK
  <2> HIDE DEF Records
  <2>3. QED
    BY <2>1, <2>2, WiderSequence
<1>2. rule \in Records
  BY DEF Written
<1> HIDE DEF Records
<1>3. CASE StdoutWith(dumped) = stdout
  BY <1>3
<1>4. CASE StdoutWith(dumped) = Append(stdout, rule)
  BY <1>1, <1>2, <1>4, NewRecord
<1>5. QED
  BY <1>3, <1>4 DEF StdoutWith

LEMMA NewOutput ==
  ASSUME TypeOK, Current <= Len(input_files), NEW success \in BOOLEAN,
         Compiled(success), NEW what \in Written, OutputWritten(what),
         NEW n \in DOMAIN stdout'
  PROVE  \/ n \in DOMAIN stdout /\ stdout'[n] = stdout[n]
         \/ stdout'[n].of = Current /\ stdout'[n].what \in {"rule", what}
<1>1. StdoutWith("rule") \in Seq([of : DOMAIN results', what : Written])
  BY RuleTypes DEF Streams
<1>2. [of |-> Current, what |-> what] \in [of : DOMAIN results', what : Written]
  BY ResultsAppended
<1>3. CASE stdout' = StdoutWith("rule")
  BY <1>3, NewRule
<1>4. CASE stdout' = Append(StdoutWith("rule"), [of |-> Current, what |-> what])
  <2>1. \/ n \in DOMAIN StdoutWith("rule") /\ stdout'[n] = StdoutWith("rule")[n]
        \/ stdout'[n] = [of |-> Current, what |-> what]
    BY <1>1, <1>2, <1>4, NewRecord
  <2>2. QED
    BY <2>1, NewRule
<1>5. QED
  BY <1>3, <1>4 DEF OutputWritten

LEMMA FailuresStep ==
  ASSUME TypeOK, FailuresLeaveNoOutput, [Next]_vars
  PROVE  FailuresLeaveNoOutput'
<1>1. CASE TakeArgument \/ EndOfLine \/ Exit \/ UNCHANGED vars
  BY <1>1, OthersWriteNothing DEF FailuresLeaveNoOutput
<1>2. ASSUME NEW success \in BOOLEAN, Compiled(success), CompileShaderFile,
             \A w \in disk' : w \in disk \/ (w.of = Current /\
                                (w.what \in OutputTypes => success)),
             \A n \in DOMAIN stdout' :
               \/ n \in DOMAIN stdout /\ stdout'[n] = stdout[n]
               \/ stdout'[n].of = Current /\ (stdout'[n].what \in OutputTypes => success)
      PROVE  FailuresLeaveNoOutput'
  <2>1. /\ results'[Current] = success
        /\ \A i \in DOMAIN results : results'[i] = results[i]
    BY <1>2, ResultsAppended
  <2>2. \A w \in disk : w.of \in DOMAIN results
    BY DEF TypeOK
  <2>3. \A n \in DOMAIN stdout : stdout[n].of \in DOMAIN results
    <3>1. stdout \in Seq([of : DOMAIN results, what : Written])
      BY DEF TypeOK
    <3>2. \A n \in DOMAIN stdout : stdout[n] \in [of : DOMAIN results, what : Written]
      BY <3>1, ElementType
    <3>3. QED
      BY <3>2
  <2>4. \A w \in disk' : w.what \in OutputTypes => results'[w.of]
    BY <1>2, <2>1, <2>2 DEF FailuresLeaveNoOutput
  <2>5. \A n \in DOMAIN stdout' : stdout'[n].what \in OutputTypes => results'[stdout'[n].of]
    BY <1>2, <2>1, <2>3 DEF FailuresLeaveNoOutput
  <2>6. QED
    BY <2>4, <2>5 DEF FailuresLeaveNoOutput
<1>3. "rule" \notin OutputTypes /\ "partial" \notin OutputTypes
  BY DEF OutputTypes
<1>4. ASSUME CompileShaderFile PROVE FailuresLeaveNoOutput'
  <2>1. Current <= Len(input_files)
    BY <1>4, Outcomes
  <2>2. CompilationOutput \in Written /\ "partial" \in Written
    BY DEF CompilationOutput, Written, TypeOK
  <2>3. CASE \E success \in BOOLEAN : Compiled(success) /\ NothingWritten(success)
    BY <1>2, <1>4, <2>3 DEF NothingWritten
  <2>4. CASE Compiled(FALSE) /\ StoppedAtNull
    BY <1>2, <1>4, <2>4 DEF StoppedAtNull
  <2>5. CASE Compiled(FALSE) /\ RuleWritten
    <3>1. \A n \in DOMAIN stdout' :
            \/ n \in DOMAIN stdout /\ stdout'[n] = stdout[n]
            \/ stdout'[n].of = Current /\ stdout'[n].what \in {"rule", "partial"}
      BY <2>5, NewRule DEF RuleWritten
    <3>2. \A w \in disk' : w \in disk \/ (w.of = Current /\ w.what \in {"rule", "partial"})
      BY <2>5, NewFiles DEF RuleWritten
    <3>3. QED
      BY <1>2, <1>3, <1>4, <2>5, <3>1, <3>2
  <2>6. CASE Compiled(TRUE) /\ OutputWritten(CompilationOutput)
    <3>1. \A n \in DOMAIN stdout' :
            \/ n \in DOMAIN stdout /\ stdout'[n] = stdout[n]
            \/ stdout'[n].of = Current
      BY <2>1, <2>2, <2>6, NewOutput
    <3>2. \A w \in disk' : w \in disk \/ w.of = Current
      BY <2>6, NewWrites
    <3>3. QED
      BY <1>2, <1>4, <2>6, <3>1, <3>2
  <2>7. CASE Compiled(FALSE) /\ OutputWritten("partial")
    <3>1. \A n \in DOMAIN stdout' :
            \/ n \in DOMAIN stdout /\ stdout'[n] = stdout[n]
            \/ stdout'[n].of = Current /\ stdout'[n].what \in {"rule", "partial"}
      BY <2>1, <2>2, <2>7, NewOutput
    <3>2. \A w \in disk' : w \in disk \/ (w.of = Current /\
                                            w.what \in {"rule", "partial"})
      BY <2>7, NewWrites
    <3>3. QED
      BY <1>2, <1>3, <1>4, <2>7, <3>1, <3>2
  <2>8. QED
    BY <1>4, <2>3, <2>4, <2>5, <2>6, <2>7, Outcomes
<1>5. QED
  BY <1>1, <1>4 DEF Next, Exited

\* Names do not depend on what has been compiled.
LEMMA NamesKept ==
  ASSUME UNCHANGED <<fc, dep, input_files>>, NEW path
  PROVE  /\ GetCandidateOutputFileName(path)' = GetCandidateOutputFileName(path)
         /\ GetOutputFileName(path)' = GetOutputFileName(path)
         /\ CompilationOutput' = CompilationOutput
         /\ \A i : Skipped(i)' = Skipped(i)
BY DEF GetCandidateOutputFileName, GetOutputFileName, PreprocessingOnly, Skipped,
       CompilationOutput

\* With -c or -S the candidate is the output itself.
LEMMA TargetIsOutput ==
  ASSUME ~fc.needs_linking_, ~PreprocessingOnly, dep.target = NoValue
  PROVE  GetTarget = GetOutputFileName(Input.name)
BY DEF GetTarget, GetOutputFileName, GetCandidateOutputFileName

LEMMA RulesStep ==
  ASSUME TypeOK, Phases, RulesNameTheOutput, [Next]_vars
  PROVE  RulesNameTheOutput'
<1>1. CASE TakeArgument
  <2>1. disk' = {}
    BY <1>1, OthersWriteNothing DEF TakeArgument, Phases
  <2>2. QED
    BY <2>1 DEF RulesNameTheOutput
<1>2. ASSUME UNCHANGED <<fc, dep, input_files>>,
             \A w \in disk' : w \in disk \/ (w.of = Current /\ w.target = GetTarget)
      PROVE  RulesNameTheOutput'
  <2> SUFFICES ASSUME ~fc.needs_linking_, ~PreprocessingOnly, dep.target = NoValue,
                      NEW w \in disk', w.what = "rule"
               PROVE  w.target = GetOutputFileName(input_files[w.of].name)'
    BY <1>2 DEF RulesNameTheOutput, PreprocessingOnly
  <2>1. GetOutputFileName(input_files[w.of].name)'
          = GetOutputFileName(input_files[w.of].name)
    BY <1>2, NamesKept DEF GetOutputFileName, GetCandidateOutputFileName,
                           PreprocessingOnly
  <2>2. CASE w \in disk
    BY <2>1, <2>2 DEF RulesNameTheOutput
  <2>3. CASE w.of = Current /\ w.target = GetTarget
    BY <2>1, <2>3, TargetIsOutput DEF Input
  <2>4. QED
    BY <1>2, <2>2, <2>3
<1>3. CASE EndOfLine \/ Exit \/ UNCHANGED vars
  BY <1>2, <1>3, OthersWriteNothing DEF EndOfLine, Exit, vars
<1>4. CASE CompileShaderFile
  <2>1. UNCHANGED <<fc, dep, input_files>>
    BY <1>4, Outcomes DEF Compiled
  <2>2. \A w \in disk' : w \in disk \/ (w.of = Current /\ w.target = GetTarget)
    <3>1. CASE UNCHANGED disk
      BY <3>1
    <3>2. CASE RuleWritten
      BY <3>2, NewFiles DEF RuleWritten
    <3>3. CASE \E what : OutputWritten(what)
      BY <3>3, NewWrites
    <3>4. QED
      BY <1>4, <3>1, <3>2, <3>3, Outcomes DEF NothingWritten, StoppedAtNull
  <2>3. QED
    BY <1>2, <2>1, <2>2
<1>5. QED
  BY <1>1, <1>3, <1>4 DEF Next, Exited

\* An output in its place, on standard output or in its file.
LEMMA OutputOfMeans ==
  ASSUME NEW i, NEW what
  PROVE  what \in OutputOf(i) <=>
           \/ /\ GetOutputFileName(input_files[i].name) = Dash
              /\ \E n \in DOMAIN stdout : stdout[n].of = i /\ stdout[n].what = what
           \/ /\ GetOutputFileName(input_files[i].name) # Dash
              /\ \E w \in disk : /\ w.to = GetOutputFileName(input_files[i].name)
                                 /\ w.of >= i /\ w.what = what
BY DEF OutputOf

LEMMA LastOfConcat ==
  ASSUME NEW S, NEW s \in Seq(S), NEW t \in Seq(S), NEW x \in S, NEW y \in S,
         s \o <<x>> = t \o <<y>>
  PROVE  x = y
<1>1. Len(s \o <<x>>) = Len(s) + 1 /\ (s \o <<x>>)[Len(s) + 1] = x
  OBVIOUS
<1>2. Len(t \o <<y>>) = Len(t) + 1 /\ (t \o <<y>>)[Len(t) + 1] = y
  OBVIOUS
<1>3. Len(s) \in Nat /\ Len(t) \in Nat
  OBVIOUS
<1>4. QED
  BY <1>1, <1>2, <1>3

\* A rule in a file of its own does not take the place of an earlier output.
LEMMA RuleBesideOutput ==
  ASSUME TypeOK, LineInvariants, AcceptedLines, phase = "files",
         Current <= Len(input_files), NEW i \in DOMAIN results,
         dep.mode_ = "dump_as_extra_file",
         GetOutputFileName(input_files[i].name) # Dash
  PROVE  GetDependencyFileName # GetOutputFileName(input_files[i].name)
<1>1. Len(input_files) > 1
  BY DEF TypeOK, Current
<1>2. ValidateOptions(Len(input_files))
  BY ValidatedIsAcceptable
  DEF AcceptedLines, LineInvariants, SettingsFollowTheLine
<1>3. /\ ~fc.needs_linking_
      /\ IF PreprocessingOnly THEN fc.output_file_name_ = Dash
                              ELSE fc.output_file_name_ = NoValue
  BY <1>1, <1>2 DEF ValidateOptions
<1>4. dep.file = NoValue
  <2>1. DependenciesSoFar
    BY DEF LineInvariants, LineSoFar
  <2>2. dep.made
    BY <2>1, PlacesOfSome DEF DependenciesSoFar
  <2>3. QED
    BY <1>1, <1>2, <2>2 DEF ValidateOptions, IsValid, TypeOK
<1>5. ~PreprocessingOnly /\ fc.output_file_name_ = NoValue
  BY <1>3, PathTypes DEF GetOutputFileName
<1>6. fc.file_extension_ \in {<<"spv">>, <<"spvasm">>}
  BY <1>3, <1>5 DEF LineInvariants, SettingsFollowTheLine, ModesIgnoreOrder,
                    PreprocessingOnly
<1> DEFINE path == input_files[i].name
           base == IF IsStageFile(path) THEN path.name ELSE WithoutExtension(path)
           candidate == GetCandidateOutputFileName(Input.name)
<1>7. base \in Seq(Parts)
  <2>1. i \in DOMAIN input_files
    BY DEF TypeOK
  <2>2. input_files \in Seq([name : Path, stage : Seq(Parts), language : Seq(Parts)])
    BY DEF TypeOK
  <2>3. path \in Path
    <3>1. input_files[i] \in [name : Path, stage : Seq(Parts), language : Seq(Parts)]
      BY <2>1, <2>2, ElementType
    <3>2. QED
      BY <3>1
  <2>4. path.name \in Seq(Parts) /\ path.dir \in Seq(Parts)
    BY <2>3 DEF Path
  <2>5. WithoutExtension(path) \in Seq(Parts)
    BY <2>4 DEF WithoutExtension, Front
  <2>6. QED
    BY <2>4, <2>5
<1>8. candidate.name \in Seq(Parts)
  BY InputTypes, OutputNameTypes DEF Path
<1> HIDE DEF base
<1>9. GetOutputFileName(path).name = base \o fc.file_extension_
  BY <1>3, <1>5 DEF GetOutputFileName, GetCandidateOutputFileName, File, base
<1>10. GetDependencyFileName.name = candidate.name \o <<"d">>
  <2>1. candidate \in Path
    BY InputTypes, OutputNameTypes
  <2>2. GetDependencyFileName = [candidate EXCEPT !.name = @ \o <<"d">>]
    BY <1>4 DEF GetDependencyFileName
  <2>3. QED
    BY <2>1, <2>2 DEF Path
<1>11. "d" \in Parts /\ "spv" \in Parts /\ "spvasm" \in Parts
  <2>1. {"-", "a", "spv", "spvasm", "d", "infer", "default", "assembly", "glsl",
         "hlsl"} \subseteq Parts
    BY GlslcAssumption
  <2>2. QED
    BY <2>1
<1>12. base \o fc.file_extension_ # candidate.name \o <<"d">>
  <2>1. CASE fc.file_extension_ = <<"spv">>
    BY <1>7, <1>8, <1>11, <2>1, LastOfConcat
  <2>2. CASE fc.file_extension_ = <<"spvasm">>
    BY <1>7, <1>8, <1>11, <2>2, LastOfConcat
  <2>3. QED
    BY <1>6, <2>1, <2>2
<1>13. QED
  BY <1>9, <1>10, <1>12

\* A store replaces what was in its file, and nothing else.
LEMMA StoreKeeps ==
  ASSUME NEW files, NEW to, NEW what, NEW target
  PROVE  /\ \A w \in files : w.to # to => w \in Store(files, to, what, target)
         /\ [to |-> to, of |-> Current, what |-> what, target |-> target]
              \in Store(files, to, what, target)
BY DEF Store

LEMMA RecordKept ==
  ASSUME NEW S, NEW s \in Seq(S), NEW x \in S, NEW n \in DOMAIN s
  PROVE  n \in DOMAIN Append(s, x) /\ Append(s, x)[n] = s[n]
OBVIOUS

LEMMA RuleKeepsStdout ==
  ASSUME TypeOK, NEW n \in DOMAIN stdout
  PROVE  n \in DOMAIN StdoutWith("rule") /\ StdoutWith("rule")[n] = stdout[n]
<1> DEFINE Records == [of : DOMAIN results \cup {Current}, what : Written]
           rule == [of |-> Current, what |-> "rule"]
<1>1. stdout \in Seq(Records)
  <2>1. [of : DOMAIN results, what : Written] \subseteq Records
    OBVIOUS
  <2>2. stdout \in Seq([of : DOMAIN results, what : Written])
    BY DEF TypeOK
  <2> HIDE DEF Records
  <2>3. QED
    BY <2>1, <2>2, WiderSequence
<1>2. rule \in Records
  BY DEF Written
<1> HIDE DEF Records
<1>3. n \in DOMAIN Append(stdout, rule) /\ Append(stdout, rule)[n] = stdout[n]
  BY <1>1, <1>2, RecordKept
<1>4. QED
  BY <1>3 DEF StdoutWith

LEMMA OutputKeepsStdout ==
  ASSUME TypeOK, Current <= Len(input_files), NEW success \in BOOLEAN,
         Compiled(success), NEW what \in Written, OutputWritten(what),
         NEW n \in DOMAIN stdout
  PROVE  n \in DOMAIN stdout' /\ stdout'[n] = stdout[n]
<1>1. n \in DOMAIN StdoutWith("rule") /\ StdoutWith("rule")[n] = stdout[n]
  BY RuleKeepsStdout
<1>2. StdoutWith("rule") \in Seq([of : DOMAIN results', what : Written])
  BY RuleTypes DEF Streams
<1>3. [of |-> Current, what |-> what] \in [of : DOMAIN results', what : Written]
  BY ResultsAppended
<1>4. CASE stdout' = StdoutWith("rule")
  BY <1>1, <1>4
<1>5. CASE stdout' = Append(StdoutWith("rule"), [of |-> Current, what |-> what])
  BY <1>1, <1>2, <1>3, <1>5, RecordKept
<1>6. QED
  BY <1>4, <1>5 DEF OutputWritten

\* The output that is written is in its place.
LEMMA NewInPlace ==
  ASSUME TypeOK, Current <= Len(input_files), NEW success \in BOOLEAN,
         Compiled(success), NEW what \in Written, OutputWritten(what),
         NEW c \in Nat, c = Current
  PROVE  what \in OutputOf(c)'
<1> DEFINE output == GetOutputFileName(Input.name)
<1>1. UNCHANGED <<fc, dep, input_files>>
  BY DEF Compiled
<1>2. \A path : GetOutputFileName(path)' = GetOutputFileName(path)
  BY <1>1 DEF GetOutputFileName, GetCandidateOutputFileName, PreprocessingOnly
<1>3. input_files'[c] = Input
  BY <1>1 DEF Input
<1>4. GetOutputFileName(input_files[c].name)' = output
  BY <1>2, <1>3
<1> HIDE DEF output
<1>5. CASE output = Dash
  <2>1. stdout' = Append(StdoutWith("rule"), [of |-> c, what |-> what])
    BY <1>5 DEF OutputWritten, output
  <2>2. StdoutWith("rule") \in Seq([of : DOMAIN results', what : Written])
    BY RuleTypes DEF Streams
  <2>3. [of |-> c, what |-> what] \in [of : DOMAIN results', what : Written]
    BY ResultsAppended
  <2>4. PICK n \in DOMAIN stdout' : stdout'[n] = [of |-> c, what |-> what]
    BY <2>1, <2>2, <2>3, AppendedSequence
  <2>5. what \in OutputOf(c)'
    BY <1>4, <1>5, <2>4 DEF OutputOf
  <2>6. QED
    BY <2>5
<1>6. CASE output # Dash
  <2>1. disk' = Store(DiskWith("rule"), output, what, GetTarget)
    BY <1>6 DEF OutputWritten, output
  <2> DEFINE w == [to |-> output, of |-> c, what |-> what, target |-> GetTarget]
  <2>2. w \in disk'
    BY <2>1, StoreKeeps
  <2>3. w.to = output /\ w.of >= c /\ w.what = what
    OBVIOUS
  <2> HIDE DEF w
  <2>4. what \in OutputOf(c)'
    BY <1>4, <1>6, <2>2, <2>3 DEF OutputOf
  <2>5. QED
    BY <2>4
<1>7. QED
  BY <1>5, <1>6

\* An output that was in its place stays there, or another takes the place.
LEMMA OldInPlace ==
  ASSUME TypeOK, LineInvariants, AcceptedLines, phase = "files",
         Current <= Len(input_files), Compiled(TRUE),
         NEW what \in Written, what = CompilationOutput, OutputWritten(what),
         NEW i \in DOMAIN results, what \in OutputOf(i)
  PROVE  what \in OutputOf(i)'
<1> DEFINE output == GetOutputFileName(input_files[i].name)
           current == GetOutputFileName(Input.name)
<1>1. UNCHANGED <<fc, dep, input_files>>
  BY DEF Compiled
<1>2. GetOutputFileName(input_files[i].name)' = output
  BY <1>1 DEF GetOutputFileName, GetCandidateOutputFileName, PreprocessingOnly
<1>3. Current >= i
  BY DEF Current, TypeOK
<1> HIDE DEF output, current
<1>4. CASE output = Dash
  <2>1. PICK n \in DOMAIN stdout : stdout[n].of = i /\ stdout[n].what = what
    BY <1>4, OutputOfMeans DEF output
  <2>2. n \in DOMAIN stdout' /\ stdout'[n] = stdout[n]
    BY OutputKeepsStdout
  <2>3. QED
    BY <1>2, <1>4, <2>1, <2>2 DEF OutputOf
<1>5. CASE output # Dash
  <2>1. PICK w \in disk : w.to = output /\ w.of >= i /\ w.what = what
    BY <1>5, OutputOfMeans DEF output
  <2>2. w \in DiskWith("rule")
    <3>1. CASE dep.mode_ = "dump_as_extra_file" /\ GetDependencyFileName # Dash
      <4>1. GetDependencyFileName # output
        BY <1>5, <3>1, RuleBesideOutput DEF output
      <4>2. QED
        BY <2>1, <3>1, <4>1, StoreKeeps DEF DiskWith
    <3>2. CASE ~(dep.mode_ = "dump_as_extra_file" /\ GetDependencyFileName # Dash)
      BY <3>2 DEF DiskWith
    <3>3. QED
      BY <3>1, <3>2
  <2>3. \E v \in disk' : v.to = output /\ v.of >= i /\ v.what = what
    <3>1. CASE disk' = DiskWith("rule")
      BY <2>1, <2>2, <3>1
    <3>2. CASE disk' = Store(DiskWith("rule"), current, what, GetTarget)
      <4>1. CASE current = output
        <5> DEFINE v == [to |-> output, of |-> Current, what |-> what,
                         target |-> GetTarget]
        <5>1. v \in disk'
          BY <3>2, <4>1, StoreKeeps
        <5>2. v.to = output /\ v.of >= i /\ v.what = what
          BY <1>3
        <5> HIDE DEF v
        <5>3. QED
          BY <5>1, <5>2
      <4>2. CASE current # output
        <5>1. w \in disk'
          BY <2>1, <2>2, <3>2, <4>2, StoreKeeps
        <5>2. QED
          BY <2>1, <5>1
      <4>3. QED
        BY <4>1, <4>2
    <3>3. QED
      BY <3>1, <3>2 DEF OutputWritten, current
  <2>4. QED
    BY <1>2, <1>5, <2>3 DEF OutputOf
<1>6. QED
  BY <1>4, <1>5

LEMMA InPlaceKept ==
  ASSUME OutputsInPlace, UNCHANGED <<fc, dep, input_files, results, disk, stdout>>
  PROVE  OutputsInPlace'
<1>1. \A i : OutputOf(i)' = OutputOf(i)
  BY DEF OutputOf, GetOutputFileName, GetCandidateOutputFileName, PreprocessingOnly
<1>2. CompilationOutput' = CompilationOutput /\ \A i : Skipped(i)' = Skipped(i)
  BY DEF CompilationOutput, Skipped
<1>3. QED
  BY <1>1, <1>2 DEF OutputsInPlace, Succeeded

LEMMA InPlaceCompile ==
  ASSUME TypeOK, LineInvariants, AcceptedLines, OutputsInPlace, CompileShaderFile
  PROVE  OutputsInPlace'
<1>1. phase = "files" /\ Current <= Len(input_files)
  BY Outcomes
<1>2. PICK c \in Nat : c = Current
  BY DEF Current, TypeOK
<1>3. CompilationOutput \in Written
  BY DEF CompilationOutput, Written, TypeOK
<1>4. CASE Compiled(FALSE)
  <2>1. c \in DOMAIN results' /\ results'[c] = FALSE
    BY <1>2, <1>4, ResultsAppended
  <2>2. QED
    BY <2>1 DEF OutputsInPlace, Succeeded
<1>5. ASSUME Compiled(TRUE), Succeeded',
             Skipped(c) \/ CompilationOutput \in OutputOf(c)',
             \A i \in DOMAIN results : CompilationOutput \in OutputOf(i) =>
                                         CompilationOutput \in OutputOf(i)'
      PROVE  \A i \in DOMAIN results' : Skipped(i)' \/ CompilationOutput' \in OutputOf(i)'
  <2>1. UNCHANGED <<fc, dep, input_files>>
    BY <1>5 DEF Compiled
  <2>2. CompilationOutput' = CompilationOutput /\ \A i : Skipped(i)' = Skipped(i)
    BY <2>1 DEF CompilationOutput, Skipped
  <2>3. Succeeded
    BY <1>5, ResultsAppended DEF Succeeded
  <2>4. \A i \in DOMAIN results' : i \in DOMAIN results \/ i = c
    <3>1. /\ DOMAIN results' = 1..c /\ c = Len(results) + 1
          /\ DOMAIN results = 1..Len(results) /\ Len(results) \in Nat
      BY <1>2, <1>5, ResultsAppended
    <3>2. QED
      BY <3>1
  <2>5. ASSUME NEW i \in DOMAIN results
        PROVE  Skipped(i)' \/ CompilationOutput' \in OutputOf(i)'
    BY <1>5, <2>2, <2>3 DEF OutputsInPlace
  <2>6. Skipped(c)' \/ CompilationOutput' \in OutputOf(c)'
    BY <1>5, <2>2
  <2>7. QED
    BY <2>4, <2>5, <2>6
<1>6. CASE Compiled(TRUE) /\ NothingWritten(TRUE)
  <2>1. Skipped(c)
    BY <1>1, <1>2, <1>6 DEF NothingWritten, Compiles, IsAssembly, Skipped, Input
  <2>2. \A i : OutputOf(i)' = OutputOf(i)
    BY <1>6 DEF NothingWritten, Compiled, OutputOf, GetOutputFileName,
                GetCandidateOutputFileName, PreprocessingOnly
  <2>3. QED
    BY <1>5, <1>6, <2>1, <2>2 DEF OutputsInPlace
<1>7. CASE Compiled(TRUE) /\ OutputWritten(CompilationOutput)
  <2>1. CompilationOutput \in OutputOf(c)'
    BY <1>1, <1>2, <1>3, <1>7, NewInPlace
  <2>2. ASSUME NEW i \in DOMAIN results, CompilationOutput \in OutputOf(i)
        PROVE  CompilationOutput \in OutputOf(i)'
    BY <1>1, <1>3, <1>7, <2>2, OldInPlace
  <2>3. QED
    BY <1>5, <1>7, <2>1, <2>2 DEF OutputsInPlace
<1>8. QED
  BY <1>4, <1>6, <1>7, Outcomes

LEMMA InPlaceStep ==
  ASSUME TypeOK, LineInvariants, AcceptedLines, Phases, OutputsInPlace, [Next]_vars
  PROVE  OutputsInPlace'
<1>1. CASE TakeArgument
  <2>1. results' = <<>>
    BY <1>1, OthersWriteNothing DEF TakeArgument, Phases
  <2>2. QED
    BY <2>1 DEF OutputsInPlace
<1>2. CASE CompileShaderFile
  BY <1>2, InPlaceCompile
<1>3. CASE EndOfLine \/ Exit \/ UNCHANGED vars
  BY <1>3, InPlaceKept, OthersWriteNothing DEF EndOfLine, Exit, vars
<1>4. QED
  BY <1>1, <1>2, <1>3 DEF Next, Exited

\* What is in its place when main returns stays there: nothing follows.
LEMMA HonestStep ==
  ASSUME TypeOK, Phases, OutputsInPlace, ExitStatusIsHonest, [Next]_vars
  PROVE  ExitStatusIsHonest'
<1>1. CASE TakeArgument
  <2>1. phase = "args" /\ results' = <<>>
    BY <1>1, OthersWriteNothing DEF TakeArgument, Phases
  <2>2. PICK a \in Args : argv' = Append(argv, a) /\ Take(a)
    BY <1>1 DEF TakeArgument
  <2>3. exit = 2
    BY <2>1 DEF TypeOK
  <2>4. exit' = 0 => a.opt = "--help"
    BY <2>2, <2>3
    DEF Take, SetOutputFileName, SetStage, SetLanguage, SetIndividualCompilationFlag,
        SetDisassemblyFlag, SetPreprocessingOnlyFlag, SetDumpMode,
        SetDependencyNames, SetSpirvBinaryOutputFormat, Inform, SetCompileOption,
        Refuse, AddInput, Return
  <2>5. a.opt = "--help" => Given("--help")'
    BY <2>2, GivenAppended DEF TypeOK
  <2>6. QED
    BY <2>1, <2>4, <2>5 DEF ExitStatusIsHonest
<1>2. CASE EndOfLine
  <2>1. phase = "args" /\ results' = <<>>
    BY <1>2, OthersWriteNothing DEF EndOfLine, Phases
  <2>2. exit' # 0
    BY <1>2, <2>1 DEF EndOfLine, Return, TypeOK
  <2>3. QED
    BY <2>1, <2>2 DEF ExitStatusIsHonest
<1>3. CASE CompileShaderFile
  <2>1. phase = "files" /\ exit = 2
    BY <1>3, Outcomes DEF TypeOK
  <2>2. CASE UNCHANGED <<phase, exit>>
    BY <2>1, <2>2 DEF ExitStatusIsHonest
  <2>3. CASE Compiled(FALSE) /\ StoppedAtNull
    <3>1. Len(results') = Current /\ UNCHANGED input_files
      BY <2>3, ResultsAppended DEF Compiled
    <3>2. input_files'[Len(results')].stage = <<"assembly">> /\ exit' = 3
      BY <2>3, <3>1 DEF StoppedAtNull, IsAssembly, Input
    <3>3. QED
      BY <3>2 DEF ExitStatusIsHonest
  <2>4. QED
    BY <1>3, <2>2, <2>3, Outcomes DEF NothingWritten, RuleWritten, OutputWritten
<1>4. CASE Exit
  <2>1. UNCHANGED <<argv, main, input_files, fc, dep, results, disk, stdout>>
    BY <1>4 DEF Exit
  <2>2. Len(results) = Len(input_files) /\ (exit' = 0 => Succeeded)
    BY <1>4 DEF Exit, Return
  <2>3. DOMAIN results = Inputs
    BY <2>2 DEF Inputs, TypeOK
  <2>4. \A i : OutputOf(i)' = OutputOf(i) /\ Skipped(i)' = Skipped(i)
    BY <2>1 DEF OutputOf, GetOutputFileName, GetCandidateOutputFileName,
                PreprocessingOnly, Skipped
  <2>5. CompilationOutput' = CompilationOutput /\ Inputs' = Inputs
    BY <2>1 DEF CompilationOutput, Inputs
  <2>6. QED
    BY <2>1, <2>2, <2>3, <2>4, <2>5 DEF ExitStatusIsHonest, OutputsInPlace
<1>5. CASE UNCHANGED vars
  <2>1. UNCHANGED <<argv, phase, input_files, fc, dep, results, disk, stdout, exit>>
    BY <1>5 DEF vars
  <2>2. \A i : OutputOf(i)' = OutputOf(i) /\ Skipped(i)' = Skipped(i)
    BY <2>1 DEF OutputOf, GetOutputFileName, GetCandidateOutputFileName,
                PreprocessingOnly, Skipped
  <2>3. /\ CompilationOutput' = CompilationOutput /\ Inputs' = Inputs
        /\ Given("--help")' <=> Given("--help")
    BY <2>1 DEF CompilationOutput, Inputs, Given, Places
  <2>4. QED
    BY <2>1, <2>2, <2>3 DEF ExitStatusIsHonest
<1>6. QED
  BY <1>1, <1>2, <1>3, <1>4, <1>5 DEF Next, Exited

-----------------------------------------------------------------------------
(* The inductive invariant.                                                *)

LEMMA InitIInv == Init => IInv
<1> SUFFICES ASSUME Init PROVE IInv
  OBVIOUS
<1>1. TypeOK
  BY TypeInit
<1>2. \A opts : Places(opts) = {}
  BY DEF Init, Places
<1>3. \A opt, d : Latest(opt, Len(argv), d) = d
  <2>1. \A opt : Settings(opt, Len(argv)) = {}
    BY DEF Init, Settings
  <2>2. QED
    BY <2>1, LatestBySettings
<1>4. ModesIgnoreOrder /\ LatestSettingsApply
  <2>1. \A opt : ~Given(opt)
    BY <1>2 DEF Given
  <2>2. Latest("-o", Len(argv), NoValue) = NoValue
    BY <1>3
  <2>3. ~Text
    BY <2>1 DEF Text
  <2>4. Modes(fc, Text, Given("-S"), Given("-c"), NoValue)
    BY <2>1, <2>3 DEF Init, Modes
  <2>5. Latest("-o", Len(argv), IF Text THEN Dash ELSE NoValue) = NoValue
    BY <2>2, <2>3
  <2>6. ModesIgnoreOrder
    BY <2>4, <2>5, ModesIgnoreOrderIsModes
  <2>7. DOMAIN argv = {}
    BY DEF Init
  <2>8. LatestSettingsApply
    BY <2>7 DEF LatestSettingsApply
  <2>9. QED
    BY <2>6, <2>8
<1>5. SettingsSoFar
  BY <1>3 DEF Init, SettingsSoFar, File
<1>6. InputCount
  <2>1. Cardinality(Places({"input"})) = 0
    BY <1>2, FS_EmptySet
  <2>2. QED
    BY <2>1 DEF Init, InputCount
<1>7. LineSoFar
  BY <1>2, PathTypes
  DEF Init, LineSoFar, NoMistakeSoFar, MainSoFar, LanguagesGiven, DependenciesSoFar,
      DashInputs, Given, AtMostOne
<1>8. AcceptedLines /\ Phases
  BY DEF Init, AcceptedLines, Phases
<1>9. OutputsInPlace /\ ExitStatusIsHonest
  BY DEF Init, OutputsInPlace, ExitStatusIsHonest
<1>10. FailuresLeaveNoOutput /\ RulesNameTheOutput
  BY DEF Init, FailuresLeaveNoOutput, RulesNameTheOutput
<1>11. QED
  BY <1>1, <1>4, <1>5, <1>6, <1>7, <1>8, <1>9, <1>10 DEF IInv, SettingsFollowTheLine

LEMMA Inductive == IInv /\ [Next]_vars => IInv'
<1> SUFFICES ASSUME IInv, [Next]_vars PROVE IInv'
  OBVIOUS
<1>1. TypeOK /\ LineInvariants
  BY DEF IInv, LineInvariants
<1>2. TypeOK'
  BY <1>1, TypeStep
<1>3. LineInvariants'
  BY <1>1, LineStep
<1>4. AcceptedLines'
  BY <1>1, AcceptedStep DEF IInv
<1>5. Phases'
  BY PhasesStep DEF IInv
<1>6. OutputsInPlace'
  BY <1>1, InPlaceStep DEF IInv
<1>7. ExitStatusIsHonest'
  BY HonestStep DEF IInv
<1>8. FailuresLeaveNoOutput'
  BY FailuresStep DEF IInv
<1>9. RulesNameTheOutput'
  BY RulesStep DEF IInv
<1>10. QED
  BY <1>2, <1>3, <1>4, <1>5, <1>6, <1>7, <1>8, <1>9 DEF IInv, LineInvariants

\* The inductive invariant holds in every reachable state, for any set of
\* arguments and command lines of any length.
THEOREM Invariance == Spec => []IInv
<1>1. QED
  BY InitIInv, Inductive, PTL DEF Spec

\* Every argument, name and file has its type, and a file is written once at a
\* time: an output stream truncates it.
THEOREM TypeCorrect == Spec => []TypeOK
<1>1. IInv => TypeOK
  BY DEF IInv
<1>2. QED
  BY <1>1, Invariance, PTL

\* What a line asks for does not depend on the order of its mode options, and an
\* input has the settings before it, on lines of any length.
THEOREM SettingsCorrect == Spec => []SettingsFollowTheLine
<1>1. IInv => SettingsFollowTheLine
  BY DEF IInv
<1>2. QED
  BY <1>1, Invariance, PTL

\* main goes on to compile exactly the lines that are acceptable as a whole.
THEOREM AcceptedCorrect == Spec => []AcceptedLines
<1>1. IInv => AcceptedLines
  BY DEF IInv
<1>2. QED
  BY <1>1, Invariance, PTL

\* Exit status 0 means that every output is in its place, however many inputs
\* there are and whichever of them share a name.
THEOREM ExitStatusCorrect == Spec => []ExitStatusIsHonest
<1>1. IInv => ExitStatusIsHonest
  BY DEF IInv
<1>2. QED
  BY <1>1, Invariance, PTL

\* No input that failed leaves what looks like an output.
THEOREM FailuresCorrect == Spec => []FailuresLeaveNoOutput
<1>1. IInv => FailuresLeaveNoOutput
  BY DEF IInv
<1>2. QED
  BY <1>1, Invariance, PTL

\* A rule names the file that holds the output, with -c or -S and without -MT.
THEOREM RulesCorrect == Spec => []RulesNameTheOutput
<1>1. IInv => RulesNameTheOutput
  BY DEF IInv
<1>2. QED
  BY <1>1, Invariance, PTL

=============================================================================
