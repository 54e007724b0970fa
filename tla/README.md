# A TLA+ verification project for shaderc

shaderc turns GLSL and HLSL into SPIR-V. It wraps two other libraries, glslang
(the front end) and SPIRV-Tools (optimiser, assembler, disassembler, validator),
in a C interface, a C++ wrapper and a command-line compiler, `glslc`. What
shaderc adds to them is control: who starts and stops glslang's process-wide
state, in which order the passes of a compilation run and what a failure of each
leaves behind, how options that are set one at a time combine, how inclusions
get to the client, what a `glslc` command line means and what it leaves on disk.
These modules model that control. Glslang, SPIRV-Tools, the file system and the
client are *external*: what they may answer is a choice of the model.

Paths below are relative to the repository (`src/` in `PROJECT.json`).

## 1. Inventory

| Component | Code | State | Operations | What is hard | Modelled by |
|---|---|---|---|---|---|
| GlslangInitializer | `libshaderc_util/src/compiler.cc:114-154`, `shaderc.cc:591-599` | process-wide mutex pointer, instance count | constructor, destructor, compile in between | threads; lazy creation; stop against restart | `GlslangInitializer`, `GlslangProcess` |
| Code generation options | `shaderc.cc:277-324, 414-493`, `compiler.cc:434-486, 760-844`, `spirv_tools_wrapper.cc:28-58` | target, version (each stored twice), SPIR-V version, language, debug flag, pass list | five setters; read by compile and assemble | order of setters; two translations of one target | `CodegenOptions`, `OptimizationRequest`, `CompileOptions` |
| Per-stage binding tables | `shaderc.cc:362-381, 525-564`, `compiler.h:299-342`, `compiler.cc:297-310` | `auto_binding_base_`, `hlsl_explicit_bindings_` | setters for one stage and for all | written by one enumeration, read by another | `StageBindings`, `CompileOptions` |
| Compilation pipeline | `compiler.cc:178-425`, `shaderc.cc:602-711`, `message.cc:129-271` | locals of one call, the result object | every check, pass, early return, exception | partial failure; double preprocessing | `Compile`, `Diagnostics` |
| Stage pragmas and preamble | `compiler.cc:510-745` | current line, pragmas found | clean the preamble, walk the lines, conclude | `#line` numbering across versions; text moved about | `StagePragma` |
| Inclusion | `counting_includer.h`, `shaderc.cc:199-275` | mutex, count, result objects | include, release, the client's two callbacks | threads; ownership across three parties | `Inclusion` |
| glslc driver and file compiler | `glslc/src/main.cc`, `file_compiler.cc`, `file.cc`, `shader_stage.cc`, `io_shaderc.cc` | current stage/language, input list, output kind and name | one per option; compile, name, write | order of options; partial failure | `Glslc` |
| glslc dependency info | `dependency_info.cc` | mode, file, target | set, validate, dump | agreement with the output name | `Glslc`; the files it lists: `IncludeFiles` |
| SPIR-V assembly call | `shaderc.cc:713-751`, `spirv_tools_wrapper.cc:62-109` | the result object | every early return and outcome of assemble | a result without data | `Compile`; its target in `CodegenOptions` |
| Message parsing | `message.cc:29-127` | position in a log and in a line, two totals | one per kind of line, and the steps of the search for a location | odd log lines; positions at the end of a text | `Messages`, `Diagnostics` |
| File includer and finder | `file_includer.cc`, `file_finder.cc` | search path, files used | find, read, remember, write the rule | search order; files that come and go | `IncludeFiles` |
| C++ wrapper | `shaderc.hpp` | owned C objects, an owned includer, a raw pointer to it | construct, copy, move, assign, destroy, set, compile | ownership; the includer's address outlives it | `CppWrapper`, `WrapperValues` |
| Version and profile parsing | `version_profile.cc` | none | parse | which version and profile give `#line` its meaning | `StagePragma` has what a `#version` line comes to; its characters are not modelled: unit tests exhaust them |
| Resource limits | `resource_parse.cc`, `resources.cc/.inc` | none | tokenise, print | - | not modelled: tables and a tokenizer |
| String and format helpers, stage declarations | `string_piece.h`, `format.h`, ... | values | - | - | not modelled: no control |
| Tests, build, examples, `third_party` | | | | | not modelled: not part of the program |

How they interact. A `shaderc_compiler` owns one GlslangInitializer, so every
compilation of every thread rests on the process-wide count. A compilation reads
a `shaderc_compile_options` object (never writes it), hands its own
InternalFileIncluder to glslang, which calls back into the client's resolver and
releaser, and returns a result object. `glslc` is a client of the C++ wrapper: it
fills one options object while it reads its arguments and calls the compiler once
per input, from one thread.

The hazards, each at its line with the property that would catch it, are in
`PROJECT.json`. The hard behaviours are: the interleavings of constructors,
destructors and compilations; the ownership of include results between glslang,
shaderc and the client; settings made in an order nobody tested; a pass that
fails after an earlier pass has already filled a part of the result; and the
location of a pragma in text that was rewritten in between.

## 2. Modules

**GlslangInitializer** models the initializer statement by statement: a thread's
`pc` says which statement of the constructor or destructor is next, because two
mutexes guard different parts. `glslang_mutex_` is a pointer: 0 is null, `n` the
n-th mutex ever allocated, so that a second allocation would be seen.
`Initialize`, `Compile` and `Release` are the client's calls (never one on a
compiler that another call is using in a way the interface forbids: a release
waits for the compilations); `Step` is what a thread does inside a call.
`glslang`'s own start and stop take a step each, so that another thread can be
observed in the middle of them. **GlslangProcess** is what this promises to the
client, in a dozen lines: glslang is up or down, compilers exist only while it is
up, and it goes down only when there are none. `ImplementsProcess` is the
refinement (`up <- glslang = "up"`, `live <- compilers`).

**CodegenOptions** has one action per setter of `shaderc.cc` that decides what
code is generated, and operators for what a compilation reads:
`GetGlslangClientInfo`, `GetSpirvToolsTargetEnv`, `OptPasses`.
**OptimizationRequest** is the abstract meaning of `-O` and `-g` (the last level
asked for; debug information once asked for), which `ImplementsRequest` says the
edited pass list implements. **StageBindings** has the two tables, *written* at
the index of `Compiler::Stage` and *read* at the index of glslang's `EShLanguage`.
**CompileOptions** composes both into one object whose setters interleave.

**Compile** is one call of `shaderc_compile_into_*`. The variable `call` holds
the arguments, the options and all that glslang will answer for the source;
`local` the locals of the two C++ functions; `result` the result object. One
action per stretch of code between two possible exits, in the code's order; each
early return goes to `"return"`, and `Finish` computes the status the way the
caller does. `Throw` is an exception out of any pass. Messages are counted, not
worded; what the lines of a log count for are the two operators of
**Diagnostics**. `shaderc_assemble_into_spv` is a second entry to the same result
object: `Assemble` has its early returns and its two outcomes, `ThrowAssembling`
its exception, and the result then is of the class whose data is a pointer.

**Messages** is one call of `PrintFilteredErrors` over the lines of a log: one
action per kind of line, and for a line that may name a location the loop of
`DeduceLocationSpec` with its two positions, one action per test. A text is a
sequence over colon, digit, white space, another character, and the words of a
summary. What a whole log adds to the totals is `Diagnostics`, which `Compile`
takes for granted.

**StagePragma** models what happens between glslang's preprocessor and the
decision on the stage: `CleanupPreamble`, the walk over the lines with `#line`,
and the errors. A line is its kind with what the walk reads of it (a number, a
name). A `#version` has a version and a profile, which decide together whether `#line` numbers
the next line; one that shaderc cannot read has the number 0 and counts as none.
`Compile`'s input `pragma` is this module's verdict: a stage, none, or an error. Operators that both modules have are named after the pragmas here (`PragmaInit`,
`PragmaTypeOK`), since `Compile_proofs` extends both to relate them.

**Inclusion** models CountingIncluder and InternalFileIncluder on any number of
threads. glslang's `IncludeResult` and the client's result in its `userData` are
different objects with different owners. The client's resolver and releaser take
steps of their own and may take for ever.

**IncludeFiles** is glslc's includer at work: for each input, the directives in the
order in which glslang meets them, in the first pass and, for an input whose stage
must be deduced, in the second, unless no stage is found, which ends it without a rule; for each the search (`Find`), then the reading
(`Read`), which remembers the file, then what that file includes. `Change` is
another program that creates or removes a file at any moment. A path is the
sequence of what is between its slashes, members of `Parts` of which `Empty` is the
empty string, so that `MaybeSlash` and the directory of a file are sequence operations.

**CppWrapper** has the pointers of the three wrapper classes and the C objects
that they point to, with one action per constructor, copy, move, assignment and
destructor, and allocations that may fail. A C options object holds the
address of an includer; the includer itself belongs to a C++ object. All other settings
are one value. **WrapperValues** is what a client may believe of it: options and
results are values, of which a copy has its own. `ImplementsValues` is the
refinement, through the pointers.

**Glslc** models the argument loop (one action per kind of argument), the
validation at its end, and for each input every outcome of reading, compiling,
naming and writing; a write that fails leaves nothing or a part, of an output and of a rule.
`StopsAtNull` is the end of glslc that a failed assembly may
bring (section 6). The many options that only set a compile option are one
argument. A path is a directory and a name split at their dots, over the strings in
`Parts`, so that the name computations are sequence operations; the assumption names the
arguments that the program itself can tell apart. The disk holds what was last stored under a
name.

The `MC*` modules only give constants their values. The `*_proofs` modules hold
the theorems. Definitions called "Mutated" in a comment are deliberately wrong
variants of the definition after them, used to see that each property notices a
plausible bug; nothing else refers to them.

## 3. Runs

All bounds are constants of the `.cfg` or definitions of the `MC` module.

| Run | Instance | What it shows |
|---|---|---|
| `initializer` | 3 threads, 3 compiler handles | glslang is up for every owner and every running compilation (`ProcessUpWhileOwned`), starting and stopping exclude each other (`GlslangCallsExclusive`), all of which implements `GlslangProcess`; every call returns (`CallsReturn`), and glslang is stopped when the last compiler is gone (`LastReleaseFinalizes`) |
| `compile_options` | all target versions with 0 and an unknown one, SPIR-V 1.6 and an unknown one, the geometry and compute stages | debug information once asked for is never stripped (`DebugInfoSurvives`), front end and tools agree on the target (`ToolsTargetIsClient`), per-stage settings reach their stages (`SettingsReachTheirStages`), and the pass list implements the request (`ImplementsRequest`) |
| `compile` | 2 stages, logs of at most one error and one warning each, exceptions on | what may be said of a result: success only if all passes succeeded (`SuccessIsEarned`); the length describes the data (`LengthDescribesOutput`); `-w`, `-Werror`, and no warning twice (`WarningPolicy`); which stage is compiled, and that `invalid_stage` means that none was named (`StageIsDecided`); a failure has a message and, but for the passes listed in `Uncounted`, an error count (`FailureIsExplained`) |
| `messages` | every text of up to 7 characters as an error line, and every log of up to two lines of 9 typical texts under all prefixes, with and without `-Werror` and `-w` | the positions stay inside the text (`TypeOK`); the location found is the leftmost there is, none only if there is none, and text to print is left (`LocationIsFirst`); the totals are those of `Diagnostics` (`CountsFollowPolicy`) |
| `stage_pragma` | all sources of at most 4 lines out of 12 kinds, with and without inclusions, a macro, and a forced version 150 or 300 es | pragmas are reported at the author's line and `#version` stays where it is accepted (`PragmasKeepTheirPlace`), a stage results exactly if all pragmas agree and the first precedes code (`StageIsUnanimous`) |
| `inclusion` | 3 threads, 3 results of each kind, 3 directives; a client with both callbacks, none, or the resolver alone | one thread in the resolver at a time (`InclusionsSerialized`); every client result is in one IncludeResult and released once (`ResultsAccounted`, `ReleaserGetsResult`); releases go on beside a resolver that never returns (`ReleaseNeedsNoMutex`); if it returns, directives are answered and results come back (`InclusionsComplete`) |
| `includes` | 2 command lines of two inputs, 2 search paths, any subset of 7 candidate files, one of which is created or removed at any moment | while nothing changes, a rule lists exactly what the documented search reaches (the least set that holds what the input includes and what its members include) and an input fails exactly if that search misses something (`RuleIsComplete`); whatever changes, a rule lists what was compiled (`RuleCoversTexts`) |
| `wrapper` | 3 options objects over 2 C objects, 2 includers, 2 compilers, 2 results, 2 settings, with symmetry | each C object and each includer has one owner (`OneOwner`); an owner's callbacks reach the includer it has now (`CallbacksReachOwnIncluder`); the wrapper behaves as values do (`ImplementsValues`) |
| `glslc` | all lines of at most 4 arguments out of 25, all outcomes for each input | modes combine in any order and settings apply to the inputs after them (`SettingsFollowTheLine`), exactly the acceptable lines are compiled (`AcceptedLines`), the exit status is honest (`ExitStatusIsHonest`), failures leave no output that looks whole (`FailuresLeaveNoOutput`), make rules name the output (`RulesNameTheOutput`) |
| `options_tess`, `wrapper_includer`, `assembly_bytes` | instances of the same modules, large enough for one case | each finds a disagreement of code and documentation, section 6 |

Why the bounds are enough. *initializer*: the hardest schedule has one thread in
the destructor of the last instance, one waiting in a constructor for the mutex,
and one that compiles or starts a constructor; three threads and three handles
have it, and the theorems cover every number. *compile_options*: the version
tables are complete; a pass list is never longer than two, and a register list of
one entry is enough to see which index is written. *compile*: counts matter as
zero and more, and each pass adds to them separately. *stage_pragma*: two pragmas, a
`#line` and a `#version` or code fit in four lines, so that each kind is seen
before and after each other; versions 150 and 450 are on either side of the 330 at
which `#line` changes its meaning, 300 es is below it and has the later meaning
because of its profile, and one `#version` cannot be read. A forced version wins over
each of these, in both meanings.
*inclusion*: two threads contend while a third is in the resolver, and
a third directive can reuse the results that the first two have given back.
*messages*: a location takes five characters and text after it; seven leave room for a
colon or a digit before it, and for a second candidate that overlaps the first; two
lines are enough to see a position or a total carried over.
*includes*: each file may be next to the including one, in a `-I` directory or in neither, and
is included by an input and by a file; one change falls between any two steps, in
particular between a search and the reading it led to, and between two passes.
*wrapper*: three objects are a copy, its original and a third to move either to, and two C
objects make the allocation for the third fail or reuse a released one; the objects of a
class are interchangeable, and no liveness property is checked, so that symmetry is sound.
*glslc*: every pair of options is seen in both orders with two inputs after
them, and the input names cover stage extensions, a language, assembly,
ray-tracing, none, a dotted directory and standard input.

Deadlock is checked in every run but `inclusion`, whose directives are bounded
(`MaxDirectives`): when all are used and released the system has ended.

## 4. Fairness

*initializer*: weak fairness of `Step(t)` for each thread, that is, a thread
whose call can go on goes on. A `std::mutex` promises no order among its waiters,
so nothing stronger is assumed, and the client need never call. A waiter can
then be overtaken as long as others keep calling, and `CallsReturn` therefore
speaks of a client that makes no new calls at some point. `LastReleaseFinalizes` needs
no such premise: its own says that no constructor is running any more.

*inclusion*: glslang releases what it was given and the releaser returns
(`FairSpec`). That the resolver returns is up to the client: `ResolverReturns` is
an explicit antecedent of the property that needs it (`InclusionsComplete`), and
`ReleaseNeedsNoMutex` is stated without it. The directives of a source are finite, so weak
fairness of each thread's step is enough for the mutex.

The other modules are sequential and have no liveness properties. In
`IncludeFiles` other programs interfere, but what they may prevent is not promised.

## 5. Proofs

Checked by TLAPS for all values of the constants that satisfy the modules'
`ASSUME`s.

**GlslangInitializer_proofs** (assumes only that `NoThread` and `NoCompiler` are
not members and that `Compilers` is finite). The invariants the run checks are
not inductive by themselves; `IInv` adds: *MutexInv*, who holds which mutex at
which statement (in particular a thread past the wait holds the one mutex that was ever
allocated, and whoever checks or allocates it holds `first_call_mutex`);
*SelfInv*, that a handle under construction or destruction belongs to one thread and is
not among the client's; *GlslangInv*, which state of
glslang goes with which statement and count. The step lemmas take one conjunct
each, with one step per action; the count is followed through the set `Counted`
with the library's facts on the cardinality of a set with one element more or
less. From `IInv` follow `TypeCorrect`, `MutualExclusion`, `CountCorrect`,
`OwnersHaveGlslang`, and step-wise `MutexStability`, `LifecycleCorrect` and
`Refinement` (each step is a step of `GlslangProcess` or leaves `up` and `live`
as they are).

**CodegenOptions_proofs** (assumes the version sets are what the type says).
`PassesInv` says which pass lists exist: empty, or one level's passes with or
without a strip pass in front, and none with a strip pass once debug information was asked for. From it,
`DebugInfoIsKept` and `Refinement`; `TargetsAgree` needs only the types.
`AssemblerTarget` says that the version the assembler is given is the default one, whatever was set.
For the whole object (CompileOptions), `PartsOfOptions` shows that its steps are steps of
one part that leave the other alone, so that all these theorems hold of it too.
`BindingsTypeCorrect` gives the shape of the tables, from which `SettingsReachStages` follows for the
kinds that both enumerations number alike (vertex, geometry, fragment, compute): no setter for
another kind writes at the index that a compilation of this kind reads. The premise on the kinds
is needed: `TessellationSwap` proves that for the two tessellation stages the opposite is true
in every state (section 6).

**Inclusion_proofs** (finite or infinite sets alike). `IInv` has *ArgMatchesPc*
(which statements have a result at hand), *OnePlace* (an IncludeResult is held by
glslang or by one thread, never both), *CallbacksSet* (a thread is in a callback only if there is
one) and *Accounted* (`ResultsAccounted`, element by element). From it
`TypeCorrect`, `Serialization`, `NothingLeaks`, and `ReleaserIsSafe`, which assumes that no
client sets a releaser without a resolver, since such a client's releaser is
called with null.

**Compile_proofs** (assumes that `NoStage` and `"error"` are not stages, and the
types of the other two constants). The properties speak of a call that has returned, so
the invariant must say what holds on the way. `IInv` has *CallTyped* (the call and its
logs are of the type), *Entered* (which entry leads to which statement), *PassesDone* (the statement
reached tells which passes have succeeded), *LocalsSoFar* (what they have left in the locals:
the counts are the sums of the logs printed, the stage is decided) and
*Returned* (how status, counts, length and data fit together when the call is
over), with the five properties themselves. One lemma per action; `RunningStep`
is the argument that is common to all steps within a call. From `IInv` follow
`TypeCorrect`, `SuccessCorrect`, `LengthCorrect`, `WarningsCorrect`,
`StageCorrect` and `FailuresExplained`, for any number of stages and messages.
`SuccessHasBytes` delimits finding 3 of section 6: only a failed assembly leaves no bytes to read.

The module goes on with StagePragma (assumes that lines have one of the six kinds and a
number), for sources of any length behind any number of macros. The properties compare the
pragmas with the source, which the walk never sees, so `PragmaIInv` relates the three texts. Before
the clean-up it has *Untouched* (the text is the preamble and then the source). After it, *Rewritten* says
that the text is the source behind no, two or three lines in which there is no pragma and no
code, where line `Offset + k` is the source's line `k` but for a blank in the place of a
`#version` that was moved; that if there are such lines the last is a `#line` that gives the source's first
line number 1; and that both texts have the same version and profile, which decide what `#line`
means. Of the walk, *LocationKept* (behind the offset the location is that of the
source's line), *PragmasFound* (each pragma seen so far is in its rank among the stages
found, and nothing else is) and *IsFirst* (the two places are the first of their kind so far).
`LocationInSource` looks back for the last `#line`, the walk counts forward: that they
agree is the lemma `LocationAfter`, by cases on whether the line just passed is the last `#line`.
`CleanupKeeps` is about the sequences, without inclusions, with inclusions but without a
`#version`, and with one; `ScanKeeps` is one more element or none in each set of places; `ConcludeKeeps` turns
the count of errors into the agreement of the pragmas. Results:
`PragmaTypeCorrect`, `PragmasCorrect`, `VerdictCorrect`.

Last, the two together. `VerdictIsAnInput`: what the walk returns is among the inputs that `Compile`
considers, so that its runs and theorems leave no verdict out. `AuthorDecidesTheStage`: when `Compile` was given what the
walk found and made SPIR-V of it, then the stage compiled is that of the author's pragmas,
which agree and precede the code, or the client's default if there are none. Both assume that the
stages that pragmas can name are stages (`KnownToCompile`), as they are in the code,
where `MapStageNameToLanguage` returns an `EShLanguage`.

**CppWrapper_proofs** (assumes that null and "no object" are no objects). `OneOwner`
and `CallbacksReachOwnIncluder` are inductive with the types and *NoIncluderYet* (a name
without an object has no includer). Ownership of each of the four kinds of
objects is an instance of `OwnedBy`, of which the lemmas `Replaced`, `Dropped` and
`HandedOver` say what an assignment, a release and a move do to it; so each
class has a short lemma with one step per action. Results: `TypeCorrect`,
`Ownership`, `OwnIncluderIsCalled`, and `Refinement`, that every step is a step of
`WrapperValues` or leaves all values alone. `OnlyCopiesLoseIncluders` delimits finding 2
of section 6: as long as only options without an includer are copied or moved, the
C object knows no includer but its owner's (*KnowsOwnIncluder*), and callbacks always have one.

**Messages_proofs** (assumes that the logs are made of the characters and prefixes).
`IInv` adds *Typed* and *ColonsPassed*: the loop's positions are colons, none lies between
them, and no location begins before the first. The step that moves on from a pair of colons
needs it: what begins at the first colon must end at the next. Results:
`TypeCorrect` (every position read is inside the text, for texts of any length)
and `LeftmostLocation`. For the totals, `CountsSoFar` says that what is left of the log
is the end of it and that the totals are those of the lines before; a line counts when it
has been dealt with, which may take many steps. The counts are cardinalities of sets of
places, so that one more line is one more element or none, and `TotalsCorrect` follows for logs
of any number of lines.

**IncludeFiles_proofs** (assumes that the inputs and the files have contents, that directives and
prefixes are nonempty paths, and that a failed search yields no file). `RuleCoversTexts` needs only that
`included_files_` and `texts` grow together. `RuleIsComplete` needs *ProgressSoFar*, which is about the stack:
the directives that a file on it has passed are *settled*, that is, what each resolves to is
remembered, or `failed` is set if it resolves to nothing; those of the other files remembered are
settled to the end; and all that is remembered is reached from the input. At the end of the
input the files remembered are therefore closed under inclusion, and the
least such set. One lemma per action; the argument that `Find` finds what the
documentation promises is one lemma for each of the two searches. The invariant
is about inputs that nothing has changed for and that reach no file in the root directory. Results: `TypeCorrect`,
`CompleteRules`, `CoveringRules`.

**Glslc_proofs** (assumes that the parts of names that the program itself uses are among
`Parts`, and that arguments have the values that main can be given). The properties read the
line back from `argv`, and so does the invariant while the line grows. `SettingsSoFar`
and `InputCount` relate main's variables to the latest options and the number of inputs;
`NoMistakeSoFar`, `MainSoFar` and `DependenciesSoFar` say what a line that was not refused so
far has and what the state remembers of it, without which the checks at the end could not be shown
to be complete. While files are compiled, `Phases` and `OutputsInPlace` say that nothing was written before
and that, while no input has failed, every output is in its place or replaced by that of a later input. Each part of the
invariant has its lemma, with a case per option or per outcome of an input; `Outcomes` says once what
`CompileShaderFile` comes to. Results, for any arguments and lines of any
length: `TypeCorrect`, `SettingsCorrect`, `AcceptedCorrect`, `ExitStatusCorrect`,
`FailuresCorrect`, `RulesCorrect`.

Only model-checked:

- All liveness properties, and with them everything under fairness.
- `SettingsReachTheirStages` for other kinds than the four above, for which it does not hold.

## 6. Findings

1. Settings for a tessellation stage act on the other tessellation stage: the
   tables are written in the order of `Compiler::Stage` and read in that of
   `EShLanguage` (`options_tess`).
2. A `CompileOptions` that was copied or moved from one with an includer keeps that
   includer's address but does not own it. When the original dies, or is given another
   includer, the next compilation calls a destroyed object (`wrapper_includer`).
3. The result of a failed assembly has no data, and asking for its bytes
   dereferences null; `glslc` asks before it looks at the status
   (`assembly_bytes`). In Glslc this is `StopsAtNull`, and `ExitStatusIsHonest` leaves room for it.

Seen while modelling, and claimed by no run:

- `shaderc_compile_options_set_target_env` never stores the version for the
  assembler (theorem `AssemblerTarget`), and glslc assembles without its options at all.
- Stage pragma errors and failures of optimiser and disassembler are printed but not
  counted (`Uncounted`): `num_errors` may be 0 for a `compilation_error`.
- A failed optimisation leaves the unoptimised binary as the data of the failed result, of length 0.
- `glslc -c a.vert sub/a.vert` writes one file twice and exits with 0; `glslc -c
  v1.2/a` writes `v1.spv`; `glslc -M a.vert -MF dep` does not write `dep`.
- A bare `-D` prints an error and glslc goes on; `-M` twice is refused with a text
  about `-M and -MD`.
- Next to an input in the root directory nothing is looked for: its directory is
  the empty string, which stands for the current one (`DirName`).
- A file that is found but cannot be read leaves its `FileInfo` allocated
  (`file_includer.cc`).
- An input with an empty name would trip the assertion at `message.cc:240`;
  `LocationIsFirst` holds of the text, not of the name in it.
- A resolver that throws leaves the includer's mutex locked.

## 7. What is left out

- What glslang and SPIRV-Tools do, except for the outcomes that shaderc tells
  apart. A binary is correct or not outside of these modules.
- The text of messages, limits, numbers and versions, and how they are parsed.
- In `StagePragma`, the profiles core and compatibility, which act as no profile does;
  only es changes the meaning of `#line`.
- In `Glslc`, directories within directories: a directory is one name.
- In `Messages`, what is printed, and all white space but one kind; in `IncludeFiles`,
  names with a backslash, and errors of an input other than an inclusion that fails or a stage
  that is not found (after a syntax error glslang may stop early, and the files it
  did not reach are not in the rule).
- `-fentry-point=`, which works like
  `-fshader-stage=`; WGSL output, which needs a build with Tint; the formats of
  `-mfmt=` beyond their being set.
- Builds with assertions where a bad enumerator stops the program:
  `GetCompilerTargetEnv` and `GetStage` model the build without them.
- Setters of a single flag or number that no other state depends on: they are one
  value of `CppWrapper` and one argument of `Glslc`.
- Allocation failure in `shaderc_compiler_initialize`, which changes nothing.

## 8. Plan

Done, in this order: GlslangInitializer with its proofs; CodegenOptions,
StageBindings and their composition; Compile; Inclusion with its proofs; Glslc;
StagePragma; CppWrapper and Messages with their proofs; IncludeFiles; the assembly
call; the proofs of Compile, of Glslc, of IncludeFiles, of the binding tables, of
the totals of Messages and of StagePragma, and the theorems that relate the latter to Compile. Every
safety and action property that a passing run checks is stated by a theorem, two of
them under the premises of section 5 (`SettingsReachStages`, `ReleaserIsSafe`).

Next, extending the model: compose Compile with StagePragma in a run, so that
the messages of a bad pragma meet the counts; compose
Compile with Inclusion (an exception out of a resolver, and
`num_include_directives_` read by the preamble's removal) on shared options; and
Compile with Messages, so that `Diagnostics` is computed rather than shared.
