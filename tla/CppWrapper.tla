----------------------------- MODULE CppWrapper -----------------------------
(***************************************************************************)
(* The C++ wrapper: CompileOptions, Compiler and CompilationResult objects *)
(* each own one object of the C interface by a raw pointer, which their    *)
(* constructors allocate, copies duplicate, moves hand over and            *)
(* destructors release.  A CompileOptions also owns the client's includer, *)
(* of which the C object knows only the address.                           *)
(*                                                                         *)
(* The client is any that keeps to C++: it names an object only between    *)
(* its construction and its destruction, sets options and compiles only    *)
(* where there is a C object to do it with, and hands over includers that  *)
(* it has just made.                                                       *)
(***************************************************************************)
CONSTANTS Options, Compilers, Results,     \* C++ objects
          COptions, CCompilers, CResults,  \* the C objects that they own
          Includers,                       \* includer objects
          Settings, Default,               \* the values of all other options
          Null,                            \* the null pointer
          Absent                           \* no object (yet, or any more)

ASSUME WrapperAssumption ==
  /\ Default \in Settings
  /\ Null # Absent
  /\ {Null, Absent} \cap (COptions \cup CCompilers \cup CResults \cup Includers
                          \cup Settings) = {}

VARIABLES
  options_,             \* members of the C++ objects; Absent without object
  includer_,
  compiler_,
  compilation_result_,
  settings,             \* the C objects; Absent where nothing is allocated
  include_user_data,
  initializers,         \* the C compilers allocated
  outputs,              \* what each C result was compiled with
  includers             \* the includers that exist

optionsVars == <<options_, includer_, settings, include_user_data, includers>>
compilerVars == <<compiler_, initializers>>
resultVars == <<compilation_result_, outputs>>
vars == <<optionsVars, compilerVars, resultVars>>

TypeOK ==
  /\ options_ \in [Options -> COptions \cup {Null, Absent}]
  /\ includer_ \in [Options -> Includers \cup {Null}]
  /\ compiler_ \in [Compilers -> CCompilers \cup {Null, Absent}]
  /\ compilation_result_ \in [Results -> CResults \cup {Null, Absent}]
  /\ settings \in [COptions -> Settings \cup {Absent}]
  /\ include_user_data \in [COptions -> Includers \cup {Null}]
  /\ initializers \subseteq CCompilers
  /\ outputs \in [CResults -> Settings \cup {Absent}]
  /\ includers \subseteq Includers

Init ==
  /\ options_ = [o \in Options |-> Absent]
  /\ includer_ = [o \in Options |-> Null]
  /\ compiler_ = [k \in Compilers |-> Absent]
  /\ compilation_result_ = [r \in Results |-> Absent]
  /\ settings = [c \in COptions |-> Absent]
  /\ include_user_data = [c \in COptions |-> Null]
  /\ initializers = {}
  /\ outputs = [c \in CResults |-> Absent]
  /\ includers = {}

-----------------------------------------------------------------------------
(* CompileOptions.                                                         *)

\* new (std::nothrow) of an options object gives null when out of memory.
AllocateOptions(o, s, user_data) ==
  \/ \E c \in COptions :
       /\ settings[c] = Absent
       /\ settings' = [settings EXCEPT ![c] = s]
       /\ include_user_data' = [include_user_data EXCEPT ![c] = user_data]
       /\ options_' = [options_ EXCEPT ![o] = c]
  \/ /\ options_' = [options_ EXCEPT ![o] = Null]
     /\ UNCHANGED <<settings, include_user_data>>

NewOptions(o) ==
  /\ options_[o] = Absent
  /\ AllocateOptions(o, Default, Null)
  /\ UNCHANGED <<includer_, includers, compilerVars, resultVars>>

\* Mutated: the copy shares the C object.
CopyOptionsShallow(o, from) ==
  /\ options_[o] = Absent /\ options_[from] # Absent
  /\ options_' = [options_ EXCEPT ![o] = options_[from]]
  /\ UNCHANGED <<settings, include_user_data, includer_, includers, compilerVars,
                 resultVars>>

\* A clone of null is a fresh object.  The copy gets the address of the
\* includer, not the includer.
CopyOptions(o, from) ==
  /\ options_[o] = Absent /\ options_[from] # Absent
  /\ IF options_[from] = Null THEN AllocateOptions(o, Default, Null)
     ELSE AllocateOptions(o, settings[options_[from]],
                          include_user_data[options_[from]])
  /\ UNCHANGED <<includer_, includers, compilerVars, resultVars>>

\* The includer stays behind.
MoveOptions(o, from) ==
  /\ options_[o] = Absent /\ options_[from] # Absent
  /\ options_' = [options_ EXCEPT ![o] = options_[from], ![from] = Null]
  /\ UNCHANGED <<settings, include_user_data, includer_, includers, compilerVars,
                 resultVars>>

SetOption(o, s) ==
  /\ options_[o] \in COptions
  /\ settings' = [settings EXCEPT ![options_[o]] = s]
  /\ UNCHANGED <<options_, include_user_data, includer_, includers, compilerVars,
                 resultVars>>

\* Mutated: takes the address before it takes the includer.
SetIncluderEarly(o, i) ==
  /\ options_[o] \in COptions /\ i \notin includers
  /\ includer_' = [includer_ EXCEPT ![o] = i]
  /\ includers' = (includers \ {includer_[o]}) \cup {i}
  /\ include_user_data' = [include_user_data EXCEPT ![options_[o]] = includer_[o]]
  /\ UNCHANGED <<options_, settings, compilerVars, resultVars>>

\* The includer that was there is destroyed, whoever has its address.
SetIncluder(o, i) ==
  /\ options_[o] \in COptions /\ i \notin includers
  /\ includer_' = [includer_ EXCEPT ![o] = i]
  /\ includers' = (includers \ {includer_[o]}) \cup {i}
  /\ include_user_data' = [include_user_data EXCEPT ![options_[o]] = i]
  /\ UNCHANGED <<options_, settings, compilerVars, resultVars>>

DestroyOptions(o) ==
  /\ options_[o] # Absent
  /\ settings' = [c \in COptions |-> IF c = options_[o] THEN Absent
                                     ELSE settings[c]]
  /\ includers' = includers \ {includer_[o]}
  /\ includer_' = [includer_ EXCEPT ![o] = Null]
  /\ options_' = [options_ EXCEPT ![o] = Absent]
  /\ UNCHANGED <<include_user_data, compilerVars, resultVars>>

-----------------------------------------------------------------------------
(* Compiler.                                                               *)

\* The initializer is only made for a compiler that was allocated.
NewCompiler(k) ==
  /\ compiler_[k] = Absent
  /\ \/ \E c \in CCompilers \ initializers :
          /\ compiler_' = [compiler_ EXCEPT ![k] = c]
          /\ initializers' = initializers \cup {c}
     \/ compiler_' = [compiler_ EXCEPT ![k] = Null] /\ UNCHANGED initializers
  /\ UNCHANGED <<optionsVars, resultVars>>

MoveCompiler(k, from) ==
  /\ compiler_[k] = Absent /\ compiler_[from] # Absent
  /\ compiler_' = [compiler_ EXCEPT ![k] = compiler_[from], ![from] = Null]
  /\ UNCHANGED <<initializers, optionsVars, resultVars>>

DestroyCompiler(k) ==
  /\ compiler_[k] # Absent
  /\ initializers' = initializers \ {compiler_[k]}
  /\ compiler_' = [compiler_ EXCEPT ![k] = Absent]
  /\ UNCHANGED <<optionsVars, resultVars>>

-----------------------------------------------------------------------------
(* CompilationResult.                                                      *)

\* A C result whose allocation may fail too.
AllocateResult(r, s) ==
  \/ \E c \in CResults :
       /\ outputs[c] = Absent
       /\ outputs' = [outputs EXCEPT ![c] = s]
       /\ compilation_result_' = [compilation_result_ EXCEPT ![r] = c]
  \/ /\ compilation_result_' = [compilation_result_ EXCEPT ![r] = Null]
     /\ UNCHANGED outputs

\* CompileGlslToSpv, CompileGlslToSpvAssembly and PreprocessGlsl, with an
\* options object; a null in it means default options.
Compile(k, o, r) ==
  /\ compiler_[k] \in CCompilers
  /\ options_[o] # Absent
  /\ compilation_result_[r] = Absent
  /\ AllocateResult(r, IF options_[o] = Null THEN Default
                       ELSE settings[options_[o]])
  /\ UNCHANGED <<optionsVars, compilerVars>>

\* The overloads without options.
CompileByDefault(k, r) ==
  /\ compiler_[k] \in CCompilers
  /\ compilation_result_[r] = Absent
  /\ AllocateResult(r, Default)
  /\ UNCHANGED <<optionsVars, compilerVars>>

NewResult(r) ==
  /\ compilation_result_[r] = Absent
  /\ compilation_result_' = [compilation_result_ EXCEPT ![r] = Null]
  /\ UNCHANGED <<outputs, optionsVars, compilerVars>>

\* Release frees nothing if the pointer is null.
ReleaseResult(c) ==
  outputs' = [d \in CResults |-> IF d = c THEN Absent ELSE outputs[d]]

\* Mutated: forgets what it had.
AssignResultLeaks(r, from) ==
  /\ compilation_result_[r] # Absent /\ compilation_result_[from] # Absent
  /\ compilation_result_' =
       [compilation_result_ EXCEPT ![r] = compilation_result_[from],
                                   ![from] = Null]
  /\ UNCHANGED <<outputs, optionsVars, compilerVars>>

\* Assignment releases its own result, then takes the other's; of an
\* assignment to itself nothing is left.
AssignResult(r, from) ==
  /\ compilation_result_[r] # Absent /\ compilation_result_[from] # Absent
  /\ ReleaseResult(compilation_result_[r])
  /\ compilation_result_' =
       [compilation_result_ EXCEPT ![r] = compilation_result_[from],
                                   ![from] = Null]
  /\ UNCHANGED <<optionsVars, compilerVars>>

\* The move constructor is that assignment to an object with null.
MoveResult(r, from) ==
  /\ compilation_result_[r] = Absent /\ compilation_result_[from] # Absent
  /\ compilation_result_' =
       [compilation_result_ EXCEPT ![r] = compilation_result_[from],
                                   ![from] = Null]
  /\ UNCHANGED <<outputs, optionsVars, compilerVars>>

DestroyResult(r) ==
  /\ compilation_result_[r] # Absent
  /\ ReleaseResult(compilation_result_[r])
  /\ compilation_result_' = [compilation_result_ EXCEPT ![r] = Absent]
  /\ UNCHANGED <<optionsVars, compilerVars>>

Next ==
  \/ \E o \in Options :
       \/ NewOptions(o) \/ DestroyOptions(o)
       \/ \E from \in Options : CopyOptions(o, from) \/ MoveOptions(o, from)
       \/ \E s \in Settings : SetOption(o, s)
       \/ \E i \in Includers : SetIncluder(o, i)
  \/ \E k \in Compilers :
       \/ NewCompiler(k) \/ DestroyCompiler(k)
       \/ \E from \in Compilers : MoveCompiler(k, from)
  \/ \E r \in Results :
       \/ NewResult(r) \/ DestroyResult(r)
       \/ \E k \in Compilers :
            CompileByDefault(k, r) \/ \E o \in Options : Compile(k, o, r)
       \/ \E from \in Results : MoveResult(r, from) \/ AssignResult(r, from)

Spec == Init /\ [][Next]_vars

-----------------------------------------------------------------------------
(* Properties.                                                             *)

\* The pointers in ptr own the allocated objects: each object has one owner,
\* so that nothing is released twice, and none has no owner, so that nothing
\* leaks.
OwnedBy(ptr, allocated) ==
  /\ allocated = {ptr[x] : x \in DOMAIN ptr} \ {Null, Absent}
  /\ \A x, y \in DOMAIN ptr : ptr[x] = ptr[y] /\ ptr[x] \in allocated => x = y

\* Through every sequence of constructions, copies, moves, assignments and
\* destructions each C object, and each includer, has exactly one owner.
OneOwner ==
  /\ OwnedBy(options_, {c \in COptions : settings[c] # Absent})
  /\ OwnedBy(compiler_, initializers)
  /\ OwnedBy(compilation_result_, {c \in CResults : outputs[c] # Absent})
  /\ OwnedBy(includer_, includers)

\* Callbacks of options that have an includer of their own reach that one:
\* an includer that is replaced is never called again through its owner
\* (SetIncluder, which moves the includer before it takes its address).
CallbacksReachOwnIncluder ==
  \A o \in Options : options_[o] \in COptions /\ includer_[o] # Null =>
    include_user_data[options_[o]] = includer_[o]

\* The client's view of the objects, through the pointers.
Value(o) == IF options_[o] \in COptions THEN settings[options_[o]] ELSE options_[o]

Outcome(r) == IF compilation_result_[r] \in CResults
              THEN outputs[compilation_result_[r]] ELSE compilation_result_[r]

Values == INSTANCE WrapperValues WITH
            value <- [o \in Options |-> Value(o)],
            outcome <- [r \in Results |-> Outcome(r)]

\* The wrapper implements values: whatever is done to one object, options and
\* results change only when they themselves are set, moved or assigned, and a
\* result outlives the options and the compiler that made it.
ImplementsValues == Values!Spec

-----------------------------------------------------------------------------

\* shaderc.hpp: "Sets the includer instance for libshaderc to call during
\* compilation ... Callbacks are routed to this includer's methods", and of a
\* copy shaderc_cpp_test.cc says that it "should have all the settings".
CallbacksHaveAnIncluder ==
  \A o \in Options :
    options_[o] \in COptions /\ include_user_data[options_[o]] # Null =>
      include_user_data[options_[o]] \in includers

=============================================================================
