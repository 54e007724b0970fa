-------------------------- MODULE CppWrapper_proofs --------------------------
(***************************************************************************)
(* Proofs about CppWrapper, for any numbers of objects.                    *)
(***************************************************************************)
EXTENDS CppWrapper, TLAPS

\* Where there is no object there is no includer: a new one starts without.
NoIncluderYet == \A o \in Options : options_[o] = Absent => includer_[o] = Null

IInv == TypeOK /\ OneOwner /\ CallbacksReachOwnIncluder /\ NoIncluderYet

-----------------------------------------------------------------------------
(* What assignments to one owning pointer, or a move, make of ownership.   *)

LEMMA Replaced ==
  ASSUME NEW D, NEW V, NEW ptr \in [D -> V], NEW allocated,
         OwnedBy(ptr, allocated), NEW x \in D,
         NEW c, c \notin allocated \cup {Null, Absent}
  PROVE  OwnedBy([ptr EXCEPT ![x] = c], (allocated \ {ptr[x]}) \cup {c})
BY DEF OwnedBy

LEMMA Dropped ==
  ASSUME NEW D, NEW V, NEW ptr \in [D -> V], NEW allocated,
         OwnedBy(ptr, allocated), NEW x \in D, NEW n \in {Null, Absent}
  PROVE  OwnedBy([ptr EXCEPT ![x] = n], allocated \ {ptr[x]})
BY DEF OwnedBy

LEMMA HandedOver ==
  ASSUME NEW D, NEW V, NEW ptr \in [D -> V], NEW allocated,
         OwnedBy(ptr, allocated), NEW x \in D, NEW y \in D
  PROVE  OwnedBy([ptr EXCEPT ![x] = ptr[y], ![y] = Null],
                 allocated \ {ptr[x]})
<1>1. CASE x = y
  <2>1. [ptr EXCEPT ![x] = ptr[y], ![y] = Null] = [ptr EXCEPT ![x] = Null]
    BY <1>1
  <2>2. QED
    BY <2>1, Dropped
<1>2. CASE x # y
  BY <1>2 DEF OwnedBy
<1>3. QED
  BY <1>1, <1>2

\* The sets of C objects of OneOwner.
AllocatedOptions == {c \in COptions : settings[c] # Absent}

AllocatedResults == {c \in CResults : outputs[c] # Absent}

-----------------------------------------------------------------------------
(* Type correctness.                                                       *)

LEMMA TypeStep == TypeOK /\ [Next]_vars => TypeOK'
<1> SUFFICES ASSUME TypeOK, [Next]_vars PROVE TypeOK'
  OBVIOUS
<1> USE WrapperAssumption DEF TypeOK
<1>1. ASSUME NEW o \in Options, NEW s \in Settings, NEW u \in Includers \cup {Null},
             AllocateOptions(o, s, u)
      PROVE  /\ options_' \in [Options -> COptions \cup {Null, Absent}]
             /\ settings' \in [COptions -> Settings \cup {Absent}]
             /\ include_user_data' \in [COptions -> Includers \cup {Null}]
  BY <1>1 DEF AllocateOptions
<1>2. ASSUME NEW r \in Results, NEW s \in Settings, AllocateResult(r, s)
      PROVE  /\ compilation_result_' \in [Results -> CResults \cup {Null, Absent}]
             /\ outputs' \in [CResults -> Settings \cup {Absent}]
  BY <1>2 DEF AllocateResult
<1>3. ASSUME NEW o \in Options, NewOptions(o) PROVE TypeOK'
  BY <1>1, <1>3 DEF NewOptions, compilerVars, resultVars
<1>4. ASSUME NEW o \in Options, DestroyOptions(o) PROVE TypeOK'
  BY <1>4 DEF DestroyOptions, compilerVars, resultVars
<1>5. ASSUME NEW o \in Options, NEW from \in Options, CopyOptions(o, from)
      PROVE  TypeOK'
  <2>1. CASE options_[from] = Null
    BY <1>1, <1>5, <2>1 DEF CopyOptions, compilerVars, resultVars
  <2>2. CASE options_[from] \in COptions /\ settings[options_[from]] \in Settings
    BY <1>1, <1>5, <2>2 DEF CopyOptions, compilerVars, resultVars
  <2>3. CASE options_[from] \in COptions /\ settings[options_[from]] = Absent
    BY <1>5, <2>3 DEF CopyOptions, AllocateOptions, compilerVars, resultVars
  <2>4. QED
    BY <1>5, <2>1, <2>2, <2>3 DEF CopyOptions
<1>6. ASSUME NEW o \in Options, NEW from \in Options, MoveOptions(o, from)
      PROVE  TypeOK'
  BY <1>6 DEF MoveOptions, compilerVars, resultVars
<1>7. ASSUME NEW o \in Options, NEW s \in Settings, SetOption(o, s)
      PROVE  TypeOK'
  BY <1>7 DEF SetOption, compilerVars, resultVars
<1>8. ASSUME NEW o \in Options, NEW i \in Includers, SetIncluder(o, i)
      PROVE  TypeOK'
  BY <1>8 DEF SetIncluder, compilerVars, resultVars
<1>9. ASSUME NEW k \in Compilers, NewCompiler(k) PROVE TypeOK'
  BY <1>9 DEF NewCompiler, optionsVars, resultVars
<1>10. ASSUME NEW k \in Compilers, DestroyCompiler(k) PROVE TypeOK'
  BY <1>10 DEF DestroyCompiler, optionsVars, resultVars
<1>11. ASSUME NEW k \in Compilers, NEW from \in Compilers, MoveCompiler(k, from)
       PROVE  TypeOK'
  BY <1>11 DEF MoveCompiler, optionsVars, resultVars
<1>12. ASSUME NEW r \in Results, NewResult(r) PROVE TypeOK'
  BY <1>12 DEF NewResult, optionsVars, compilerVars
<1>13. ASSUME NEW r \in Results, DestroyResult(r) PROVE TypeOK'
  BY <1>13 DEF DestroyResult, ReleaseResult, optionsVars, compilerVars
<1>14. ASSUME NEW k \in Compilers, NEW r \in Results, CompileByDefault(k, r)
       PROVE  TypeOK'
  BY <1>2, <1>14 DEF CompileByDefault, optionsVars, compilerVars
<1>15. ASSUME NEW k \in Compilers, NEW o \in Options, NEW r \in Results,
              Compile(k, o, r)
       PROVE  TypeOK'
  <2>1. CASE options_[o] = Null
    BY <1>2, <1>15, <2>1 DEF Compile, optionsVars, compilerVars
  <2>2. CASE options_[o] \in COptions /\ settings[options_[o]] \in Settings
    BY <1>2, <1>15, <2>2 DEF Compile, optionsVars, compilerVars
  <2>3. CASE options_[o] \in COptions /\ settings[options_[o]] = Absent
    BY <1>15, <2>3 DEF Compile, AllocateResult, optionsVars, compilerVars
  <2>4. QED
    BY <1>15, <2>1, <2>2, <2>3 DEF Compile
<1>16. ASSUME NEW r \in Results, NEW from \in Results, MoveResult(r, from)
       PROVE  TypeOK'
  BY <1>16 DEF MoveResult, optionsVars, compilerVars
<1>17. ASSUME NEW r \in Results, NEW from \in Results, AssignResult(r, from)
       PROVE  TypeOK'
  BY <1>17 DEF AssignResult, ReleaseResult, optionsVars, compilerVars
<1>18. CASE UNCHANGED vars
  BY <1>18 DEF vars, optionsVars, compilerVars, resultVars
<1>19. QED
  BY <1>3, <1>4, <1>5, <1>6, <1>7, <1>8, <1>9, <1>10, <1>11, <1>12, <1>13, <1>14,
     <1>15, <1>16, <1>17, <1>18 DEF Next

-----------------------------------------------------------------------------
(* Ownership, one class of objects at a time.                              *)

LEMMA AllocateOptionsOwned ==
  ASSUME TypeOK, OwnedBy(options_, AllocatedOptions), NEW o \in Options,
         options_[o] = Absent, NEW s \in Settings, NEW u,
         AllocateOptions(o, s, u)
  PROVE  OwnedBy(options_, AllocatedOptions)'
<1> USE WrapperAssumption
<1>1. ASSUME NEW c \in COptions, settings[c] = Absent,
             settings' = [settings EXCEPT ![c] = s],
             options_' = [options_ EXCEPT ![o] = c]
      PROVE  OwnedBy(options_, AllocatedOptions)'
  <2>1. AllocatedOptions' = (AllocatedOptions \ {options_[o]}) \cup {c}
    BY <1>1 DEF AllocatedOptions, TypeOK
  <2>2. c \notin AllocatedOptions \cup {Null, Absent}
    BY <1>1 DEF AllocatedOptions
  <2>3. QED
    BY <1>1, <2>1, <2>2, Replaced DEF TypeOK
<1>2. ASSUME options_' = [options_ EXCEPT ![o] = Null], UNCHANGED settings
      PROVE  OwnedBy(options_, AllocatedOptions)'
  <2>1. AllocatedOptions' = AllocatedOptions \ {options_[o]}
    BY <1>2 DEF AllocatedOptions
  <2>2. QED
    BY <1>2, <2>1, Dropped DEF TypeOK
<1>3. QED
  BY <1>1, <1>2 DEF AllocateOptions

LEMMA OptionsOwned ==
  ASSUME TypeOK, OwnedBy(options_, AllocatedOptions), [Next]_vars
  PROVE  OwnedBy(options_, AllocatedOptions)'
<1> USE WrapperAssumption
<1>1. ASSUME NEW o \in Options, NewOptions(o)
      PROVE  OwnedBy(options_, AllocatedOptions)'
  BY <1>1, AllocateOptionsOwned DEF NewOptions
<1>2. ASSUME NEW o \in Options, NEW from \in Options, CopyOptions(o, from)
      PROVE  OwnedBy(options_, AllocatedOptions)'
  <2>1. CASE options_[from] = Null
    BY <1>2, <2>1, AllocateOptionsOwned DEF CopyOptions
  <2>2. CASE options_[from] \in COptions
    <3>1. settings[options_[from]] \in Settings
      BY <2>2 DEF OwnedBy, AllocatedOptions, TypeOK
    <3>2. QED
      BY <1>2, <2>2, <3>1, AllocateOptionsOwned DEF CopyOptions
  <2>3. QED
    BY <1>2, <2>1, <2>2 DEF CopyOptions, TypeOK
<1>3. ASSUME NEW o \in Options, NEW from \in Options, MoveOptions(o, from)
      PROVE  OwnedBy(options_, AllocatedOptions)'
  <2>1. AllocatedOptions' = AllocatedOptions \ {options_[o]}
    BY <1>3 DEF MoveOptions, AllocatedOptions
  <2>2. QED
    BY <1>3, <2>1, HandedOver DEF MoveOptions, TypeOK
<1>4. ASSUME NEW o \in Options, NEW s \in Settings, SetOption(o, s)
      PROVE  OwnedBy(options_, AllocatedOptions)'
  <2>1. AllocatedOptions' = AllocatedOptions
    BY <1>4 DEF SetOption, AllocatedOptions, OwnedBy, TypeOK
  <2>2. QED
    BY <1>4, <2>1 DEF SetOption
<1>5. ASSUME NEW o \in Options, DestroyOptions(o)
      PROVE  OwnedBy(options_, AllocatedOptions)'
  <2>1. AllocatedOptions' = AllocatedOptions \ {options_[o]}
    BY <1>5 DEF DestroyOptions, AllocatedOptions, TypeOK
  <2>2. QED
    BY <1>5, <2>1, Dropped DEF DestroyOptions, TypeOK
<1>6. CASE UNCHANGED <<options_, settings>>
  BY <1>6 DEF AllocatedOptions
<1>7. QED
  BY <1>1, <1>2, <1>3, <1>4, <1>5, <1>6
  DEF Next, vars, optionsVars, SetIncluder, NewCompiler, DestroyCompiler,
      MoveCompiler, NewResult, DestroyResult, CompileByDefault, Compile,
      MoveResult, AssignResult

LEMMA IncludersOwned ==
  ASSUME TypeOK, OwnedBy(includer_, includers), NoIncluderYet, [Next]_vars
  PROVE  OwnedBy(includer_, includers)'
<1> USE WrapperAssumption
<1>1. ASSUME NEW o \in Options, NEW i \in Includers, SetIncluder(o, i)
      PROVE  OwnedBy(includer_, includers)'
  BY <1>1, Replaced DEF SetIncluder, TypeOK
<1>2. ASSUME NEW o \in Options, DestroyOptions(o)
      PROVE  OwnedBy(includer_, includers)'
  BY <1>2, Dropped DEF DestroyOptions, TypeOK
<1>3. CASE UNCHANGED <<includer_, includers>>
  BY <1>3
<1>4. QED
  BY <1>1, <1>2, <1>3
  DEF Next, vars, optionsVars, NewOptions, CopyOptions, MoveOptions, SetOption,
      NewCompiler, DestroyCompiler, MoveCompiler, NewResult, DestroyResult,
      CompileByDefault, Compile, MoveResult, AssignResult

LEMMA CompilersOwned ==
  ASSUME TypeOK, OwnedBy(compiler_, initializers), [Next]_vars
  PROVE  OwnedBy(compiler_, initializers)'
<1> USE WrapperAssumption
<1>1. ASSUME NEW k \in Compilers, NewCompiler(k)
      PROVE  OwnedBy(compiler_, initializers)'
  <2>1. compiler_[k] \notin initializers
    BY <1>1 DEF NewCompiler, TypeOK
  <2>2. ASSUME NEW c \in CCompilers \ initializers,
               compiler_' = [compiler_ EXCEPT ![k] = c],
               initializers' = initializers \cup {c}
        PROVE  OwnedBy(compiler_, initializers)'
    <3>1. initializers' = (initializers \ {compiler_[k]}) \cup {c}
      BY <2>1, <2>2
    <3>2. OwnedBy([compiler_ EXCEPT ![k] = c],
                  (initializers \ {compiler_[k]}) \cup {c})
      BY <2>2, Replaced DEF TypeOK
    <3>3. QED
      BY <2>2, <3>1, <3>2
  <2>3. CASE compiler_' = [compiler_ EXCEPT ![k] = Null] /\ UNCHANGED initializers
    <3>1. initializers = initializers \ {compiler_[k]}
      BY <2>1
    <3>2. OwnedBy([compiler_ EXCEPT ![k] = Null], initializers \ {compiler_[k]})
      BY Dropped DEF TypeOK
    <3>3. QED
      BY <2>3, <3>1, <3>2
  <2>4. QED
    BY <1>1, <2>2, <2>3 DEF NewCompiler
<1>2. ASSUME NEW k \in Compilers, DestroyCompiler(k)
      PROVE  OwnedBy(compiler_, initializers)'
  BY <1>2, Dropped DEF DestroyCompiler, TypeOK
<1>3. ASSUME NEW k \in Compilers, NEW from \in Compilers, MoveCompiler(k, from)
      PROVE  OwnedBy(compiler_, initializers)'
  <2>1. initializers = initializers \ {compiler_[k]}
    BY <1>3 DEF MoveCompiler, TypeOK
  <2>2. OwnedBy([compiler_ EXCEPT ![k] = compiler_[from], ![from] = Null],
                initializers \ {compiler_[k]})
    BY HandedOver DEF TypeOK
  <2>3. QED
    BY <1>3, <2>1, <2>2 DEF MoveCompiler
<1>4. CASE UNCHANGED compilerVars
  BY <1>4 DEF compilerVars
<1>5. QED
  BY <1>1, <1>2, <1>3, <1>4
  DEF Next, vars, NewOptions, DestroyOptions, CopyOptions, MoveOptions, SetOption,
      SetIncluder, NewResult, DestroyResult, CompileByDefault, Compile,
      MoveResult, AssignResult

LEMMA AllocateResultOwned ==
  ASSUME TypeOK, OwnedBy(compilation_result_, AllocatedResults), NEW r \in Results,
         compilation_result_[r] = Absent, NEW s \in Settings, AllocateResult(r, s)
  PROVE  OwnedBy(compilation_result_, AllocatedResults)'
<1> USE WrapperAssumption
<1>1. ASSUME NEW c \in CResults, outputs[c] = Absent,
             outputs' = [outputs EXCEPT ![c] = s],
             compilation_result_' = [compilation_result_ EXCEPT ![r] = c]
      PROVE  OwnedBy(compilation_result_, AllocatedResults)'
  <2>1. AllocatedResults' =
          (AllocatedResults \ {compilation_result_[r]}) \cup {c}
    BY <1>1 DEF AllocatedResults, TypeOK
  <2>2. c \notin AllocatedResults \cup {Null, Absent}
    BY <1>1 DEF AllocatedResults
  <2>3. QED
    BY <1>1, <2>1, <2>2, Replaced DEF TypeOK
<1>2. ASSUME compilation_result_' = [compilation_result_ EXCEPT ![r] = Null],
             UNCHANGED outputs
      PROVE  OwnedBy(compilation_result_, AllocatedResults)'
  <2>1. AllocatedResults' = AllocatedResults \ {compilation_result_[r]}
    BY <1>2 DEF AllocatedResults
  <2>2. QED
    BY <1>2, <2>1, Dropped DEF TypeOK
<1>3. QED
  BY <1>1, <1>2 DEF AllocateResult

\* What a compilation with options o is given.
LEMMA GivenSettings ==
  ASSUME TypeOK, OwnedBy(options_, AllocatedOptions), NEW o \in Options,
         options_[o] # Absent
  PROVE  (IF options_[o] = Null THEN Default ELSE settings[options_[o]])
           \in Settings
BY WrapperAssumption DEF OwnedBy, AllocatedOptions, TypeOK

LEMMA ResultsOwned ==
  ASSUME TypeOK, OwnedBy(compilation_result_, AllocatedResults),
         OwnedBy(options_, AllocatedOptions), [Next]_vars
  PROVE  OwnedBy(compilation_result_, AllocatedResults)'
<1> USE WrapperAssumption
<1>1. ASSUME NEW k \in Compilers, NEW r \in Results, CompileByDefault(k, r)
      PROVE  OwnedBy(compilation_result_, AllocatedResults)'
  BY <1>1, AllocateResultOwned DEF CompileByDefault
<1>2. ASSUME NEW k \in Compilers, NEW o \in Options, NEW r \in Results,
             Compile(k, o, r)
      PROVE  OwnedBy(compilation_result_, AllocatedResults)'
  BY <1>2, GivenSettings, AllocateResultOwned DEF Compile
<1>3. ASSUME NEW r \in Results, NewResult(r)
      PROVE  OwnedBy(compilation_result_, AllocatedResults)'
  <2>1. AllocatedResults' = AllocatedResults \ {compilation_result_[r]}
    BY <1>3 DEF NewResult, AllocatedResults
  <2>2. QED
    BY <1>3, <2>1, Dropped DEF NewResult, TypeOK
<1>4. ASSUME NEW r \in Results, NEW from \in Results, MoveResult(r, from)
      PROVE  OwnedBy(compilation_result_, AllocatedResults)'
  <2>1. AllocatedResults' = AllocatedResults \ {compilation_result_[r]}
    BY <1>4 DEF MoveResult, AllocatedResults
  <2>2. QED
    BY <1>4, <2>1, HandedOver DEF MoveResult, TypeOK
<1>5. ASSUME NEW r \in Results, NEW from \in Results, AssignResult(r, from)
      PROVE  OwnedBy(compilation_result_, AllocatedResults)'
  <2>1. AllocatedResults' = AllocatedResults \ {compilation_result_[r]}
    BY <1>5 DEF AssignResult, ReleaseResult, AllocatedResults, TypeOK
  <2>2. QED
    BY <1>5, <2>1, HandedOver DEF AssignResult, TypeOK
<1>6. ASSUME NEW r \in Results, DestroyResult(r)
      PROVE  OwnedBy(compilation_result_, AllocatedResults)'
  <2>1. AllocatedResults' = AllocatedResults \ {compilation_result_[r]}
    BY <1>6 DEF DestroyResult, ReleaseResult, AllocatedResults, TypeOK
  <2>2. QED
    BY <1>6, <2>1, Dropped DEF DestroyResult, TypeOK
<1>7. CASE UNCHANGED resultVars
  BY <1>7 DEF resultVars, AllocatedResults
<1>8. QED
  BY <1>1, <1>2, <1>3, <1>4, <1>5, <1>6, <1>7
  DEF Next, vars, NewOptions, DestroyOptions, CopyOptions, MoveOptions, SetOption,
      SetIncluder, NewCompiler, DestroyCompiler, MoveCompiler

LEMMA OwnerParts ==
  OneOwner <=> /\ OwnedBy(options_, AllocatedOptions)
               /\ OwnedBy(compiler_, initializers)
               /\ OwnedBy(compilation_result_, AllocatedResults)
               /\ OwnedBy(includer_, includers)
BY DEF OneOwner, AllocatedOptions, AllocatedResults

-----------------------------------------------------------------------------
(* Includers.                                                              *)

LEMMA NoIncluderYetStep ==
  TypeOK /\ NoIncluderYet /\ [Next]_vars => NoIncluderYet'
<1> SUFFICES ASSUME TypeOK, NoIncluderYet, [Next]_vars PROVE NoIncluderYet'
  OBVIOUS
<1> USE WrapperAssumption DEF TypeOK, NoIncluderYet
<1>1. ASSUME NEW o \in Options, NEW s, NEW u, AllocateOptions(o, s, u),
             UNCHANGED includer_
      PROVE  NoIncluderYet'
  BY <1>1 DEF AllocateOptions
<1>2. ASSUME NEW o \in Options, NewOptions(o) PROVE NoIncluderYet'
  BY <1>1, <1>2 DEF NewOptions
<1>3. ASSUME NEW o \in Options, NEW from \in Options, CopyOptions(o, from)
      PROVE  NoIncluderYet'
  BY <1>1, <1>3 DEF CopyOptions
<1>4. ASSUME NEW o \in Options, NEW from \in Options, MoveOptions(o, from)
      PROVE  NoIncluderYet'
  BY <1>4 DEF MoveOptions
<1>5. ASSUME NEW o \in Options, NEW i \in Includers, SetIncluder(o, i)
      PROVE  NoIncluderYet'
  BY <1>5 DEF SetIncluder
<1>6. ASSUME NEW o \in Options, DestroyOptions(o) PROVE NoIncluderYet'
  BY <1>6 DEF DestroyOptions
<1>7. CASE UNCHANGED <<options_, includer_>>
  BY <1>7
<1>8. QED
  BY <1>2, <1>3, <1>4, <1>5, <1>6, <1>7
  DEF Next, vars, optionsVars, SetOption, NewCompiler, DestroyCompiler,
      MoveCompiler, NewResult, DestroyResult, CompileByDefault, Compile,
      MoveResult, AssignResult

LEMMA CallbacksStep ==
  IInv /\ [Next]_vars => CallbacksReachOwnIncluder'
<1> SUFFICES ASSUME IInv, [Next]_vars PROVE CallbacksReachOwnIncluder'
  OBVIOUS
<1> USE WrapperAssumption DEF CallbacksReachOwnIncluder
<1>1. OwnedBy(options_, AllocatedOptions)
  BY OwnerParts DEF IInv
\* A C object about to be allocated belongs to nobody yet.
<1>2. ASSUME NEW o \in Options, options_[o] = Absent,
             NEW s, NEW u, AllocateOptions(o, s, u), UNCHANGED includer_
      PROVE  CallbacksReachOwnIncluder'
  BY <1>1, <1>2 DEF AllocateOptions, OwnedBy, AllocatedOptions, IInv, TypeOK,
                    NoIncluderYet
<1>3. ASSUME NEW o \in Options, NewOptions(o) PROVE CallbacksReachOwnIncluder'
  BY <1>2, <1>3 DEF NewOptions
<1>4. ASSUME NEW o \in Options, NEW from \in Options, CopyOptions(o, from)
      PROVE  CallbacksReachOwnIncluder'
  BY <1>2, <1>4 DEF CopyOptions
<1>5. ASSUME NEW o \in Options, NEW from \in Options, MoveOptions(o, from)
      PROVE  CallbacksReachOwnIncluder'
  BY <1>5 DEF MoveOptions, IInv, TypeOK, NoIncluderYet
<1>6. ASSUME NEW o \in Options, NEW i \in Includers, SetIncluder(o, i)
      PROVE  CallbacksReachOwnIncluder'
  <2>1. \A p \in Options : options_[p] = options_[o] => p = o
    BY <1>1, <1>6 DEF SetIncluder, OwnedBy, IInv, TypeOK
  <2>2. QED
    BY <1>6, <2>1 DEF SetIncluder, IInv, TypeOK
<1>7. ASSUME NEW o \in Options, DestroyOptions(o)
      PROVE  CallbacksReachOwnIncluder'
  BY <1>7 DEF DestroyOptions, IInv, TypeOK
<1>8. CASE UNCHANGED <<options_, includer_, include_user_data>>
  BY <1>8 DEF IInv
<1>9. QED
  BY <1>3, <1>4, <1>5, <1>6, <1>7, <1>8
  DEF Next, vars, optionsVars, SetOption, NewCompiler, DestroyCompiler,
      MoveCompiler, NewResult, DestroyResult, CompileByDefault, Compile,
      MoveResult, AssignResult

-----------------------------------------------------------------------------

LEMMA InitIInv == Init => IInv
BY WrapperAssumption
DEF Init, IInv, TypeOK, OneOwner, OwnedBy, CallbacksReachOwnIncluder, NoIncluderYet

LEMMA StepIInv == IInv /\ [Next]_vars => IInv'
<1> SUFFICES ASSUME IInv, [Next]_vars PROVE IInv'
  OBVIOUS
<1>1. TypeOK'
  BY TypeStep DEF IInv
<1>2. OneOwner'
  <2>1. /\ OwnedBy(options_, AllocatedOptions)
        /\ OwnedBy(compiler_, initializers)
        /\ OwnedBy(compilation_result_, AllocatedResults)
        /\ OwnedBy(includer_, includers)
    BY OwnerParts DEF IInv
  <2>2. OwnedBy(options_, AllocatedOptions)'
    BY <2>1, OptionsOwned DEF IInv
  <2>3. OwnedBy(compiler_, initializers)'
    BY <2>1, CompilersOwned DEF IInv
  <2>4. OwnedBy(compilation_result_, AllocatedResults)'
    BY <2>1, ResultsOwned DEF IInv
  <2>5. OwnedBy(includer_, includers)'
    BY <2>1, IncludersOwned DEF IInv
  <2>6. QED
    BY <2>2, <2>3, <2>4, <2>5 DEF OneOwner, AllocatedOptions, AllocatedResults
<1>3. CallbacksReachOwnIncluder'
  BY CallbacksStep
<1>4. NoIncluderYet'
  BY NoIncluderYetStep DEF IInv
<1>5. QED
  BY <1>1, <1>2, <1>3, <1>4 DEF IInv

\* Ownership is inductive together with the types and with the fact that new
\* options have no includer.
THEOREM Invariance == Spec => []IInv
<1>1. Init => IInv
  BY InitIInv
<1>2. IInv /\ [Next]_vars => IInv'
  BY StepIInv
<1>3. QED
  BY <1>1, <1>2, PTL DEF Spec

\* Every pointer is null, dead or the address of an object of its class.
THEOREM TypeCorrect == Spec => []TypeOK
<1>1. IInv => TypeOK
  BY DEF IInv
<1>2. QED
  BY <1>1, Invariance, PTL

\* Nothing is leaked, released twice or used after its release: every C object
\* and every includer has one owner, the C++ object whose destructor or
\* assignment releases it.
THEOREM Ownership == Spec => []OneOwner
<1>1. IInv => OneOwner
  BY DEF IInv
<1>2. QED
  BY <1>1, Invariance, PTL

\* SetIncluder: the callbacks of an object that has an includer reach the one
\* that was set last.
THEOREM OwnIncluderIsCalled == Spec => []CallbacksReachOwnIncluder
<1>1. IInv => CallbacksReachOwnIncluder
  BY DEF IInv
<1>2. QED
  BY <1>1, Invariance, PTL

-----------------------------------------------------------------------------
(* Refinement.                                                             *)

ValueMap == [o \in Options |-> Value(o)]

OutcomeMap == [r \in Results |-> Outcome(r)]

LEMMA ValueFacts ==
  ASSUME IInv, NEW o \in Options
  PROVE  /\ options_[o] \in COptions => /\ Value(o) = settings[options_[o]]
                                        /\ Value(o) \in Settings
         /\ options_[o] \notin COptions => /\ Value(o) = options_[o]
                                           /\ Value(o) \in {Null, Absent}
         /\ Value(o) = Absent <=> options_[o] = Absent
         /\ Value(o) = Null <=> options_[o] = Null
<1>1. OwnedBy(options_, AllocatedOptions)
  BY OwnerParts DEF IInv
<1>2. options_[o] \in COptions => settings[options_[o]] # Absent
  BY <1>1, WrapperAssumption DEF OwnedBy, AllocatedOptions, IInv, TypeOK
<1>3. QED
  BY <1>2, WrapperAssumption DEF Value, IInv, TypeOK

LEMMA OutcomeFacts ==
  ASSUME IInv, NEW r \in Results
  PROVE  /\ compilation_result_[r] \in CResults =>
              Outcome(r) = outputs[compilation_result_[r]] /\ Outcome(r) \in Settings
         /\ compilation_result_[r] \notin CResults =>
              Outcome(r) = compilation_result_[r] /\ Outcome(r) \in {Null, Absent}
         /\ Outcome(r) = Absent <=> compilation_result_[r] = Absent
<1>1. OwnedBy(compilation_result_, AllocatedResults)
  BY OwnerParts DEF IInv
<1>2. compilation_result_[r] \in CResults =>
        outputs[compilation_result_[r]] # Absent
  BY <1>1, WrapperAssumption DEF OwnedBy, AllocatedResults, IInv, TypeOK
<1>3. QED
  BY <1>2, WrapperAssumption DEF Outcome, IInv, TypeOK

LEMMA SameValues == UNCHANGED <<options_, settings>> => UNCHANGED ValueMap
BY DEF ValueMap, Value

LEMMA SameOutcomes == UNCHANGED resultVars => UNCHANGED OutcomeMap
BY DEF OutcomeMap, Outcome, resultVars

\* A new object has the value it was allocated with, or none; no other object
\* can have the C object that is allocated.
LEMMA AllocatedValue ==
  ASSUME IInv, NEW o \in Options, options_[o] = Absent,
         NEW s \in Settings, NEW u, AllocateOptions(o, s, u)
  PROVE  \E v \in {s, Null} : ValueMap' = [ValueMap EXCEPT ![o] = v]
<1> USE WrapperAssumption
<1>0. OwnedBy(options_, AllocatedOptions)
  BY OwnerParts DEF IInv
<1>1. ASSUME NEW c \in COptions, settings[c] = Absent,
             settings' = [settings EXCEPT ![c] = s],
             options_' = [options_ EXCEPT ![o] = c]
      PROVE  ValueMap' = [ValueMap EXCEPT ![o] = s]
  <2>1. \A p \in Options : options_[p] # c
    BY <1>0, <1>1 DEF OwnedBy, AllocatedOptions, IInv, TypeOK
  <2>2. \A p \in Options : Value(p)' = IF p = o THEN s ELSE Value(p)
    BY <1>1, <2>1 DEF Value, IInv, TypeOK
  <2>3. QED
    BY <2>2 DEF ValueMap
<1>2. ASSUME options_' = [options_ EXCEPT ![o] = Null], UNCHANGED settings
      PROVE  ValueMap' = [ValueMap EXCEPT ![o] = Null]
  <2>1. \A p \in Options : Value(p)' = IF p = o THEN Null ELSE Value(p)
    BY <1>2 DEF Value, IInv, TypeOK
  <2>2. QED
    BY <2>1 DEF ValueMap
<1>3. QED
  BY <1>1, <1>2 DEF AllocateOptions

LEMMA AllocatedOutcome ==
  ASSUME IInv, NEW r \in Results, compilation_result_[r] = Absent,
         NEW s \in Settings, AllocateResult(r, s)
  PROVE  \E v \in {s, Null} : OutcomeMap' = [OutcomeMap EXCEPT ![r] = v]
<1> USE WrapperAssumption
<1>0. OwnedBy(compilation_result_, AllocatedResults)
  BY OwnerParts DEF IInv
<1>1. ASSUME NEW c \in CResults, outputs[c] = Absent,
             outputs' = [outputs EXCEPT ![c] = s],
             compilation_result_' = [compilation_result_ EXCEPT ![r] = c]
      PROVE  OutcomeMap' = [OutcomeMap EXCEPT ![r] = s]
  <2>1. \A q \in Results : compilation_result_[q] # c
    BY <1>0, <1>1 DEF OwnedBy, AllocatedResults, IInv, TypeOK
  <2>2. \A q \in Results : Outcome(q)' = IF q = r THEN s ELSE Outcome(q)
    BY <1>1, <2>1 DEF Outcome, IInv, TypeOK
  <2>3. QED
    BY <2>2 DEF OutcomeMap
<1>2. ASSUME compilation_result_' = [compilation_result_ EXCEPT ![r] = Null],
             UNCHANGED outputs
      PROVE  OutcomeMap' = [OutcomeMap EXCEPT ![r] = Null]
  <2>1. \A q \in Results : Outcome(q)' = IF q = r THEN Null ELSE Outcome(q)
    BY <1>2 DEF Outcome, IInv, TypeOK
  <2>2. QED
    BY <2>1 DEF OutcomeMap
<1>3. QED
  BY <1>1, <1>2 DEF AllocateResult

LEMMA OptionsStep ==
  ASSUME IInv, NEW o \in Options
  PROVE  /\ NewOptions(o) \/ DestroyOptions(o) => Values!Next
         /\ \A from \in Options :
              CopyOptions(o, from) \/ MoveOptions(o, from) => Values!Next
         /\ \A s \in Settings : SetOption(o, s) => Values!Next
         /\ \A i \in Includers : SetIncluder(o, i) => UNCHANGED Values!vars
<1> USE WrapperAssumption
<1>0. OwnedBy(options_, AllocatedOptions)
  BY OwnerParts DEF IInv
<1>1. ASSUME NewOptions(o) PROVE Values!Next
  <2>1. \E v \in {Default, Null} : ValueMap' = [ValueMap EXCEPT ![o] = v]
    BY <1>1, AllocatedValue DEF NewOptions
  <2>2. Values!Create(o)
    BY <1>1, <2>1, SameOutcomes
    DEF NewOptions, Values!Create, Value, ValueMap, OutcomeMap, IInv, TypeOK
  <2>3. QED
    BY <2>2 DEF Values!Next
<1>2. ASSUME DestroyOptions(o) PROVE Values!Next
  <2>1. \A p \in Options : options_[o] \in COptions /\ options_[p] = options_[o]
                             => p = o
    BY <1>0 DEF OwnedBy, IInv, TypeOK
  <2>2. \A p \in Options : Value(p)' = IF p = o THEN Absent ELSE Value(p)
    BY <1>2, <2>1 DEF DestroyOptions, Value, IInv, TypeOK
  <2>3. ValueMap' = [ValueMap EXCEPT ![o] = Absent]
    BY <2>2 DEF ValueMap
  <2>4. Value(o) # Absent
    BY <1>2, ValueFacts DEF DestroyOptions
  <2>5. Values!Destroy(o)
    BY <1>2, <2>3, <2>4, SameOutcomes
    DEF DestroyOptions, Values!Destroy, ValueMap, OutcomeMap
  <2>6. QED
    BY <2>5 DEF Values!Next
<1>3. ASSUME NEW from \in Options, CopyOptions(o, from) PROVE Values!Next
  <2>1. Value(o) = Absent /\ Value(from) # Absent
    BY <1>3, ValueFacts DEF CopyOptions
  <2>2. \E v \in {Values!Effective(Value(from)), Null} :
          ValueMap' = [ValueMap EXCEPT ![o] = v]
    <3>1. CASE options_[from] = Null
      BY <1>3, <3>1, AllocatedValue, ValueFacts DEF CopyOptions, Values!Effective
    <3>2. CASE options_[from] \in COptions
      BY <1>3, <3>2, AllocatedValue, ValueFacts DEF CopyOptions, Values!Effective
    <3>3. QED
      BY <1>3, <3>1, <3>2 DEF CopyOptions, IInv, TypeOK
  <2>3. Values!Create(o)
    BY <1>3, <2>1, <2>2, SameOutcomes
    DEF CopyOptions, Values!Create, ValueMap, OutcomeMap
  <2>4. QED
    BY <2>3 DEF Values!Next
<1>4. ASSUME NEW from \in Options, MoveOptions(o, from) PROVE Values!Next
  <2>1. Value(o) = Absent /\ Value(from) # Absent
    BY <1>4, ValueFacts DEF MoveOptions
  <2>2. \A p \in Options : Value(p)' = IF p = from THEN Null
                                       ELSE IF p = o THEN Value(from) ELSE Value(p)
    BY <1>4 DEF MoveOptions, Value, IInv, TypeOK
  <2>3. ValueMap' = [ValueMap EXCEPT ![o] = Value(from), ![from] = Null]
    BY <2>2 DEF ValueMap
  <2>4. Values!Create(o)
    BY <1>4, <2>1, <2>3, SameOutcomes
    DEF MoveOptions, Values!Create, ValueMap, OutcomeMap
  <2>5. QED
    BY <2>4 DEF Values!Next
<1>5. ASSUME NEW s \in Settings, SetOption(o, s) PROVE Values!Next
  <2>1. \A p \in Options : options_[p] = options_[o] => p = o
    BY <1>0, <1>5 DEF SetOption, OwnedBy, AllocatedOptions, IInv, TypeOK
  <2>2. \A p \in Options : Value(p)' = IF p = o THEN s ELSE Value(p)
    BY <1>5, <2>1 DEF SetOption, Value, IInv, TypeOK
  <2>3. ValueMap' = [ValueMap EXCEPT ![o] = s]
    BY <2>2 DEF ValueMap
  <2>4. Value(o) \in Settings
    BY <1>5, ValueFacts DEF SetOption
  <2>5. Values!Set(o, s)
    BY <1>5, <2>3, <2>4, SameOutcomes
    DEF SetOption, Values!Set, ValueMap, OutcomeMap
  <2>6. QED
    BY <2>5 DEF Values!Next
<1>6. ASSUME NEW i \in Includers, SetIncluder(o, i)
      PROVE  UNCHANGED Values!vars
  BY <1>6, SameValues, SameOutcomes
  DEF SetIncluder, Values!vars, ValueMap, OutcomeMap
<1>7. QED
  BY <1>1, <1>2, <1>3, <1>4, <1>5, <1>6

LEMMA ResultsStep ==
  ASSUME IInv, NEW r \in Results
  PROVE  /\ NewResult(r) \/ DestroyResult(r) => Values!Next
         /\ \A k \in Compilers : CompileByDefault(k, r) => Values!Next
         /\ \A k \in Compilers, o \in Options : Compile(k, o, r) => Values!Next
         /\ \A from \in Results :
              MoveResult(r, from) \/ AssignResult(r, from) => Values!Next
<1> USE WrapperAssumption
<1>0. OwnedBy(compilation_result_, AllocatedResults)
  BY OwnerParts DEF IInv
<1>1. ASSUME NewResult(r) PROVE Values!Next
  <2>1. \A q \in Results : Outcome(q)' = IF q = r THEN Null ELSE Outcome(q)
    BY <1>1 DEF NewResult, Outcome, IInv, TypeOK
  <2>2. OutcomeMap' = [OutcomeMap EXCEPT ![r] = Null]
    BY <2>1 DEF OutcomeMap
  <2>3. Outcome(r) = Absent
    BY <1>1, OutcomeFacts DEF NewResult
  <2>4. Values!CreateResult(r)
    BY <1>1, <2>2, <2>3, SameValues
    DEF NewResult, Values!CreateResult, optionsVars, ValueMap, OutcomeMap
  <2>5. QED
    BY <2>4 DEF Values!Next
<1>2. ASSUME DestroyResult(r) PROVE Values!Next
  <2>1. \A q \in Results : compilation_result_[r] \in CResults
                             /\ compilation_result_[q] = compilation_result_[r]
                             => q = r
    BY <1>0 DEF OwnedBy, IInv, TypeOK
  <2>2. \A q \in Results : Outcome(q)' = IF q = r THEN Absent ELSE Outcome(q)
    BY <1>2, <2>1 DEF DestroyResult, ReleaseResult, Outcome, IInv, TypeOK
  <2>3. OutcomeMap' = [OutcomeMap EXCEPT ![r] = Absent]
    BY <2>2 DEF OutcomeMap
  <2>4. Outcome(r) # Absent
    BY <1>2, OutcomeFacts DEF DestroyResult
  <2>5. Values!DestroyResult(r)
    BY <1>2, <2>3, <2>4, SameValues
    DEF DestroyResult, Values!DestroyResult, optionsVars, ValueMap, OutcomeMap
  <2>6. QED
    BY <2>5 DEF Values!Next
<1>3. ASSUME NEW k \in Compilers, CompileByDefault(k, r) PROVE Values!Next
  <2>1. Outcome(r) = Absent
    BY <1>3, OutcomeFacts DEF CompileByDefault
  <2>2. \E v \in {Default, Null} : OutcomeMap' = [OutcomeMap EXCEPT ![r] = v]
    BY <1>3, AllocatedOutcome DEF CompileByDefault
  <2>3. Values!CreateResult(r)
    BY <1>3, <2>1, <2>2, SameValues
    DEF CompileByDefault, Values!CreateResult, optionsVars, ValueMap, OutcomeMap
  <2>4. QED
    BY <2>3 DEF Values!Next
<1>4. ASSUME NEW k \in Compilers, NEW o \in Options, Compile(k, o, r)
      PROVE  Values!Next
  <2>1. Outcome(r) = Absent /\ Value(o) # Absent
    BY <1>4, OutcomeFacts, ValueFacts DEF Compile
  <2>2. \E v \in {Values!Effective(Value(o)), Null} :
          OutcomeMap' = [OutcomeMap EXCEPT ![r] = v]
    <3>1. CASE options_[o] = Null
      BY <1>4, <3>1, AllocatedOutcome, ValueFacts DEF Compile, Values!Effective
    <3>2. CASE options_[o] \in COptions
      BY <1>4, <3>2, AllocatedOutcome, ValueFacts DEF Compile, Values!Effective
    <3>3. QED
      BY <1>4, <3>1, <3>2 DEF Compile, IInv, TypeOK
  <2>3. Values!CreateResult(r)
    BY <1>4, <2>1, <2>2, SameValues
    DEF Compile, Values!CreateResult, optionsVars, ValueMap, OutcomeMap
  <2>4. QED
    BY <2>3 DEF Values!Next
<1>5. ASSUME NEW from \in Results, MoveResult(r, from) \/ AssignResult(r, from)
      PROVE  Values!Next
  <2>1. Outcome(from) # Absent
    BY <1>5, OutcomeFacts DEF MoveResult, AssignResult
  \* What r had is released, and nobody else had it.
  <2>2. \A q \in Results : compilation_result_[r] \in CResults
                             /\ compilation_result_[q] = compilation_result_[r]
                             => q = r
    BY <1>0 DEF OwnedBy, IInv, TypeOK
  <2>3. \A q \in Results : Outcome(q)' = IF q = from THEN Null
                                         ELSE IF q = r THEN Outcome(from)
                                         ELSE Outcome(q)
    <3>1. CASE MoveResult(r, from)
      BY <3>1 DEF MoveResult, Outcome, IInv, TypeOK
    <3>2. CASE AssignResult(r, from)
      BY <2>2, <3>2 DEF AssignResult, ReleaseResult, Outcome, IInv, TypeOK
    <3>3. QED
      BY <1>5, <3>1, <3>2
  <2>4. OutcomeMap' = [OutcomeMap EXCEPT ![r] = Outcome(from), ![from] = Null]
    BY <2>3 DEF OutcomeMap
  <2>5. Values!MoveResult(from, r)
    BY <1>5, <2>1, <2>4, SameValues
    DEF MoveResult, AssignResult, Values!MoveResult, optionsVars, ValueMap, OutcomeMap
  <2>6. QED
    BY <2>5 DEF Values!Next
<1>6. QED
  BY <1>1, <1>2, <1>3, <1>4, <1>5

LEMMA CompilersStep ==
  ASSUME NEW k \in Compilers,
         \/ NewCompiler(k) \/ DestroyCompiler(k)
         \/ \E from \in Compilers : MoveCompiler(k, from)
  PROVE  UNCHANGED Values!vars
BY SameValues, SameOutcomes
DEF NewCompiler, DestroyCompiler, MoveCompiler, optionsVars, Values!vars, ValueMap,
    OutcomeMap

\* The wrapper's objects are values: what its constructors, assignments and
\* destructors do to pointers is, seen by the client, what WrapperValues says.
THEOREM Refinement == Spec => ImplementsValues
<1>1. Init => Values!Init
  BY DEF Init, Values!Init, Value, Outcome
<1>2. ASSUME IInv, [Next]_vars PROVE [Values!Next]_(Values!vars)
  <2>1. ASSUME NEW o \in Options,
               \/ NewOptions(o) \/ DestroyOptions(o)
               \/ \E from \in Options : CopyOptions(o, from) \/ MoveOptions(o, from)
               \/ \E s \in Settings : SetOption(o, s)
               \/ \E i \in Includers : SetIncluder(o, i)
        PROVE  [Values!Next]_(Values!vars)
    BY <1>2, <2>1, OptionsStep
  <2>2. ASSUME NEW r \in Results,
               \/ NewResult(r) \/ DestroyResult(r)
               \/ \E k \in Compilers :
                    CompileByDefault(k, r) \/ \E o \in Options : Compile(k, o, r)
               \/ \E from \in Results : MoveResult(r, from) \/ AssignResult(r, from)
        PROVE  [Values!Next]_(Values!vars)
    BY <1>2, <2>2, ResultsStep
  <2>3. CASE UNCHANGED vars
    BY <2>3, SameValues, SameOutcomes
    DEF vars, optionsVars, Values!vars, ValueMap, OutcomeMap
  <2>4. QED
    BY <1>2, <2>1, <2>2, <2>3, CompilersStep DEF Next
<1>3. QED
  BY <1>1, <1>2, Invariance, PTL DEF Spec, ImplementsValues, Values!Spec

-----------------------------------------------------------------------------
(* Where callbacks lose their includer.                                    *)

\* Only options that have no includer are copied or moved.
IncludersStay ==
  \A o, from \in Options :
    CopyOptions(o, from) \/ MoveOptions(o, from) => includer_[from] = Null

\* The C object knows no other includer than that of its owner.
KnowsOwnIncluder ==
  \A o \in Options : options_[o] \in COptions =>
    include_user_data[options_[o]] \in {Null, includer_[o]}

LEMMA KnowsOwnIncluderStep ==
  IInv /\ KnowsOwnIncluder /\ [Next]_vars /\ [IncludersStay]_vars => KnowsOwnIncluder'
<1> SUFFICES ASSUME IInv, KnowsOwnIncluder, [Next]_vars, [IncludersStay]_vars
             PROVE  KnowsOwnIncluder'
  OBVIOUS
<1> USE WrapperAssumption DEF KnowsOwnIncluder
<1>1. OwnedBy(options_, AllocatedOptions)
  BY OwnerParts DEF IInv
<1>2. ASSUME NEW o \in Options, options_[o] = Absent,
             NEW s, AllocateOptions(o, s, Null), UNCHANGED includer_
      PROVE  KnowsOwnIncluder'
  BY <1>1, <1>2 DEF AllocateOptions, OwnedBy, AllocatedOptions, IInv, TypeOK
<1>3. ASSUME NEW o \in Options, NewOptions(o) PROVE KnowsOwnIncluder'
  BY <1>2, <1>3 DEF NewOptions
<1>4. ASSUME NEW o \in Options, NEW from \in Options,
             CopyOptions(o, from) \/ MoveOptions(o, from)
      PROVE  includer_[from] = Null
  <2>1. CASE UNCHANGED vars
    <3>1. options_' = options_
      BY <2>1 DEF vars, optionsVars
    <3>2. options_'[o] # Absent
      BY <1>4 DEF CopyOptions, MoveOptions, AllocateOptions, IInv, TypeOK
    <3>3. QED
      BY <1>4, <3>1, <3>2 DEF CopyOptions, MoveOptions
  <2>2. CASE IncludersStay
    BY <1>4, <2>2 DEF IncludersStay
  <2>3. QED
    BY <2>1, <2>2
<1>5. ASSUME NEW o \in Options, NEW from \in Options, CopyOptions(o, from)
      PROVE  KnowsOwnIncluder'
  <2>1. options_[from] = Null \/ include_user_data[options_[from]] = Null
    BY <1>4, <1>5 DEF CopyOptions, IInv, TypeOK
  <2>2. options_[o] = Absent /\ UNCHANGED includer_ /\ \E s : AllocateOptions(o, s, Null)
    BY <1>5, <2>1 DEF CopyOptions
  <2>3. QED
    BY <1>2, <2>2
<1>6. ASSUME NEW o \in Options, NEW from \in Options, MoveOptions(o, from)
      PROVE  KnowsOwnIncluder'
  <2>1. includer_[from] = Null
    BY <1>4, <1>6
  <2>2. QED
    BY <1>6, <2>1 DEF MoveOptions, IInv, TypeOK
<1>7. ASSUME NEW o \in Options, NEW i \in Includers, SetIncluder(o, i)
      PROVE  KnowsOwnIncluder'
  <2>1. \A p \in Options : options_[p] = options_[o] => p = o
    BY <1>1, <1>7 DEF SetIncluder, OwnedBy, IInv, TypeOK
  <2>2. QED
    BY <1>7, <2>1 DEF SetIncluder, IInv, TypeOK
<1>8. ASSUME NEW o \in Options, DestroyOptions(o) PROVE KnowsOwnIncluder'
  BY <1>8 DEF DestroyOptions, IInv, TypeOK
<1>9. CASE UNCHANGED <<options_, includer_, include_user_data>>
  BY <1>9
<1>10. QED
  BY <1>3, <1>5, <1>6, <1>7, <1>8, <1>9
  DEF Next, vars, optionsVars, SetOption, NewCompiler, DestroyCompiler,
      MoveCompiler, NewResult, DestroyResult, CompileByDefault, Compile,
      MoveResult, AssignResult

\* A client that copies and moves options only before it gives them an includer
\* never has callbacks without one, however it destroys and replaces includers:
\* those two operations alone leave an includer's address behind.
THEOREM OnlyCopiesLoseIncluders ==
  Spec /\ [][IncludersStay]_vars => []CallbacksHaveAnIncluder
<1>1. Init => KnowsOwnIncluder
  BY WrapperAssumption DEF Init, KnowsOwnIncluder
<1>2. ASSUME IInv, KnowsOwnIncluder PROVE CallbacksHaveAnIncluder
  <2>1. OwnedBy(includer_, includers) /\ includer_ \in [Options -> Includers \cup {Null}]
    BY <1>2, OwnerParts DEF IInv, TypeOK
  <2>2. \A o \in Options : includer_[o] # Null => includer_[o] \in includers
    BY <2>1, WrapperAssumption DEF OwnedBy
  <2>3. QED
    BY <1>2, <2>2 DEF KnowsOwnIncluder, CallbacksHaveAnIncluder
<1>3. IInv /\ KnowsOwnIncluder => CallbacksHaveAnIncluder
  BY <1>2
<1>4. QED
  BY <1>1, <1>3, KnowsOwnIncluderStep, Invariance, PTL DEF Spec

=============================================================================
