------------------------- MODULE GlslangInitializer -------------------------
(***************************************************************************)
(* The reference-counted ownership of glslang's process-wide state.        *)
(*                                                                         *)
(* Every shaderc_compiler owns a GlslangInitializer.  Its constructor      *)
(* creates the process-wide mutex on the first call and starts glslang     *)
(* when it is the first of the live instances; its destructor stops        *)
(* glslang when it was the last one.  Compilers are created, used and      *)
(* released by any thread; using a compiler takes no lock.                 *)
(*                                                                         *)
(* A compiler is a handle out of the finite pool Compilers, which bounds   *)
(* how many exist at once; a released handle may be allocated again.       *)
(***************************************************************************)
EXTENDS Naturals, FiniteSets

CONSTANTS Threads,     \* the client's threads
          Compilers,   \* the compiler handles that may exist at once
          NoThread,    \* the owner of a free first_call_mutex
          NoCompiler   \* the compiler of a thread that is in no call

ASSUME ThreadsAssumption == NoThread \notin Threads

ASSUME CompilersAssumption ==
  /\ IsFiniteSet(Compilers)
  /\ NoCompiler \notin Compilers

VARIABLES
  glslang_mutex_,     \* the pointer: 0 is nullptr, n the n-th mutex allocated
  initialize_count_,  \* live and fully counted GlslangInitializer objects
  firstCallOwner,     \* the thread that holds first_call_mutex
  holds,              \* holds[t]: the allocated mutex that t holds, or 0
  glslang,            \* what glslang's own process-wide state is
  pc,                 \* pc[t]: where t is in the call it makes
  self,               \* self[t]: the compiler that call is about
  compilers           \* the handles the client owns

vars == <<glslang_mutex_, initialize_count_, firstCallOwner, holds, glslang,
          pc, self, compilers>>

-----------------------------------------------------------------------------
(* Where a thread can be.                                                  *)

Constructing == {"ctor_first", "ctor_create", "ctor_new", "ctor_unlock_first",
                 "ctor_wait", "ctor_check", "ctor_init", "ctor_count"}
Destroying == {"dtor_wait", "dtor_count", "dtor_finalize", "dtor_unlock"}

\* The part of the constructor that holds first_call_mutex.
LockedFirst == {"ctor_create", "ctor_new", "ctor_unlock_first"}

\* The part of the two functions between locking *glslang_mutex_ and
\* unlocking it.
Locked == {"ctor_check", "ctor_init", "ctor_count",
           "dtor_count", "dtor_finalize", "dtor_unlock"}

TypeOK ==
  /\ glslang_mutex_ \in Nat
  /\ initialize_count_ \in Nat
  /\ firstCallOwner \in Threads \cup {NoThread}
  /\ holds \in [Threads -> Nat]
  /\ glslang \in {"down", "initializing", "up", "finalizing"}
  /\ pc \in [Threads ->
             {"idle", "compiling"} \cup Constructing \cup Destroying]
  /\ self \in [Threads -> Compilers \cup {NoCompiler}]
  /\ compilers \in SUBSET Compilers

-----------------------------------------------------------------------------

Init ==
  /\ glslang_mutex_ = 0
  /\ initialize_count_ = 0
  /\ firstCallOwner = NoThread
  /\ holds = [t \in Threads |-> 0]
  /\ glslang = "down"
  /\ pc = [t \in Threads |-> "idle"]
  /\ self = [t \in Threads |-> NoCompiler]
  /\ compilers = {}

Goto(t, label) == pc' = [pc EXCEPT ![t] = label]

\* The mutex that glslang_mutex_ points to is held by nobody.
MutexIsFree == \A u \in Threads : holds[u] # glslang_mutex_

Lock(t) ==
  /\ glslang_mutex_ # 0
  /\ MutexIsFree
  /\ holds' = [holds EXCEPT ![t] = glslang_mutex_]

Unlock(t) == holds' = [holds EXCEPT ![t] = 0]

-----------------------------------------------------------------------------
(* GlslangInitializer::GlslangInitializer                                  *)

\* shaderc_compiler_initialize allocates a compiler and enters the
\* constructor of its initializer.  (When the allocation fails it returns
\* nullptr and nothing changes.)
Initialize(t, c) ==
  /\ pc[t] = "idle"
  /\ c \notin compilers
  /\ \A u \in Threads : self[u] # c
  /\ self' = [self EXCEPT ![t] = c]
  /\ Goto(t, "ctor_first")
  /\ UNCHANGED <<glslang_mutex_, initialize_count_, firstCallOwner, holds,
                 glslang, compilers>>

CtorLockFirst(t) ==
  /\ pc[t] = "ctor_first"
  /\ firstCallOwner = NoThread
  /\ firstCallOwner' = t
  /\ Goto(t, "ctor_create")
  /\ UNCHANGED <<glslang_mutex_, initialize_count_, holds, glslang, self,
                 compilers>>

\* Mutated: allocates a mutex whether or not there is one.
CtorCheckMutexAlways(t) ==
  /\ pc[t] = "ctor_create"
  /\ Goto(t, "ctor_new")
  /\ UNCHANGED <<glslang_mutex_, initialize_count_, firstCallOwner, holds,
                 glslang, self, compilers>>

CtorCheckMutex(t) ==
  /\ pc[t] = "ctor_create"
  /\ Goto(t, IF glslang_mutex_ = 0 THEN "ctor_new" ELSE "ctor_unlock_first")
  /\ UNCHANGED <<glslang_mutex_, initialize_count_, firstCallOwner, holds,
                 glslang, self, compilers>>

CtorNewMutex(t) ==
  /\ pc[t] = "ctor_new"
  /\ glslang_mutex_' = glslang_mutex_ + 1
  /\ Goto(t, "ctor_unlock_first")
  /\ UNCHANGED <<initialize_count_, firstCallOwner, holds, glslang, self,
                 compilers>>

CtorUnlockFirst(t) ==
  /\ pc[t] = "ctor_unlock_first"
  /\ firstCallOwner' = NoThread
  /\ Goto(t, "ctor_wait")
  /\ UNCHANGED <<glslang_mutex_, initialize_count_, holds, glslang, self,
                 compilers>>

CtorLock(t) ==
  /\ pc[t] = "ctor_wait"
  /\ Lock(t)
  /\ Goto(t, "ctor_check")
  /\ UNCHANGED <<glslang_mutex_, initialize_count_, firstCallOwner, glslang,
                 self, compilers>>

\* The first of the live instances calls InitializeProcess.
CtorCheck(t) ==
  /\ pc[t] = "ctor_check"
  /\ IF initialize_count_ = 0
     THEN /\ glslang' = "initializing"
          /\ Goto(t, "ctor_init")
     ELSE /\ Goto(t, "ctor_count")
          /\ UNCHANGED glslang
  /\ UNCHANGED <<glslang_mutex_, initialize_count_, firstCallOwner, holds,
                 self, compilers>>

CtorInitialized(t) ==
  /\ pc[t] = "ctor_init"
  /\ glslang' = "up"
  /\ Goto(t, "ctor_count")
  /\ UNCHANGED <<glslang_mutex_, initialize_count_, firstCallOwner, holds,
                 self, compilers>>

\* Mutated: forgets to count the instance.
CtorCountMissing(t) ==
  /\ pc[t] = "ctor_count"
  /\ Unlock(t)
  /\ compilers' = compilers \cup {self[t]}
  /\ self' = [self EXCEPT ![t] = NoCompiler]
  /\ Goto(t, "idle")
  /\ UNCHANGED <<glslang_mutex_, initialize_count_, firstCallOwner, glslang>>

\* Count this instance, unlock and hand the compiler to the client.
CtorCount(t) ==
  /\ pc[t] = "ctor_count"
  /\ initialize_count_' = initialize_count_ + 1
  /\ Unlock(t)
  /\ compilers' = compilers \cup {self[t]}
  /\ self' = [self EXCEPT ![t] = NoCompiler]
  /\ Goto(t, "idle")
  /\ UNCHANGED <<glslang_mutex_, firstCallOwner, glslang>>

-----------------------------------------------------------------------------
(* A compilation: it only looks at whether the compiler has an initializer *)
(* and then uses glslang, with no lock.                                    *)

Compile(t, c) ==
  /\ pc[t] = "idle"
  /\ c \in compilers
  /\ self' = [self EXCEPT ![t] = c]
  /\ Goto(t, "compiling")
  /\ UNCHANGED <<glslang_mutex_, initialize_count_, firstCallOwner, holds,
                 glslang, compilers>>

CompileReturns(t) ==
  /\ pc[t] = "compiling"
  /\ self' = [self EXCEPT ![t] = NoCompiler]
  /\ Goto(t, "idle")
  /\ UNCHANGED <<glslang_mutex_, initialize_count_, firstCallOwner, holds,
                 glslang, compilers>>

-----------------------------------------------------------------------------
(* GlslangInitializer::~GlslangInitializer                                 *)

\* shaderc_compiler_release: the client gives up a compiler that nobody is
\* using, from any thread.
Release(t, c) ==
  /\ pc[t] = "idle"
  /\ c \in compilers
  /\ \A u \in Threads : self[u] # c
  /\ compilers' = compilers \ {c}
  /\ self' = [self EXCEPT ![t] = c]
  /\ Goto(t, "dtor_wait")
  /\ UNCHANGED <<glslang_mutex_, initialize_count_, firstCallOwner, holds,
                 glslang>>

DtorLock(t) ==
  /\ pc[t] = "dtor_wait"
  /\ Lock(t)
  /\ Goto(t, "dtor_count")
  /\ UNCHANGED <<glslang_mutex_, initialize_count_, firstCallOwner, glslang,
                 self, compilers>>

\* Mutated: tests the count as it was after the last release but one.
DtorCountOffByOne(t) ==
  /\ pc[t] = "dtor_count"
  /\ initialize_count_' = initialize_count_ - 1
  /\ IF initialize_count_' <= 1
     THEN /\ glslang' = "finalizing"
          /\ Goto(t, "dtor_finalize")
     ELSE /\ Goto(t, "dtor_unlock")
          /\ UNCHANGED glslang
  /\ UNCHANGED <<glslang_mutex_, firstCallOwner, holds, self, compilers>>

\* Mutated: tests the count before it decrements it.
DtorCountStale(t) ==
  /\ pc[t] = "dtor_count"
  /\ initialize_count_' = initialize_count_ - 1
  /\ IF initialize_count_ = 0
     THEN /\ glslang' = "finalizing"
          /\ Goto(t, "dtor_finalize")
     ELSE /\ Goto(t, "dtor_unlock")
          /\ UNCHANGED glslang
  /\ UNCHANGED <<glslang_mutex_, firstCallOwner, holds, self, compilers>>

\* Uncount this instance; the last of the live ones calls FinalizeProcess.
DtorCount(t) ==
  /\ pc[t] = "dtor_count"
  /\ initialize_count_' = initialize_count_ - 1
  /\ IF initialize_count_' = 0
     THEN /\ glslang' = "finalizing"
          /\ Goto(t, "dtor_finalize")
     ELSE /\ Goto(t, "dtor_unlock")
          /\ UNCHANGED glslang
  /\ UNCHANGED <<glslang_mutex_, firstCallOwner, holds, self, compilers>>

\* FinalizeProcess returns.  The mutex is not deleted: a constructor may be
\* waiting for it.
DtorFinalized(t) ==
  /\ pc[t] = "dtor_finalize"
  /\ glslang' = "down"
  /\ Goto(t, "dtor_unlock")
  /\ UNCHANGED <<glslang_mutex_, initialize_count_, firstCallOwner, holds,
                 self, compilers>>

\* Mutated: returns with the mutex locked.
DtorUnlockMissing(t) ==
  /\ pc[t] = "dtor_unlock"
  /\ self' = [self EXCEPT ![t] = NoCompiler]
  /\ Goto(t, "idle")
  /\ UNCHANGED <<glslang_mutex_, initialize_count_, firstCallOwner, holds,
                 glslang, compilers>>

DtorUnlock(t) ==
  /\ pc[t] = "dtor_unlock"
  /\ Unlock(t)
  /\ self' = [self EXCEPT ![t] = NoCompiler]
  /\ Goto(t, "idle")
  /\ UNCHANGED <<glslang_mutex_, initialize_count_, firstCallOwner, glslang,
                 compilers>>

-----------------------------------------------------------------------------

\* The client decides to make a call.
Call(t) ==
  \E c \in Compilers : Initialize(t, c) \/ Compile(t, c) \/ Release(t, c)

\* The next step of the call that t is in.
Step(t) ==
  \/ CtorLockFirst(t)
  \/ CtorCheckMutex(t)
  \/ CtorNewMutex(t)
  \/ CtorUnlockFirst(t)
  \/ CtorLock(t)
  \/ CtorCheck(t)
  \/ CtorInitialized(t)
  \/ CtorCount(t)
  \/ CompileReturns(t)
  \/ DtorLock(t)
  \/ DtorCount(t)
  \/ DtorFinalized(t)
  \/ DtorUnlock(t)

Next == \E t \in Threads : Call(t) \/ Step(t)

Spec == Init /\ [][Next]_vars

\* A thread that can take the next step of its call does so.  Nothing is
\* assumed about the order in which a std::mutex admits its waiters, and a
\* client need never call.
Fairness == \A t \in Threads : WF_vars(Step(t))

FairSpec == Spec /\ Fairness

-----------------------------------------------------------------------------
(* Properties.                                                             *)

\* The compilers whose instance the count stands for: those the client owns,
\* and those whose destructor has not decremented the count yet.
Counted ==
  compilers \cup
    {c \in Compilers :
       \E t \in Threads : self[t] = c /\ pc[t] \in {"dtor_wait", "dtor_count"}}

\* "Used to tie glslang process operations to object lifetimes": whoever owns
\* a compiler, or is in the middle of a compilation, has a running glslang,
\* whatever the other threads are creating and releasing.
ProcessUpWhileOwned ==
  /\ compilers # {} => glslang = "up"
  /\ \A t \in Threads : pc[t] = "compiling" => glslang = "up"

\* "Initialization/finalization of glslang is not thread safe, so
\* synchronizes these operations": no two threads are between locking and
\* unlocking, so no two are in InitializeProcess or FinalizeProcess.
GlslangCallsExclusive ==
  \A t, u \in Threads : pc[t] \in Locked /\ pc[u] \in Locked => t = u

\* The count is the number of instances that have passed the increment and
\* not the decrement; in particular it never drops below zero.
CountIsExact == initialize_count_ = Cardinality(Counted)

\* "There is no delete for glslang_mutex_": once a constructor has seen the
\* mutex it stays the same mutex, also for a thread that waits for it while
\* the last instance is destroyed.
MutexIsStable == [][glslang_mutex_ # 0 => UNCHANGED glslang_mutex_]_vars

\* InitializeProcess is only called on a stopped glslang, and
\* FinalizeProcess only on a started one.
ProcessLifecycle ==
  [][/\ glslang' = "initializing" => glslang = "down"
     /\ glslang' = "up" => glslang = "initializing"
     /\ glslang' = "finalizing" => glslang = "up"
     /\ glslang' = "down" => glslang = "finalizing"]_glslang

\* When the last compiler has been released for good, glslang is stopped.
LastReleaseFinalizes ==
  <>[](compilers = {} /\ \A t \in Threads : pc[t] \notin Constructing)
    => <>[](glslang = "down")

\* No call is stuck on one of the two mutexes: once the client makes no new
\* calls, every call returns.
CallsReturn ==
  <>[][\A t \in Threads : ~Call(t)]_vars
    => <>[](\A t \in Threads : pc[t] = "idle")

\* What the instances promise to the client, with glslang's transitions seen
\* at the moment they end (start) or begin (stop).
Process == INSTANCE GlslangProcess WITH up <- glslang = "up",
                                        live <- compilers

\* This is an implementation of that promise.
ImplementsProcess == Process!Spec

=============================================================================
