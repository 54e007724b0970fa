---------------------- MODULE GlslangInitializer_proofs ----------------------
(***************************************************************************)
(* Proofs about GlslangInitializer, for any set of threads and any finite  *)
(* pool of compilers.                                                      *)
(***************************************************************************)
EXTENDS GlslangInitializer, FiniteSetTheorems, TLAPS

-----------------------------------------------------------------------------
(* The inductive invariant, in parts.                                      *)

\* Who holds which of the two mutexes, and who may rely on the second one
\* having been allocated.
MutexInv ==
  /\ glslang_mutex_ \in {0, 1}
  /\ compilers # {} => glslang_mutex_ = 1
  /\ \A t \in Threads :
       /\ firstCallOwner = t <=> pc[t] \in LockedFirst
       /\ pc[t] = "ctor_new" => glslang_mutex_ = 0
       /\ pc[t] \in {"ctor_unlock_first", "ctor_wait"} \cup Locked \cup Destroying
            => glslang_mutex_ = 1
       /\ holds[t] = IF pc[t] \in Locked THEN 1 ELSE 0

\* A compiler that is being built or torn down belongs to one thread only.
SelfInv ==
  \A t \in Threads :
    /\ pc[t] = "idle" <=> self[t] = NoCompiler
    /\ pc[t] = "compiling" => self[t] \in compilers
    /\ pc[t] \in Constructing \cup Destroying =>
         /\ self[t] \notin compilers
         /\ \A u \in Threads : self[u] = self[t] => u = t

\* What glslang's state says about the count and about the thread that holds
\* the mutex.
GlslangInv ==
  /\ initialize_count_ > 0 => glslang = "up"
  /\ \A t \in Threads :
       /\ pc[t] = "ctor_init" => glslang = "initializing"
       /\ pc[t] = "dtor_finalize" => glslang = "finalizing"
       /\ pc[t] = "ctor_count" => glslang = "up"
  /\ glslang = "initializing" => \E t \in Threads : pc[t] = "ctor_init"
  /\ glslang = "finalizing" => \E t \in Threads : pc[t] = "dtor_finalize"
  /\ glslang = "up" /\ initialize_count_ = 0 =>
       \E t \in Threads : pc[t] = "ctor_count"

IInv ==
  /\ TypeOK
  /\ MutexInv
  /\ GlslangCallsExclusive
  /\ SelfInv
  /\ CountIsExact
  /\ GlslangInv

-----------------------------------------------------------------------------

THEOREM InitIInv == Init => IInv
<1> SUFFICES ASSUME Init PROVE IInv
  OBVIOUS
<1>1. TypeOK /\ MutexInv /\ GlslangCallsExclusive /\ SelfInv /\ GlslangInv
  BY ThreadsAssumption, CompilersAssumption
  DEF Init, TypeOK, MutexInv, GlslangCallsExclusive, SelfInv, GlslangInv,
      Constructing, Destroying, Locked, LockedFirst
<1>2. Counted = {}
  BY DEF Init, Counted
<1>3. CountIsExact
  BY <1>2, FS_EmptySet DEF Init, CountIsExact
<1>4. QED
  BY <1>1, <1>3 DEF IInv

\* Types are preserved.  The decrement stays in Nat because a thread about to
\* decrement is counted.
LEMMA CountPositive ==
  ASSUME TypeOK, CountIsExact, NEW t \in Threads, pc[t] = "dtor_count",
         self[t] # NoCompiler
  PROVE  initialize_count_ > 0
<1>1. self[t] \in Counted /\ Counted \subseteq Compilers
  BY DEF Counted, TypeOK
<1>2. IsFiniteSet(Counted) /\ Counted # {}
  BY <1>1, FS_Subset, CompilersAssumption
<1>3. QED
  BY <1>2, FS_EmptySet DEF CountIsExact, TypeOK

LEMMA TypeStep == IInv /\ [Next]_vars => TypeOK'
<1> SUFFICES ASSUME IInv, [Next]_vars PROVE TypeOK'
  OBVIOUS
<1> USE DEF IInv, TypeOK, Constructing, Destroying
<1>1. ASSUME NEW t \in Threads, NEW c \in Compilers, Initialize(t, c)
      PROVE  TypeOK'
  BY <1>1 DEF Initialize, Goto
<1>2. ASSUME NEW t \in Threads, NEW c \in Compilers, Compile(t, c)
      PROVE  TypeOK'
  BY <1>2 DEF Compile, Goto
<1>3. ASSUME NEW t \in Threads, NEW c \in Compilers, Release(t, c)
      PROVE  TypeOK'
  BY <1>3 DEF Release, Goto
<1>4. ASSUME NEW t \in Threads, CtorLockFirst(t)
      PROVE  TypeOK'
  BY <1>4 DEF CtorLockFirst, Goto
<1>5. ASSUME NEW t \in Threads, CtorCheckMutex(t)
      PROVE  TypeOK'
  BY <1>5 DEF CtorCheckMutex, Goto
<1>6. ASSUME NEW t \in Threads, CtorNewMutex(t)
      PROVE  TypeOK'
  BY <1>6 DEF CtorNewMutex, Goto
<1>7. ASSUME NEW t \in Threads, CtorUnlockFirst(t)
      PROVE  TypeOK'
  BY <1>7 DEF CtorUnlockFirst, Goto
<1>8. ASSUME NEW t \in Threads, CtorLock(t)
      PROVE  TypeOK'
  BY <1>8 DEF CtorLock, Goto, Lock, MutexIsFree
<1>9. ASSUME NEW t \in Threads, CtorCheck(t)
      PROVE  TypeOK'
  BY <1>9 DEF CtorCheck, Goto
<1>10. ASSUME NEW t \in Threads, CtorInitialized(t)
      PROVE  TypeOK'
  BY <1>10 DEF CtorInitialized, Goto
<1>11. ASSUME NEW t \in Threads, CtorCount(t)
      PROVE  TypeOK'
  BY <1>11 DEF CtorCount, Goto, Unlock, SelfInv
<1>12. ASSUME NEW t \in Threads, CompileReturns(t)
      PROVE  TypeOK'
  BY <1>12 DEF CompileReturns, Goto
<1>13. ASSUME NEW t \in Threads, DtorLock(t)
      PROVE  TypeOK'
  BY <1>13 DEF DtorLock, Goto, Lock, MutexIsFree
<1>14. ASSUME NEW t \in Threads, DtorCount(t)
      PROVE  TypeOK'
  <2>1. initialize_count_ > 0
    BY <1>14, CountPositive DEF DtorCount, SelfInv
  <2>2. QED
    BY <1>14, <2>1 DEF DtorCount, Goto
<1>15. ASSUME NEW t \in Threads, DtorFinalized(t)
      PROVE  TypeOK'
  BY <1>15 DEF DtorFinalized, Goto
<1>16. ASSUME NEW t \in Threads, DtorUnlock(t)
      PROVE  TypeOK'
  BY <1>16 DEF DtorUnlock, Goto, Unlock
<1>17. CASE UNCHANGED vars
  BY <1>17 DEF vars
<1>18. QED
  BY <1>1, <1>2, <1>3, <1>4, <1>5, <1>6, <1>7, <1>8, <1>9, <1>10, <1>11, <1>12, <1>13, <1>14, <1>15, <1>16, <1>17 DEF Next, Call, Step

LEMMA MutexStep == IInv /\ [Next]_vars => MutexInv'
<1> SUFFICES ASSUME IInv, [Next]_vars PROVE MutexInv'
  OBVIOUS
<1> USE ThreadsAssumption DEF IInv, TypeOK, MutexInv, GlslangCallsExclusive, Constructing,
        Destroying, Locked, LockedFirst
<1>1. ASSUME NEW t \in Threads, NEW c \in Compilers, Initialize(t, c)
      PROVE  MutexInv'
  BY <1>1 DEF Initialize, Goto
<1>2. ASSUME NEW t \in Threads, NEW c \in Compilers, Compile(t, c)
      PROVE  MutexInv'
  BY <1>2 DEF Compile, Goto
<1>3. ASSUME NEW t \in Threads, NEW c \in Compilers, Release(t, c)
      PROVE  MutexInv'
  BY <1>3 DEF Release, Goto
<1>4. ASSUME NEW t \in Threads, CtorLockFirst(t)
      PROVE  MutexInv'
  BY <1>4 DEF CtorLockFirst, Goto
<1>5. ASSUME NEW t \in Threads, CtorCheckMutex(t)
      PROVE  MutexInv'
  BY <1>5 DEF CtorCheckMutex, Goto
<1>6. ASSUME NEW t \in Threads, CtorNewMutex(t)
      PROVE  MutexInv'
  BY <1>6 DEF CtorNewMutex, Goto
<1>7. ASSUME NEW t \in Threads, CtorUnlockFirst(t)
      PROVE  MutexInv'
  BY <1>7 DEF CtorUnlockFirst, Goto
<1>8. ASSUME NEW t \in Threads, CtorLock(t)
      PROVE  MutexInv'
  BY <1>8 DEF CtorLock, Goto, Lock, MutexIsFree
<1>9. ASSUME NEW t \in Threads, CtorCheck(t)
      PROVE  MutexInv'
  BY <1>9 DEF CtorCheck, Goto
<1>10. ASSUME NEW t \in Threads, CtorInitialized(t)
      PROVE  MutexInv'
  BY <1>10 DEF CtorInitialized, Goto
<1>11. ASSUME NEW t \in Threads, CtorCount(t)
      PROVE  MutexInv'
  BY <1>11 DEF CtorCount, Goto, Unlock
<1>12. ASSUME NEW t \in Threads, CompileReturns(t)
      PROVE  MutexInv'
  BY <1>12 DEF CompileReturns, Goto
<1>13. ASSUME NEW t \in Threads, DtorLock(t)
      PROVE  MutexInv'
  BY <1>13 DEF DtorLock, Goto, Lock, MutexIsFree
<1>14. ASSUME NEW t \in Threads, DtorCount(t)
      PROVE  MutexInv'
  BY <1>14 DEF DtorCount, Goto
<1>15. ASSUME NEW t \in Threads, DtorFinalized(t)
      PROVE  MutexInv'
  BY <1>15 DEF DtorFinalized, Goto
<1>16. ASSUME NEW t \in Threads, DtorUnlock(t)
      PROVE  MutexInv'
  BY <1>16 DEF DtorUnlock, Goto, Unlock
<1>17. CASE UNCHANGED vars
  BY <1>17 DEF vars
<1>18. QED
  BY <1>1, <1>2, <1>3, <1>4, <1>5, <1>6, <1>7, <1>8, <1>9, <1>10, <1>11, <1>12, <1>13, <1>14, <1>15, <1>16, <1>17 DEF Next, Call, Step

\* Two threads hold the mutex only if the second one took it while it was
\* held.
LEMMA ExclusiveStep == IInv /\ [Next]_vars => GlslangCallsExclusive'
<1> SUFFICES ASSUME IInv, [Next]_vars PROVE GlslangCallsExclusive'
  OBVIOUS
<1> USE DEF IInv, TypeOK, MutexInv, GlslangCallsExclusive, Destroying, Locked
<1>1. ASSUME NEW t \in Threads, NEW c \in Compilers, Initialize(t, c)
      PROVE  GlslangCallsExclusive'
  BY <1>1 DEF Initialize, Goto
<1>2. ASSUME NEW t \in Threads, NEW c \in Compilers, Compile(t, c)
      PROVE  GlslangCallsExclusive'
  BY <1>2 DEF Compile, Goto
<1>3. ASSUME NEW t \in Threads, NEW c \in Compilers, Release(t, c)
      PROVE  GlslangCallsExclusive'
  BY <1>3 DEF Release, Goto
<1>4. ASSUME NEW t \in Threads, CtorLockFirst(t)
      PROVE  GlslangCallsExclusive'
  BY <1>4 DEF CtorLockFirst, Goto
<1>5. ASSUME NEW t \in Threads, CtorCheckMutex(t)
      PROVE  GlslangCallsExclusive'
  BY <1>5 DEF CtorCheckMutex, Goto
<1>6. ASSUME NEW t \in Threads, CtorNewMutex(t)
      PROVE  GlslangCallsExclusive'
  BY <1>6 DEF CtorNewMutex, Goto
<1>7. ASSUME NEW t \in Threads, CtorUnlockFirst(t)
      PROVE  GlslangCallsExclusive'
  BY <1>7 DEF CtorUnlockFirst, Goto
<1>8. ASSUME NEW t \in Threads, CtorLock(t)
      PROVE  GlslangCallsExclusive'
  BY <1>8 DEF CtorLock, Goto, Lock, MutexIsFree
<1>9. ASSUME NEW t \in Threads, CtorCheck(t)
      PROVE  GlslangCallsExclusive'
  BY <1>9 DEF CtorCheck, Goto
<1>10. ASSUME NEW t \in Threads, CtorInitialized(t)
      PROVE  GlslangCallsExclusive'
  BY <1>10 DEF CtorInitialized, Goto
<1>11. ASSUME NEW t \in Threads, CtorCount(t)
      PROVE  GlslangCallsExclusive'
  BY <1>11 DEF CtorCount, Goto, Unlock
<1>12. ASSUME NEW t \in Threads, CompileReturns(t)
      PROVE  GlslangCallsExclusive'
  BY <1>12 DEF CompileReturns, Goto
<1>13. ASSUME NEW t \in Threads, DtorLock(t)
      PROVE  GlslangCallsExclusive'
  BY <1>13 DEF DtorLock, Goto, Lock, MutexIsFree
<1>14. ASSUME NEW t \in Threads, DtorCount(t)
      PROVE  GlslangCallsExclusive'
  BY <1>14 DEF DtorCount, Goto
<1>15. ASSUME NEW t \in Threads, DtorFinalized(t)
      PROVE  GlslangCallsExclusive'
  BY <1>15 DEF DtorFinalized, Goto
<1>16. ASSUME NEW t \in Threads, DtorUnlock(t)
      PROVE  GlslangCallsExclusive'
  BY <1>16 DEF DtorUnlock, Goto, Unlock
<1>17. CASE UNCHANGED vars
  BY <1>17 DEF vars
<1>18. QED
  BY <1>1, <1>2, <1>3, <1>4, <1>5, <1>6, <1>7, <1>8, <1>9, <1>10, <1>11, <1>12, <1>13, <1>14, <1>15, <1>16, <1>17 DEF Next, Call, Step

LEMMA SelfStep == IInv /\ [Next]_vars => SelfInv'
<1> SUFFICES ASSUME IInv, [Next]_vars PROVE SelfInv'
  OBVIOUS
<1> USE CompilersAssumption DEF IInv, TypeOK, SelfInv, Constructing,
        Destroying
<1>1. ASSUME NEW t \in Threads, NEW c \in Compilers, Initialize(t, c)
      PROVE  SelfInv'
  BY <1>1 DEF Initialize, Goto
<1>2. ASSUME NEW t \in Threads, NEW c \in Compilers, Compile(t, c)
      PROVE  SelfInv'
  BY <1>2 DEF Compile, Goto
<1>3. ASSUME NEW t \in Threads, NEW c \in Compilers, Release(t, c)
      PROVE  SelfInv'
  BY <1>3 DEF Release, Goto
<1>4. ASSUME NEW t \in Threads, CtorLockFirst(t)
      PROVE  SelfInv'
  BY <1>4 DEF CtorLockFirst, Goto
<1>5. ASSUME NEW t \in Threads, CtorCheckMutex(t)
      PROVE  SelfInv'
  BY <1>5 DEF CtorCheckMutex, Goto
<1>6. ASSUME NEW t \in Threads, CtorNewMutex(t)
      PROVE  SelfInv'
  BY <1>6 DEF CtorNewMutex, Goto
<1>7. ASSUME NEW t \in Threads, CtorUnlockFirst(t)
      PROVE  SelfInv'
  BY <1>7 DEF CtorUnlockFirst, Goto
<1>8. ASSUME NEW t \in Threads, CtorLock(t)
      PROVE  SelfInv'
  BY <1>8 DEF CtorLock, Goto, Lock, MutexIsFree
<1>9. ASSUME NEW t \in Threads, CtorCheck(t)
      PROVE  SelfInv'
  BY <1>9 DEF CtorCheck, Goto
<1>10. ASSUME NEW t \in Threads, CtorInitialized(t)
      PROVE  SelfInv'
  BY <1>10 DEF CtorInitialized, Goto
<1>11. ASSUME NEW t \in Threads, CtorCount(t)
      PROVE  SelfInv'
  BY <1>11 DEF CtorCount, Goto, Unlock
<1>12. ASSUME NEW t \in Threads, CompileReturns(t)
      PROVE  SelfInv'
  BY <1>12 DEF CompileReturns, Goto
<1>13. ASSUME NEW t \in Threads, DtorLock(t)
      PROVE  SelfInv'
  BY <1>13 DEF DtorLock, Goto, Lock, MutexIsFree
<1>14. ASSUME NEW t \in Threads, DtorCount(t)
      PROVE  SelfInv'
  BY <1>14 DEF DtorCount, Goto
<1>15. ASSUME NEW t \in Threads, DtorFinalized(t)
      PROVE  SelfInv'
  BY <1>15 DEF DtorFinalized, Goto
<1>16. ASSUME NEW t \in Threads, DtorUnlock(t)
      PROVE  SelfInv'
  BY <1>16 DEF DtorUnlock, Goto, Unlock
<1>17. CASE UNCHANGED vars
  BY <1>17 DEF vars
<1>18. QED
  BY <1>1, <1>2, <1>3, <1>4, <1>5, <1>6, <1>7, <1>8, <1>9, <1>10, <1>11, <1>12, <1>13, <1>14, <1>15, <1>16, <1>17 DEF Next, Call, Step

LEMMA GlslangStep == IInv /\ [Next]_vars => GlslangInv'
<1> SUFFICES ASSUME IInv, [Next]_vars PROVE GlslangInv'
  OBVIOUS
<1> USE DEF IInv, TypeOK, GlslangInv, GlslangCallsExclusive, Locked
<1>1. ASSUME NEW t \in Threads, NEW c \in Compilers, Initialize(t, c)
      PROVE  GlslangInv'
  BY <1>1 DEF Initialize, Goto
<1>2. ASSUME NEW t \in Threads, NEW c \in Compilers, Compile(t, c)
      PROVE  GlslangInv'
  BY <1>2 DEF Compile, Goto
<1>3. ASSUME NEW t \in Threads, NEW c \in Compilers, Release(t, c)
      PROVE  GlslangInv'
  BY <1>3 DEF Release, Goto
<1>4. ASSUME NEW t \in Threads, CtorLockFirst(t)
      PROVE  GlslangInv'
  BY <1>4 DEF CtorLockFirst, Goto
<1>5. ASSUME NEW t \in Threads, CtorCheckMutex(t)
      PROVE  GlslangInv'
  BY <1>5 DEF CtorCheckMutex, Goto
<1>6. ASSUME NEW t \in Threads, CtorNewMutex(t)
      PROVE  GlslangInv'
  BY <1>6 DEF CtorNewMutex, Goto
<1>7. ASSUME NEW t \in Threads, CtorUnlockFirst(t)
      PROVE  GlslangInv'
  BY <1>7 DEF CtorUnlockFirst, Goto
<1>8. ASSUME NEW t \in Threads, CtorLock(t)
      PROVE  GlslangInv'
  BY <1>8 DEF CtorLock, Goto, Lock, MutexIsFree
<1>9. ASSUME NEW t \in Threads, CtorCheck(t)
      PROVE  GlslangInv'
  BY <1>9 DEF CtorCheck, Goto
<1>10. ASSUME NEW t \in Threads, CtorInitialized(t)
      PROVE  GlslangInv'
  BY <1>10 DEF CtorInitialized, Goto
<1>11. ASSUME NEW t \in Threads, CtorCount(t)
      PROVE  GlslangInv'
  BY <1>11 DEF CtorCount, Goto, Unlock
<1>12. ASSUME NEW t \in Threads, CompileReturns(t)
      PROVE  GlslangInv'
  BY <1>12 DEF CompileReturns, Goto
<1>13. ASSUME NEW t \in Threads, DtorLock(t)
      PROVE  GlslangInv'
  BY <1>13 DEF DtorLock, Goto, Lock, MutexIsFree
<1>14. ASSUME NEW t \in Threads, DtorCount(t)
      PROVE  GlslangInv'
  BY <1>14 DEF DtorCount, Goto
<1>15. ASSUME NEW t \in Threads, DtorFinalized(t)
      PROVE  GlslangInv'
  BY <1>15 DEF DtorFinalized, Goto
<1>16. ASSUME NEW t \in Threads, DtorUnlock(t)
      PROVE  GlslangInv'
  BY <1>16 DEF DtorUnlock, Goto, Unlock
<1>17. CASE UNCHANGED vars
  BY <1>17 DEF vars
<1>18. QED
  BY <1>1, <1>2, <1>3, <1>4, <1>5, <1>6, <1>7, <1>8, <1>9, <1>10, <1>11, <1>12, <1>13, <1>14, <1>15, <1>16, <1>17 DEF Next, Call, Step

\* Only the increment and the decrement change what the count stands for.
LEMMA CountedStep ==
  ASSUME IInv, [Next]_vars
  PROVE  \/ /\ \E t \in Threads : CtorCount(t) \/ DtorCount(t)
         \/ UNCHANGED <<Counted, initialize_count_>>
<1> USE CompilersAssumption DEF IInv, TypeOK, SelfInv, Counted, Constructing, Destroying
<1>1. ASSUME NEW t \in Threads, NEW c \in Compilers, Initialize(t, c)
      PROVE  UNCHANGED <<Counted, initialize_count_>>
  BY <1>1 DEF Initialize, Goto
<1>2. ASSUME NEW t \in Threads, NEW c \in Compilers, Compile(t, c)
      PROVE  UNCHANGED <<Counted, initialize_count_>>
  BY <1>2 DEF Compile, Goto
<1>3. ASSUME NEW t \in Threads, NEW c \in Compilers, Release(t, c)
      PROVE  UNCHANGED <<Counted, initialize_count_>>
  BY <1>3 DEF Release, Goto
<1>4. ASSUME NEW t \in Threads, CtorLockFirst(t)
      PROVE  UNCHANGED <<Counted, initialize_count_>>
  BY <1>4 DEF CtorLockFirst, Goto
<1>5. ASSUME NEW t \in Threads, CtorCheckMutex(t)
      PROVE  UNCHANGED <<Counted, initialize_count_>>
  BY <1>5 DEF CtorCheckMutex, Goto
<1>6. ASSUME NEW t \in Threads, CtorNewMutex(t)
      PROVE  UNCHANGED <<Counted, initialize_count_>>
  BY <1>6 DEF CtorNewMutex, Goto
<1>7. ASSUME NEW t \in Threads, CtorUnlockFirst(t)
      PROVE  UNCHANGED <<Counted, initialize_count_>>
  BY <1>7 DEF CtorUnlockFirst, Goto
<1>8. ASSUME NEW t \in Threads, CtorLock(t)
      PROVE  UNCHANGED <<Counted, initialize_count_>>
  BY <1>8 DEF CtorLock, Goto, Lock
<1>9. ASSUME NEW t \in Threads, CtorCheck(t)
      PROVE  UNCHANGED <<Counted, initialize_count_>>
  BY <1>9 DEF CtorCheck, Goto
<1>10. ASSUME NEW t \in Threads, CtorInitialized(t)
      PROVE  UNCHANGED <<Counted, initialize_count_>>
  BY <1>10 DEF CtorInitialized, Goto
<1>11. ASSUME NEW t \in Threads, CompileReturns(t)
      PROVE  UNCHANGED <<Counted, initialize_count_>>
  BY <1>11 DEF CompileReturns, Goto
<1>12. ASSUME NEW t \in Threads, DtorLock(t)
      PROVE  UNCHANGED <<Counted, initialize_count_>>
  BY <1>12 DEF DtorLock, Goto, Lock
<1>13. ASSUME NEW t \in Threads, DtorFinalized(t)
      PROVE  UNCHANGED <<Counted, initialize_count_>>
  BY <1>13 DEF DtorFinalized, Goto
<1>14. ASSUME NEW t \in Threads, DtorUnlock(t)
      PROVE  UNCHANGED <<Counted, initialize_count_>>
  BY <1>14 DEF DtorUnlock, Goto, Unlock
<1>15. CASE UNCHANGED vars
  BY <1>15 DEF vars
<1>16. QED
  BY <1>1, <1>2, <1>3, <1>4, <1>5, <1>6, <1>7, <1>8, <1>9, <1>10, <1>11, <1>12, <1>13, <1>14, <1>15 DEF Next, Call, Step

LEMMA CountStep == IInv /\ [Next]_vars => CountIsExact'
<1> SUFFICES ASSUME IInv, [Next]_vars PROVE CountIsExact'
  OBVIOUS
<1> USE DEF IInv
<1>1. IsFiniteSet(Counted)
  BY FS_Subset, CompilersAssumption DEF Counted, TypeOK
<1>2. ASSUME NEW t \in Threads, CtorCount(t)
      PROVE  CountIsExact'
  <2>1. self[t] \notin Counted /\ self[t] \in Compilers
    BY <1>2 DEF CtorCount, Counted, SelfInv, TypeOK, Constructing
  <2>2. Counted' = Counted \cup {self[t]}
    BY <1>2, <2>1 DEF CtorCount, Goto, Counted, SelfInv, TypeOK
  <2>3. Cardinality(Counted') = Cardinality(Counted) + 1
    BY <1>1, <2>1, <2>2, FS_AddElement
  <2>4. QED
    BY <1>2, <2>3 DEF CtorCount, CountIsExact
<1>3. ASSUME NEW t \in Threads, DtorCount(t)
      PROVE  CountIsExact'
  <2>1. self[t] \in Counted
    BY <1>3, CompilersAssumption DEF DtorCount, Counted, SelfInv, TypeOK
  <2>2. Counted' = Counted \ {self[t]}
    BY <1>3 DEF DtorCount, Goto, Counted, SelfInv, TypeOK, Destroying
  <2>3. Cardinality(Counted') = Cardinality(Counted) - 1
    BY <1>1, <2>1, <2>2, FS_RemoveElement
  <2>4. QED
    BY <1>3, <2>3 DEF DtorCount, CountIsExact
<1>4. CASE UNCHANGED <<Counted, initialize_count_>>
  BY <1>4 DEF CountIsExact
<1>5. QED
  BY <1>2, <1>3, <1>4, CountedStep

THEOREM StepIInv == IInv /\ [Next]_vars => IInv'
<1> SUFFICES ASSUME IInv, [Next]_vars PROVE IInv'
  OBVIOUS
<1>1. TypeOK' /\ MutexInv' /\ GlslangCallsExclusive' /\ SelfInv'
      /\ CountIsExact' /\ GlslangInv'
  BY TypeStep, MutexStep, ExclusiveStep, SelfStep, CountStep, GlslangStep
<1>2. QED
  BY <1>1 DEF IInv

THEOREM Invariance == Spec => []IInv
  BY InitIInv, StepIInv, PTL DEF Spec

-----------------------------------------------------------------------------
(* The properties.                                                         *)

\* Every variable keeps its type; in particular the unsigned count is never
\* decremented at zero.
THEOREM TypeCorrect == Spec => []TypeOK
<1>1. IInv => TypeOK
  BY DEF IInv
<1>2. QED
  BY <1>1, Invariance, PTL

\* No two threads are inside InitializeProcess or FinalizeProcess, or anywhere
\* else between lock and unlock, whatever the number of threads.
THEOREM MutualExclusion == Spec => []GlslangCallsExclusive
<1>1. IInv => GlslangCallsExclusive
  BY DEF IInv
<1>2. QED
  BY <1>1, Invariance, PTL

\* The count is the number of counted instances.
THEOREM CountCorrect == Spec => []CountIsExact
<1>1. IInv => CountIsExact
  BY DEF IInv
<1>2. QED
  BY <1>1, Invariance, PTL

LEMMA OwnedMeansUp == IInv => ProcessUpWhileOwned
<1> SUFFICES ASSUME IInv PROVE ProcessUpWhileOwned
  OBVIOUS
<1> USE DEF IInv
<1>1. ASSUME compilers # {}
      PROVE  glslang = "up"
  <2>1. IsFiniteSet(Counted) /\ Counted # {}
    BY <1>1, FS_Subset, CompilersAssumption DEF Counted, TypeOK
  <2>2. initialize_count_ > 0
    BY <2>1, FS_EmptySet DEF CountIsExact, TypeOK
  <2>3. QED
    BY <2>2 DEF GlslangInv
<1>2. QED
  BY <1>1 DEF ProcessUpWhileOwned, SelfInv

\* Whoever owns a compiler or compiles with one has a running glslang.
THEOREM OwnersHaveGlslang == Spec => []ProcessUpWhileOwned
  BY OwnedMeansUp, Invariance, PTL

\* The mutex is allocated once and never replaced or deleted.
THEOREM MutexStability == Spec => MutexIsStable
<1>1. IInv /\ [Next]_vars => [glslang_mutex_ # 0 => UNCHANGED glslang_mutex_]_vars
  <2> SUFFICES ASSUME IInv, Next, glslang_mutex_ # 0
               PROVE  UNCHANGED glslang_mutex_
    OBVIOUS
  <2>1. ~ \E t \in Threads : CtorNewMutex(t)
    BY DEF IInv, MutexInv, CtorNewMutex
  <2>2. QED
    BY <2>1 DEF Next, Call, Step, Initialize, Compile, Release, CtorLockFirst,
       CtorCheckMutex, CtorUnlockFirst, CtorLock, CtorCheck, CtorInitialized,
       CtorCount, CompileReturns, DtorLock, DtorCount, DtorFinalized, DtorUnlock
<1>2. QED
  BY <1>1, Invariance, PTL DEF MutexIsStable, Spec

\* What the thread about to start or stop glslang knows about it.
LEMMA StartsWhenDown ==
  ASSUME IInv, NEW t \in Threads, pc[t] = "ctor_check", initialize_count_ = 0
  PROVE  glslang = "down"
BY DEF IInv, TypeOK, GlslangInv, GlslangCallsExclusive, Locked

LEMMA StopsWhenUp ==
  ASSUME IInv, NEW t \in Threads, pc[t] = "dtor_count"
  PROVE  glslang = "up"
<1>1. initialize_count_ > 0
  BY CountPositive DEF IInv, SelfInv
<1>2. QED
  BY <1>1 DEF IInv, GlslangInv

\* InitializeProcess is only called on a stopped glslang, FinalizeProcess only
\* on a started one, and each runs to its end before the other begins.
THEOREM LifecycleCorrect == Spec => ProcessLifecycle
<1> DEFINE Legal == /\ glslang' = "initializing" => glslang = "down"
                    /\ glslang' = "up" => glslang = "initializing"
                    /\ glslang' = "finalizing" => glslang = "up"
                    /\ glslang' = "down" => glslang = "finalizing"
<1>1. IInv /\ [Next]_vars => [Legal]_glslang
  <2> SUFFICES ASSUME IInv, [Next]_vars PROVE [Legal]_glslang
    OBVIOUS
  <2>1. ASSUME NEW t \in Threads, CtorCheck(t)
        PROVE  [Legal]_glslang
    BY <2>1, StartsWhenDown DEF CtorCheck
  <2>2. ASSUME NEW t \in Threads, CtorInitialized(t)
        PROVE  [Legal]_glslang
    BY <2>2 DEF CtorInitialized, IInv, GlslangInv
  <2>3. ASSUME NEW t \in Threads, DtorCount(t)
        PROVE  [Legal]_glslang
    BY <2>3, StopsWhenUp DEF DtorCount
  <2>4. ASSUME NEW t \in Threads, DtorFinalized(t)
        PROVE  [Legal]_glslang
    BY <2>4 DEF DtorFinalized, IInv, GlslangInv
  <2>5. ASSUME NEW t \in Threads, NEW c \in Compilers,
               Initialize(t, c) \/ Compile(t, c) \/ Release(t, c)
        PROVE  UNCHANGED glslang
    BY <2>5 DEF Initialize, Compile, Release
  <2>6. ASSUME NEW t \in Threads,
               \/ CtorLockFirst(t) \/ CtorCheckMutex(t) \/ CtorNewMutex(t)
               \/ CtorUnlockFirst(t) \/ CtorLock(t) \/ CtorCount(t)
               \/ CompileReturns(t) \/ DtorLock(t) \/ DtorUnlock(t)
        PROVE  UNCHANGED glslang
    BY <2>6 DEF CtorLockFirst, CtorCheckMutex, CtorNewMutex, CtorUnlockFirst,
       CtorLock, CtorCount, CompileReturns, DtorLock, DtorUnlock
  <2>7. CASE UNCHANGED vars
    BY <2>7 DEF vars
  <2>8. QED
    BY <2>1, <2>2, <2>3, <2>4, <2>5, <2>6, <2>7 DEF Next, Call, Step
<1>2. QED
  BY <1>1, Invariance, PTL DEF ProcessLifecycle, Spec

\* Every step is a step of the promise, or invisible to the client.
LEMMA ProcessStep ==
  ASSUME IInv, IInv', [Next]_vars
  PROVE  [Process!Next]_(Process!vars)
<1> DEFINE Seen == [Process!Next]_(Process!vars)
<1>1. ASSUME NEW t \in Threads, NEW c \in Compilers, Initialize(t, c)
      PROVE  Seen
  BY <1>1 DEF Initialize, Process!vars
<1>2. ASSUME NEW t \in Threads, NEW c \in Compilers, Compile(t, c)
      PROVE  Seen
  BY <1>2 DEF Compile, Process!vars
<1>3. ASSUME NEW t \in Threads, NEW c \in Compilers, Release(t, c)
      PROVE  Seen
  <2>1. Process!Close(c)
    BY <1>3 DEF Release, Process!Close
  <2>2. QED
    BY <2>1, <1>3 DEF Process!Next
<1>4. ASSUME NEW t \in Threads, CtorCheck(t)
      PROVE  Seen
  BY <1>4, StartsWhenDown DEF CtorCheck, Process!vars
<1>5. ASSUME NEW t \in Threads, CtorInitialized(t)
      PROVE  Seen
  <2>1. Process!Start
    BY <1>5 DEF CtorInitialized, IInv, GlslangInv, Process!Start
  <2>2. QED
    BY <2>1 DEF Process!Next
<1>6. ASSUME NEW t \in Threads, CtorCount(t)
      PROVE  Seen
  <2>1. self[t] \in Compilers \ compilers
    BY <1>6 DEF CtorCount, IInv, SelfInv, TypeOK, Constructing
  <2>2. Process!Open(self[t])
    BY <1>6, <2>1 DEF CtorCount, IInv, GlslangInv, Process!Open
  <2>3. QED
    BY <2>1, <2>2 DEF Process!Next
<1>7. ASSUME NEW t \in Threads, DtorCount(t)
      PROVE  Seen
  <2>1. CASE initialize_count_' = 0
    <3>1. IsFiniteSet(Counted)' /\ compilers' \subseteq Counted'
      BY FS_Subset, CompilersAssumption DEF IInv, TypeOK, Counted
    <3>2. Cardinality(Counted') = 0
      BY <2>1 DEF IInv, CountIsExact
    <3>3. Counted' = {}
      BY <3>1, <3>2, FS_EmptySet
    <3>4. compilers = {}
      BY <3>1, <3>3, <1>7 DEF DtorCount
    <3>5. Process!Stop
      BY <3>4, <2>1, <1>7, StopsWhenUp DEF DtorCount, Process!Stop
    <3>6. QED
      BY <3>5 DEF Process!Next
  <2>2. CASE initialize_count_' # 0
    BY <2>2, <1>7 DEF DtorCount, Process!vars
  <2>3. QED
    BY <2>1, <2>2
<1>8. ASSUME NEW t \in Threads, DtorFinalized(t)
      PROVE  Seen
  BY <1>8 DEF DtorFinalized, IInv, GlslangInv, Process!vars
<1>9. ASSUME NEW t \in Threads,
             \/ CtorLockFirst(t) \/ CtorCheckMutex(t) \/ CtorNewMutex(t)
             \/ CtorUnlockFirst(t) \/ CtorLock(t)
             \/ CompileReturns(t) \/ DtorLock(t) \/ DtorUnlock(t)
      PROVE  Seen
  BY <1>9 DEF CtorLockFirst, CtorCheckMutex, CtorNewMutex, CtorUnlockFirst,
     CtorLock, CompileReturns, DtorLock, DtorUnlock, Process!vars
<1>10. CASE UNCHANGED vars
  BY <1>10 DEF vars, Process!vars
<1>11. QED
  BY <1>1, <1>2, <1>3, <1>4, <1>5, <1>6, <1>7, <1>8, <1>9, <1>10
  DEF Next, Call, Step

\* The reference-counted instances implement GlslangProcess.
THEOREM Refinement == Spec => ImplementsProcess
<1>1. Init => Process!Init
  BY DEF Init, Process!Init
<1>2. IInv /\ IInv' /\ [Next]_vars => [Process!Next]_(Process!vars)
  BY ProcessStep
<1>3. QED
  BY <1>1, <1>2, Invariance, PTL DEF Spec, ImplementsProcess, Process!Spec

=============================================================================
