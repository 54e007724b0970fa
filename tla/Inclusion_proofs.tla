--------------------------- MODULE Inclusion_proofs ---------------------------
(***************************************************************************)
(* That inclusions are serialized and that every client result is released *)
(* once, for any number of threads, directives and results.  The invariant *)
(* ties what a thread has at hand to what it does next, and keeps every    *)
(* IncludeResult in one place: with glslang or with one thread.            *)
(***************************************************************************)
EXTENDS Inclusion, TLAPS

\* A thread has an IncludeResult at hand after it is made and until it is
\* deleted.
ArgMatchesPc ==
  \A t \in Threads : arg[t] # Null <=> pc[t] \in {"unlock", "releaser", "delete"}

\* An IncludeResult is in one place.
OnePlace ==
  /\ \A t, u \in Threads : arg[t] # Null /\ arg[t] = arg[u] => t = u
  /\ held \cap AtHand = {}

\* The callbacks are called only if they are set, and a client result reaches
\* only an includer that has both.
CallbacksSet ==
  /\ \A t \in Threads : pc[t] = "resolver" => AreValidCallbacks
  /\ \A t \in Threads : pc[t] = "releaser" => callbacks.releaser
  /\ \A i \in Live : userData[i] # Null <=> AreValidCallbacks

\* ResultsAccounted, element by element.
Accounted ==
  /\ \A i \in Made : userData[i] \in client
  /\ \A r \in client : \E i \in Made : userData[i] = r
  /\ \A i, j \in Made : userData[i] = userData[j] => i = j

IInv ==
  /\ TypeOK
  /\ InclusionsSerialized
  /\ ArgMatchesPc
  /\ OnePlace
  /\ CallbacksSet
  /\ Accounted

\* The constants are told apart, and the initial state satisfies the invariant.
LEMMA InitIInv == Init => IInv
<1> SUFFICES ASSUME Init PROVE IInv
  OBVIOUS
<1> USE InclusionAssumption DEF Init
<1>1. TypeOK
  BY DEF TypeOK
<1>2. InclusionsSerialized
  BY DEF InclusionsSerialized, Including
<1>3. Live = {}
  BY DEF Live, AtHand
<1>4. ArgMatchesPc /\ OnePlace
  BY DEF ArgMatchesPc, OnePlace, AtHand
<1>5. CallbacksSet
  BY <1>3 DEF CallbacksSet
<1>6. Accounted
  BY <1>3 DEF Accounted, Made
<1> QED
  BY <1>1, <1>2, <1>4, <1>5, <1>6 DEF IInv

\* A step that neither makes nor frees a result leaves the accounts as they
\* are.
LEMMA SameResults ==
  ASSUME IInv, NEW t \in Threads,
         UNCHANGED <<callbacks, arg, held, userData, client>>,
         \A u \in Threads : pc'[u] = "delete" <=> pc[u] = "delete"
  PROVE  OnePlace' /\ Accounted' /\ Live' = Live
<1>1. Live' = Live /\ AtHand' = AtHand
  BY DEF Live, AtHand
<1>2. Made' = Made
  BY <1>1 DEF Made
<1> QED
  BY <1>1, <1>2 DEF IInv, OnePlace, Accounted

LEMMA IncludeStep ==
  ASSUME IInv, NEW t \in Threads, Include(t)
  PROVE  IInv'
<1> USE DEF IInv, Include
<1>1. TypeOK'
  BY InclusionAssumption DEF TypeOK
<1>2. InclusionsSerialized'
  BY DEF TypeOK, InclusionsSerialized, Including
<1>3. ArgMatchesPc'
  BY DEF TypeOK, ArgMatchesPc
<1>4. \A u \in Threads : pc'[u] = "delete" <=> pc[u] = "delete"
  BY DEF TypeOK
<1>5. OnePlace' /\ Accounted' /\ Live' = Live
  BY <1>4, SameResults
<1>6. CallbacksSet'
  BY <1>5 DEF TypeOK, CallbacksSet, AreValidCallbacks
<1> QED
  BY <1>1, <1>2, <1>3, <1>5, <1>6

LEMMA LockStep ==
  ASSUME IInv, NEW t \in Threads, Lock(t)
  PROVE  IInv'
<1> USE DEF IInv, Lock
<1>1. TypeOK'
  BY DEF TypeOK
<1>2. InclusionsSerialized'
  BY InclusionAssumption DEF TypeOK, InclusionsSerialized, Including
<1>3. ArgMatchesPc'
  BY DEF TypeOK, ArgMatchesPc
<1>4. \A u \in Threads : pc'[u] = "delete" <=> pc[u] = "delete"
  BY DEF TypeOK
<1>5. OnePlace' /\ Accounted' /\ Live' = Live
  BY <1>4, SameResults
<1>6. CallbacksSet'
  BY <1>5 DEF TypeOK, CallbacksSet, AreValidCallbacks
<1> QED
  BY <1>1, <1>2, <1>3, <1>5, <1>6

\* A new IncludeResult is in the maker's hands only, and the others stay
\* where they are.
LEMMA NewResult ==
  ASSUME IInv, NEW t \in Threads, NEW r \in ClientResults \cup {Null},
         NewIncludeResult(t, r), arg[t] = Null,
         UNCHANGED held
  PROVE  \E i \in IncludeResults \ Live :
           /\ arg' = [arg EXCEPT ![t] = i]
           /\ userData' = [userData EXCEPT ![i] = r]
           /\ Live' = Live \cup {i}
           /\ OnePlace'
<1>1. PICK i \in IncludeResults \ Live :
        /\ arg' = [arg EXCEPT ![t] = i]
        /\ userData' = [userData EXCEPT ![i] = r]
  BY DEF NewIncludeResult
<1>2. i # Null
  BY InclusionAssumption
<1>3. AtHand' = AtHand \cup {i}
  BY <1>1, <1>2 DEF IInv, TypeOK, AtHand
<1>4. Live' = Live \cup {i}
  BY <1>3 DEF Live
<1>5. \A u \in Threads : arg[u] # i
  BY <1>1, <1>2 DEF Live, AtHand
<1>6. OnePlace'
  BY <1>1, <1>3, <1>5 DEF IInv, TypeOK, OnePlace, Live
<1> QED
  BY <1>1, <1>4, <1>6

LEMMA IncludeDelegateStep ==
  ASSUME IInv, NEW t \in Threads, IncludeDelegate(t)
  PROVE  IInv'
<1> USE DEF IInv
<1>1. CASE AreValidCallbacks
  <2> USE <1>1 DEF IncludeDelegate
  <2>1. TypeOK'
    BY DEF TypeOK
  <2>2. InclusionsSerialized'
    BY DEF TypeOK, InclusionsSerialized, Including
  <2>3. ArgMatchesPc'
    BY DEF TypeOK, ArgMatchesPc
  <2>4. \A u \in Threads : pc'[u] = "delete" <=> pc[u] = "delete"
    BY DEF TypeOK
  <2>5. OnePlace' /\ Accounted' /\ Live' = Live
    BY <2>4, SameResults
  <2>6. CallbacksSet'
    BY <2>5 DEF TypeOK, CallbacksSet, AreValidCallbacks
  <2> QED
    BY <2>1, <2>2, <2>3, <2>5, <2>6
<1>2. CASE ~AreValidCallbacks
  <2> USE <1>2
  <2>1. /\ pc[t] = "delegate" /\ pc' = [pc EXCEPT ![t] = "unlock"]
        /\ UNCHANGED <<callbacks, num_include_directives_, include_mutex_,
                       held, client>>
        /\ NewIncludeResult(t, Null)
    BY DEF IncludeDelegate
  <2>2. arg[t] = Null
    BY <2>1 DEF ArgMatchesPc
  <2>3. PICK i \in IncludeResults \ Live :
          /\ arg' = [arg EXCEPT ![t] = i]
          /\ userData' = [userData EXCEPT ![i] = Null]
          /\ Live' = Live \cup {i}
          /\ OnePlace'
    BY <2>1, <2>2, NewResult
  <2>4. TypeOK'
    BY <2>1, <2>3 DEF TypeOK
  <2>5. InclusionsSerialized'
    BY <2>1 DEF TypeOK, InclusionsSerialized, Including
  <2>6. ArgMatchesPc'
    BY <2>1, <2>3, InclusionAssumption DEF TypeOK, ArgMatchesPc
  <2>7. CallbacksSet'
    BY <2>1, <2>3 DEF TypeOK, CallbacksSet, AreValidCallbacks
  <2>8. Made = {} /\ Made' = {}
    BY <2>1, <2>3, <2>7 DEF Made, CallbacksSet, AreValidCallbacks
  <2>9. Accounted'
    BY <2>1, <2>8 DEF Accounted
  <2> QED
    BY <2>3, <2>4, <2>5, <2>6, <2>7, <2>9
<1> QED
  BY <1>1, <1>2

LEMMA ResolveStep ==
  ASSUME IInv, NEW t \in Threads, Resolve(t)
  PROVE  IInv'
<1> USE DEF IInv
<1>1. PICK r \in ClientResults \ client :
        client' = client \cup {r} /\ NewIncludeResult(t, r)
  BY DEF Resolve
<1>2. /\ pc[t] = "resolver" /\ pc' = [pc EXCEPT ![t] = "unlock"]
      /\ UNCHANGED <<callbacks, num_include_directives_, include_mutex_, held>>
  BY DEF Resolve
<1>3. arg[t] = Null /\ AreValidCallbacks /\ r # Null
  BY <1>2, InclusionAssumption DEF ArgMatchesPc, CallbacksSet
<1>4. PICK i \in IncludeResults \ Live :
        /\ arg' = [arg EXCEPT ![t] = i]
        /\ userData' = [userData EXCEPT ![i] = r]
        /\ Live' = Live \cup {i}
        /\ OnePlace'
  BY <1>1, <1>2, <1>3, NewResult
<1>5. TypeOK'
  BY <1>1, <1>2, <1>4 DEF TypeOK
<1>6. InclusionsSerialized'
  BY <1>2 DEF TypeOK, InclusionsSerialized, Including
<1>7. ArgMatchesPc'
  BY <1>2, <1>4, InclusionAssumption DEF TypeOK, ArgMatchesPc
<1>8. CallbacksSet'
  BY <1>2, <1>3, <1>4 DEF TypeOK, CallbacksSet, AreValidCallbacks
<1>9. userData'[i] = r /\ \A j \in Live : userData'[j] = userData[j]
  BY <1>4 DEF TypeOK, Live, AtHand
<1>10. Made' = Made \cup {i}
  <2>1. \A u \in Threads : pc'[u] = "delete" => u # t /\ pc[u] = "delete"
                                                 /\ arg'[u] = arg[u]
    BY <1>2, <1>4 DEF TypeOK
  <2>2. \A u \in Threads : arg[u] # i
    BY <1>4, InclusionAssumption DEF Live, AtHand
  <2>3. \A u \in Threads : pc[u] = "delete" => pc'[u] = "delete"
                                                 /\ arg'[u] = arg[u]
    BY <1>2, <1>4 DEF TypeOK
  <2> QED
    BY <1>3, <1>4, <1>9, <2>1, <2>2, <2>3 DEF Made
<1>11. Accounted'
  <2>1. \A j \in Made : j \in Live /\ userData'[j] = userData[j] /\ j # i
    BY <1>4, <1>9 DEF Made
  <2>2. \A j \in Made' : userData'[j] \in client'
    BY <1>1, <1>9, <1>10, <2>1 DEF Accounted
  <2>3. \A s \in client' : \E j \in Made' : userData'[j] = s
    BY <1>1, <1>9, <1>10, <2>1 DEF Accounted
  <2>4. \A j \in Made : userData'[j] # r
    BY <1>1, <2>1 DEF Accounted
  <2>5. \A j, k \in Made' : userData'[j] = userData'[k] => j = k
    BY <1>9, <1>10, <2>1, <2>4 DEF Accounted
  <2> QED
    BY <2>2, <2>3, <2>5 DEF Accounted
<1> QED
  BY <1>4, <1>5, <1>6, <1>7, <1>8, <1>11

LEMMA UnlockStep ==
  ASSUME IInv, NEW t \in Threads, Unlock(t)
  PROVE  IInv'
<1> USE DEF IInv, Unlock
<1>1. arg[t] # Null /\ arg[t] \in IncludeResults
  BY DEF ArgMatchesPc, TypeOK
<1>2. TypeOK'
  BY <1>1 DEF TypeOK
<1>3. InclusionsSerialized'
  BY InclusionAssumption DEF TypeOK, InclusionsSerialized, Including
<1>4. ArgMatchesPc'
  BY DEF TypeOK, ArgMatchesPc
<1>5. AtHand' = AtHand \ {arg[t]}
  BY <1>1 DEF TypeOK, OnePlace, AtHand
<1>6. Live' = Live
  BY <1>1, <1>5 DEF Live, AtHand
<1>7. OnePlace'
  BY <1>5 DEF TypeOK, OnePlace
<1>8. CallbacksSet'
  BY <1>6 DEF TypeOK, CallbacksSet, AreValidCallbacks
<1>9. Made' = Made
  <2>1. \A u \in Threads : pc'[u] = "delete" <=> pc[u] = "delete"
    BY DEF TypeOK
  <2>2. \A u \in Threads : pc[u] = "delete" => arg'[u] = arg[u]
    BY DEF TypeOK
  <2> QED
    BY <1>6, <2>1, <2>2 DEF Made
<1>10. Accounted'
  BY <1>9 DEF Accounted
<1> QED
  BY <1>2, <1>3, <1>4, <1>7, <1>8, <1>10

LEMMA ReleaseIncludeStep ==
  ASSUME IInv, NEW t \in Threads, NEW i \in IncludeResults, ReleaseInclude(t, i)
  PROVE  IInv'
<1> USE DEF IInv, ReleaseInclude
<1>1. arg[t] = Null /\ i # Null
  BY InclusionAssumption DEF ArgMatchesPc
<1>2. TypeOK'
  BY DEF TypeOK
<1>3. InclusionsSerialized'
  BY DEF TypeOK, InclusionsSerialized, Including
<1>4. ArgMatchesPc'
  BY <1>1 DEF TypeOK, ArgMatchesPc
<1>5. AtHand' = AtHand \cup {i}
  BY <1>1 DEF TypeOK, AtHand
<1>6. Live' = Live
  BY <1>5 DEF Live
<1>7. \A u \in Threads : arg[u] # i
  BY <1>1 DEF OnePlace, AtHand
<1>8. OnePlace'
  BY <1>5, <1>7 DEF TypeOK, OnePlace
<1>9. CallbacksSet'
  BY <1>6 DEF TypeOK, CallbacksSet, AreValidCallbacks
<1>10. Made' = Made
  <2>1. CASE ~callbacks.releaser
    <3>1. \A j \in Live : userData[j] = Null
      BY <2>1 DEF CallbacksSet, AreValidCallbacks
    <3> QED
      BY <1>6, <3>1 DEF Made
  <2>2. CASE callbacks.releaser
    <3>1. \A u \in Threads : pc'[u] = "delete" <=> pc[u] = "delete"
      BY <2>2 DEF TypeOK
    <3>2. \A u \in Threads : pc[u] = "delete" => arg'[u] = arg[u]
      BY DEF TypeOK
    <3> QED
      BY <1>6, <3>1, <3>2 DEF Made
  <2> QED
    BY <2>1, <2>2
<1>11. Accounted'
  BY <1>10 DEF Accounted
<1> QED
  BY <1>2, <1>3, <1>4, <1>8, <1>9, <1>11

LEMMA ReleasedStep ==
  ASSUME IInv, NEW t \in Threads, Released(t)
  PROVE  IInv'
<1> USE DEF IInv, Released
<1>1. arg[t] # Null /\ arg[t] \in Live
  BY DEF ArgMatchesPc, TypeOK, Live, AtHand
<1>2. TypeOK'
  BY DEF TypeOK
<1>3. InclusionsSerialized'
  BY DEF TypeOK, InclusionsSerialized, Including
<1>4. ArgMatchesPc'
  BY DEF TypeOK, ArgMatchesPc
<1>5. AtHand' = AtHand /\ Live' = Live
  BY DEF Live, AtHand
<1>6. OnePlace'
  BY <1>5 DEF OnePlace
<1>7. CallbacksSet'
  BY <1>5 DEF TypeOK, CallbacksSet, AreValidCallbacks
<1>8. Made' = Made \ {arg[t]}
  <2>1. \A u \in Threads : pc'[u] = "delete" <=> u = t \/ pc[u] = "delete"
    BY DEF TypeOK
  <2> QED
    BY <1>5, <2>1 DEF Made
<1>9. Accounted'
  <2>1. CASE arg[t] \notin Made
    <3>1. \A u \in Threads : pc[u] = "delete" => arg[u] # arg[t]
      BY <1>1 DEF OnePlace
    <3>2. userData[arg[t]] = Null
      BY <1>1, <2>1, <3>1 DEF Made
    <3>3. client' = client
      BY <3>2, InclusionAssumption DEF TypeOK
    <3> QED
      BY <1>8, <2>1, <3>3 DEF Accounted
  <2>2. CASE arg[t] \in Made
    BY <1>8, <2>2 DEF Accounted
  <2> QED
    BY <2>1, <2>2
<1> QED
  BY <1>2, <1>3, <1>4, <1>6, <1>7, <1>9

LEMMA DeleteStep ==
  ASSUME IInv, NEW t \in Threads, Delete(t)
  PROVE  IInv'
<1> USE DEF IInv, Delete
<1>1. arg[t] # Null
  BY DEF ArgMatchesPc
<1>2. TypeOK'
  BY DEF TypeOK
<1>3. InclusionsSerialized'
  BY DEF TypeOK, InclusionsSerialized, Including
<1>4. ArgMatchesPc'
  BY DEF TypeOK, ArgMatchesPc
<1>5. AtHand' = AtHand \ {arg[t]}
  BY <1>1 DEF TypeOK, OnePlace, AtHand
<1>6. Live' = Live \ {arg[t]}
  BY <1>1, <1>5 DEF Live, OnePlace, AtHand
<1>7. OnePlace'
  BY <1>5 DEF TypeOK, OnePlace
<1>8. CallbacksSet'
  BY <1>6 DEF TypeOK, CallbacksSet, AreValidCallbacks
<1>9. Made' = Made
  <2>1. arg[t] \notin Made
    BY DEF Made
  <2>2. \A u \in Threads : u # t => arg'[u] = arg[u] /\ pc'[u] = pc[u]
    BY DEF TypeOK
  <2>3. pc'[t] # "delete"
    BY DEF TypeOK
  <2> QED
    BY <1>6, <2>1, <2>2, <2>3 DEF Made
<1>10. Accounted'
  BY <1>9 DEF Accounted
<1> QED
  BY <1>2, <1>3, <1>4, <1>7, <1>8, <1>10

\* Every step keeps the invariant.
LEMMA StepIInv == IInv /\ [Next]_vars => IInv'
<1> SUFFICES ASSUME IInv, [Next]_vars PROVE IInv'
  OBVIOUS
<1>1. CASE UNCHANGED vars
  BY <1>1 DEF vars, IInv, TypeOK, InclusionsSerialized, Including, ArgMatchesPc,
     OnePlace, CallbacksSet, AreValidCallbacks, Accounted, Made, Live, AtHand
<1>2. ASSUME NEW t \in Threads, Include(t) PROVE IInv'
  BY <1>2, IncludeStep
<1>3. ASSUME NEW t \in Threads, Lock(t) PROVE IInv'
  BY <1>3, LockStep
<1>4. ASSUME NEW t \in Threads, IncludeDelegate(t) PROVE IInv'
  BY <1>4, IncludeDelegateStep
<1>5. ASSUME NEW t \in Threads, Resolve(t) PROVE IInv'
  BY <1>5, ResolveStep
<1>6. ASSUME NEW t \in Threads, Unlock(t) PROVE IInv'
  BY <1>6, UnlockStep
<1>7. ASSUME NEW t \in Threads, NEW i \in IncludeResults, ReleaseInclude(t, i)
      PROVE IInv'
  BY <1>7, ReleaseIncludeStep
<1>8. ASSUME NEW t \in Threads, Released(t) PROVE IInv'
  BY <1>8, ReleasedStep
<1>9. ASSUME NEW t \in Threads, Delete(t) PROVE IInv'
  BY <1>9, DeleteStep
<1> QED
  BY <1>1, <1>2, <1>3, <1>4, <1>5, <1>6, <1>7, <1>8, <1>9 DEF Next

THEOREM Invariance == Spec => []IInv
<1>1. Init => IInv
  BY InitIInv
<1>2. IInv /\ [Next]_vars => IInv'
  BY StepIInv
<1> QED
  BY <1>1, <1>2, PTL DEF Spec

\* The variables of an includer that any number of threads share keep to their
\* types.
THEOREM TypeCorrect == Spec => []TypeOK
<1>1. IInv => TypeOK
  BY DEF IInv
<1> QED
  BY <1>1, Invariance, PTL

\* One thread at a time is in the client's resolver, and the mutex is its own.
THEOREM Serialization == Spec => []InclusionsSerialized
<1>1. IInv => InclusionsSerialized
  BY DEF IInv
<1> QED
  BY <1>1, Invariance, PTL

\* Each client result not yet released is in exactly one IncludeResult.
THEOREM NothingLeaks == Spec => []ResultsAccounted
<1>1. IInv => ResultsAccounted
  BY DEF IInv, Accounted, ResultsAccounted
<1> QED
  BY <1>1, Invariance, PTL

\* A client that sets no releaser without a resolver never sees its releaser
\* called on anything but a result of its own that is not released yet.
THEOREM ReleaserIsSafe ==
  ASSUME [resolver |-> FALSE, releaser |-> TRUE] \notin Callbacks
  PROVE  Spec => []ReleaserGetsResult
<1> DEFINE Paired == callbacks.releaser => callbacks.resolver
<1>1. Init => Paired
  <2>1. ASSUME callbacks \in Callbacks, callbacks.releaser, ~callbacks.resolver
        PROVE FALSE
    <3>1. callbacks \in [resolver : BOOLEAN, releaser : BOOLEAN]
      BY <2>1, InclusionAssumption
    <3>2. callbacks = [resolver |-> FALSE, releaser |-> TRUE]
      BY <2>1, <3>1
    <3> QED
      BY <2>1, <3>2
  <2> QED
    BY <2>1 DEF Init
<1>2. Paired /\ [Next]_vars => Paired'
  BY DEF Next, vars, Include, Lock, IncludeDelegate, Resolve, Unlock,
     ReleaseInclude, Released, Delete
<1>3. IInv /\ Paired => ReleaserGetsResult
  <2> SUFFICES ASSUME IInv, Paired, NEW t \in Threads, pc[t] = "releaser"
               PROVE  userData[arg[t]] \in client
    BY DEF ReleaserGetsResult
  <2>1. arg[t] # Null /\ arg[t] \in Live
    BY DEF IInv, ArgMatchesPc, TypeOK, Live, AtHand
  <2>2. userData[arg[t]] # Null
    BY <2>1 DEF IInv, CallbacksSet, AreValidCallbacks
  <2>3. \A u \in Threads : pc[u] = "delete" => arg[u] # arg[t]
    BY <2>1 DEF IInv, OnePlace
  <2>4. arg[t] \in Made
    BY <2>1, <2>2, <2>3 DEF Made
  <2> QED
    BY <2>4 DEF IInv, Accounted
<1> QED
  BY <1>1, <1>2, <1>3, Invariance, PTL DEF Spec

=============================================================================
