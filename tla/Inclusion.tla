------------------------------ MODULE Inclusion ------------------------------
(***************************************************************************)
(* How #include directives reach the client: CountingIncluder, which       *)
(* counts and serializes them, and InternalFileIncluder, which turns them  *)
(* into calls of the client's pair of callbacks.  Several threads share    *)
(* one includer.  Glslang asks for inclusions and later releases what it   *)
(* got, from any thread; the resolver and the releaser are the client's.   *)
(* Their objects are told apart: an IncludeResult is glslang's and is      *)
(* deleted by the includer, its userData is the client's include result    *)
(* and goes back to the client.                                            *)
(***************************************************************************)
EXTENDS FiniteSets, Naturals

CONSTANTS Threads,
          IncludeResults,  \* glslang's result objects
          ClientResults,   \* the client's result objects
          Null,            \* the null pointer, and the owner of a free mutex
          MaxDirectives,   \* bound on the #include directives
          Callbacks        \* the pairs of callbacks that the client may set

ASSUME InclusionAssumption ==
  /\ Null \notin Threads \cup IncludeResults \cup ClientResults
  /\ MaxDirectives \in Nat
  /\ Callbacks \subseteq [resolver : BOOLEAN, releaser : BOOLEAN]

VARIABLES
  callbacks,                \* which of resolver_, result_releaser_ are set
  num_include_directives_,
  include_mutex_,           \* its owner, or Null
  pc,                       \* what each thread does next
  arg,                      \* the IncludeResult each thread has at hand
  held,                     \* the IncludeResults that glslang holds
  userData,                 \* the client result in each IncludeResult
  client                    \* the client results not released yet

vars == <<callbacks, num_include_directives_, include_mutex_, pc, arg, held,
          userData, client>>

TypeOK ==
  /\ callbacks \in [resolver : BOOLEAN, releaser : BOOLEAN]
  /\ num_include_directives_ \in 0 .. MaxDirectives
  /\ include_mutex_ \in Threads \cup {Null}
  /\ pc \in [Threads -> {"idle", "lock", "delegate", "resolver", "unlock",
                         "releaser", "delete"}]
  /\ arg \in [Threads -> IncludeResults \cup {Null}]
  /\ held \subseteq IncludeResults
  /\ userData \in [IncludeResults -> ClientResults \cup {Null}]
  /\ client \subseteq ClientResults

AtHand == {arg[t] : t \in Threads} \ {Null}

\* The IncludeResults that exist.
Live == held \cup AtHand

AreValidCallbacks == callbacks.resolver /\ callbacks.releaser

Init ==
  /\ callbacks \in Callbacks
  /\ num_include_directives_ = 0
  /\ include_mutex_ = Null
  /\ pc = [t \in Threads |-> "idle"]
  /\ arg = [t \in Threads |-> Null]
  /\ held = {}
  /\ userData = [i \in IncludeResults |-> Null]
  /\ client = {}

-----------------------------------------------------------------------------
(* includeSystem and includeLocal, which differ only in the type that they *)
(* pass on.                                                                *)

Include(t) ==
  /\ pc[t] = "idle"
  /\ num_include_directives_ < MaxDirectives
  /\ num_include_directives_' = num_include_directives_ + 1
  /\ pc' = [pc EXCEPT ![t] = "lock"]
  /\ UNCHANGED <<callbacks, include_mutex_, arg, held, userData, client>>

\* Mutated: a read lock instead of a mutex.
LockShared(t) ==
  /\ pc[t] = "lock"
  /\ include_mutex_' = t
  /\ pc' = [pc EXCEPT ![t] = "delegate"]
  /\ UNCHANGED <<callbacks, num_include_directives_, arg, held, userData,
                 client>>

Lock(t) ==
  /\ pc[t] = "lock"
  /\ include_mutex_ = Null
  /\ include_mutex_' = t
  /\ pc' = [pc EXCEPT ![t] = "delegate"]
  /\ UNCHANGED <<callbacks, num_include_directives_, arg, held, userData,
                 client>>

\* A new IncludeResult around a client result, or around null.
NewIncludeResult(t, r) ==
  \E i \in IncludeResults \ Live :
    /\ arg' = [arg EXCEPT ![t] = i]
    /\ userData' = [userData EXCEPT ![i] = r]

\* Mutated: any resolver will do.
IncludeDelegateHalf(t) ==
  /\ pc[t] = "delegate"
  /\ IF callbacks.resolver
     THEN /\ pc' = [pc EXCEPT ![t] = "resolver"]
          /\ UNCHANGED <<arg, userData>>
     ELSE /\ NewIncludeResult(t, Null)
          /\ pc' = [pc EXCEPT ![t] = "unlock"]
  /\ UNCHANGED <<callbacks, num_include_directives_, include_mutex_, held,
                 client>>

\* Mutated: fails the inclusion with a null pointer.
IncludeDelegateNull(t) ==
  /\ pc[t] = "delegate"
  /\ pc' = [pc EXCEPT ![t] = IF AreValidCallbacks THEN "resolver" ELSE "unlock"]
  /\ UNCHANGED <<callbacks, num_include_directives_, include_mutex_, arg, held,
                 userData, client>>

\* include_delegate calls the resolver, or fails the inclusion by itself.
IncludeDelegate(t) ==
  /\ pc[t] = "delegate"
  /\ IF AreValidCallbacks
     THEN /\ pc' = [pc EXCEPT ![t] = "resolver"]
          /\ UNCHANGED <<arg, userData>>
     ELSE /\ NewIncludeResult(t, Null)
          /\ pc' = [pc EXCEPT ![t] = "unlock"]
  /\ UNCHANGED <<callbacks, num_include_directives_, include_mutex_, held,
                 client>>

\* The resolver returns a result of the client's, for an inclusion that
\* failed too.
Resolve(t) ==
  /\ pc[t] = "resolver"
  /\ \E r \in ClientResults \ client :
       /\ client' = client \cup {r}
       /\ NewIncludeResult(t, r)
  /\ pc' = [pc EXCEPT ![t] = "unlock"]
  /\ UNCHANGED <<callbacks, num_include_directives_, include_mutex_, held>>

Unlock(t) ==
  /\ pc[t] = "unlock"
  /\ include_mutex_' = Null
  /\ held' = held \cup {arg[t]}
  /\ arg' = [arg EXCEPT ![t] = Null]
  /\ pc' = [pc EXCEPT ![t] = "idle"]
  /\ UNCHANGED <<callbacks, num_include_directives_, userData, client>>

-----------------------------------------------------------------------------
(* releaseInclude, which takes no mutex.                                   *)

\* Mutated: a release is serialized like an inclusion.
ReleaseIncludeLocked(t, i) ==
  /\ pc[t] = "idle"
  /\ i \in held
  /\ include_mutex_ = Null
  /\ held' = held \ {i}
  /\ arg' = [arg EXCEPT ![t] = i]
  /\ pc' = [pc EXCEPT ![t] = IF callbacks.releaser THEN "releaser"
                             ELSE "delete"]
  /\ UNCHANGED <<callbacks, num_include_directives_, include_mutex_, userData,
                 client>>

\* Mutated: glslang's object stays in use after its release.
ReleaseIncludeKept(t, i) ==
  /\ pc[t] = "idle"
  /\ i \in held
  /\ arg' = [arg EXCEPT ![t] = i]
  /\ pc' = [pc EXCEPT ![t] = IF callbacks.releaser THEN "releaser"
                             ELSE "delete"]
  /\ UNCHANGED <<callbacks, num_include_directives_, include_mutex_, held,
                 userData, client>>

\* Mutated: deletes the IncludeResult and no more.
ReleaseIncludeLeaks(t, i) ==
  /\ pc[t] = "idle"
  /\ i \in held
  /\ held' = held \ {i}
  /\ arg' = [arg EXCEPT ![t] = i]
  /\ pc' = [pc EXCEPT ![t] = "delete"]
  /\ UNCHANGED <<callbacks, num_include_directives_, include_mutex_, userData,
                 client>>

\* release_delegate calls the releaser whenever there is one.
ReleaseInclude(t, i) ==
  /\ pc[t] = "idle"
  /\ i \in held
  /\ held' = held \ {i}
  /\ arg' = [arg EXCEPT ![t] = i]
  /\ pc' = [pc EXCEPT ![t] = IF callbacks.releaser THEN "releaser"
                             ELSE "delete"]
  /\ UNCHANGED <<callbacks, num_include_directives_, include_mutex_, userData,
                 client>>

\* The releaser has destroyed the client result.
Released(t) ==
  /\ pc[t] = "releaser"
  /\ client' = client \ {userData[arg[t]]}
  /\ pc' = [pc EXCEPT ![t] = "delete"]
  /\ UNCHANGED <<callbacks, num_include_directives_, include_mutex_, arg, held,
                 userData>>

Delete(t) ==
  /\ pc[t] = "delete"
  /\ arg' = [arg EXCEPT ![t] = Null]
  /\ pc' = [pc EXCEPT ![t] = "idle"]
  /\ UNCHANGED <<callbacks, num_include_directives_, include_mutex_, held,
                 userData, client>>

Next ==
  \E t \in Threads :
    \/ Include(t) \/ Lock(t) \/ IncludeDelegate(t) \/ Resolve(t) \/ Unlock(t)
    \/ \E i \in IncludeResults : ReleaseInclude(t, i)
    \/ Released(t) \/ Delete(t)

Spec == Init /\ [][Next]_vars

\* What is sure to happen: glslang releases what it got, and the releaser
\* returns.
FairSpec ==
  /\ Spec
  /\ \A t \in Threads : WF_vars(Released(t) \/ Delete(t))
  /\ WF_vars(\E t \in Threads, i \in IncludeResults : ReleaseInclude(t, i))

\* What the client may add: its resolver returns, and threads run.  The mutex
\* may admit its waiters in any order, as there are finitely many directives.
ResolverReturns ==
  \A t \in Threads :
    WF_vars(Lock(t) \/ IncludeDelegate(t) \/ Resolve(t) \/ Unlock(t))

-----------------------------------------------------------------------------
(* Properties.                                                             *)

\* Between lock() and unlock().
Including(t) == pc[t] \in {"delegate", "resolver", "unlock"}

\* "Inclusions are serialized": at most one thread is in the resolver or in
\* the rest of a delegate, and it owns the mutex.
InclusionsSerialized ==
  \A t \in Threads : Including(t) <=> include_mutex_ = t

\* The IncludeResults whose client result is not released.
Made == {i \in Live : /\ userData[i] # Null
                      /\ \A t \in Threads : pc[t] = "delete" => arg[t] # i}

\* Every client result that is not released is the userData of exactly one
\* IncludeResult, and an IncludeResult made from the resolver's answer has its
\* client result alive until the releaser has had it: nothing leaks, and
\* nothing is freed under glslang's feet.
ResultsAccounted ==
  /\ client = {userData[i] : i \in Made}
  /\ \A i, j \in Made : userData[i] = userData[j] => i = j

\* The releaser is called on a result that the resolver returned and that was
\* not released before: "both must remain valid until the release callback is
\* called on the result object".
ReleaserGetsResult ==
  \A t \in Threads : pc[t] = "releaser" => userData[arg[t]] \in client

\* "Releasing a previous result can occur concurrently": the client gets the
\* result of an inclusion back although some resolver may never return and
\* keep the mutex, unless every thread is itself in an inclusion.
ReleaseNeedsNoMutex ==
  \A i \in IncludeResults :
    i \in held ~> \/ userData[i] \notin client
                  \/ \A t \in Threads : pc[t] = "lock" \/ Including(t)

\* If the client's resolver returns, every directive is answered and the client
\* gets every result back that it gave.
InclusionsComplete ==
  ResolverReturns =>
    /\ \A t \in Threads : pc[t] = "lock" ~> pc[t] = "idle"
    /\ \A r \in ClientResults : r \in client ~> r \notin client

=============================================================================
