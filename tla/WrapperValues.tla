---------------------------- MODULE WrapperValues ----------------------------
(***************************************************************************)
(* What a client of the C++ wrapper may believe: a CompileOptions and a    *)
(* CompilationResult each hold a value of their own.  A copy is a value    *)
(* that later changes of the original do not touch; a move takes the value *)
(* and leaves the source without one; a result is what its compilation     *)
(* made of the options at the time, and outlives them.                     *)
(***************************************************************************)
CONSTANTS Options,   \* the CompileOptions objects
          Results,   \* the CompilationResult objects
          Settings,  \* the values that options can have
          Default,   \* the value of fresh options
          Absent,    \* no such object
          Null       \* an object without a value

VARIABLES value,     \* of each CompileOptions
          outcome    \* of each CompilationResult: the settings it stems from

vars == <<value, outcome>>

Init ==
  /\ value = [o \in Options |-> Absent]
  /\ outcome = [r \in Results |-> Absent]

\* What options without a value stand for.
Effective(v) == IF v = Null THEN Default ELSE v

\* An allocation may fail, which leaves the new object without a value.
Create(o) ==
  /\ value[o] = Absent
  /\ \/ \E v \in {Default, Null} : value' = [value EXCEPT ![o] = v]
     \/ \E p \in Options :
          /\ value[p] # Absent
          /\ \/ \E v \in {Effective(value[p]), Null} :
                  value' = [value EXCEPT ![o] = v]
             \/ value' = [value EXCEPT ![o] = value[p], ![p] = Null]
  /\ UNCHANGED outcome

Set(o, s) ==
  /\ value[o] \in Settings
  /\ value' = [value EXCEPT ![o] = s]
  /\ UNCHANGED outcome

Destroy(o) ==
  /\ value[o] # Absent
  /\ value' = [value EXCEPT ![o] = Absent]
  /\ UNCHANGED outcome

\* Options or none are compiled with.
CreateResult(r) ==
  /\ outcome[r] = Absent
  /\ \/ outcome' = [outcome EXCEPT ![r] = Null]
     \/ outcome' = [outcome EXCEPT ![r] = Default]
     \/ \E o \in Options :
          /\ value[o] # Absent
          /\ outcome' = [outcome EXCEPT ![r] = Effective(value[o])]
  /\ UNCHANGED value

\* A result moved to itself is lost.
MoveResult(r, q) ==
  /\ outcome[r] # Absent
  /\ outcome' = [outcome EXCEPT ![q] = outcome[r], ![r] = Null]
  /\ UNCHANGED value

DestroyResult(r) ==
  /\ outcome[r] # Absent
  /\ outcome' = [outcome EXCEPT ![r] = Absent]
  /\ UNCHANGED value

Next ==
  \/ \E o \in Options : Create(o) \/ Destroy(o) \/ \E s \in Settings : Set(o, s)
  \/ \E r \in Results :
       CreateResult(r) \/ DestroyResult(r) \/ \E q \in Results : MoveResult(r, q)

Spec == Init /\ [][Next]_vars

=============================================================================
