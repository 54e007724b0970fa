------------------------ MODULE OptimizationRequest -------------------------
(***************************************************************************)
(* What a client may expect of the optimisation level and of the request   *)
(* for debug information: the last level counts, -g restrains a level from *)
(* stripping, and it does not matter which of the two was asked for first. *)
(***************************************************************************)
CONSTANT Levels  \* the levels that optimise

VARIABLES level,  \* the level asked for last
          debug,  \* debug information was asked for
          passes  \* the passes that a compilation will run

vars == <<level, debug, passes>>

Wanted(l, d) ==
  IF l \notin Levels THEN {} ELSE {l} \cup (IF d THEN {} ELSE {"strip"})

Init == level = "zero" /\ debug = FALSE /\ passes = {}

RequestLevel(l) ==
  level' = l /\ passes' = Wanted(l, debug) /\ UNCHANGED debug

RequestDebug == debug' = TRUE /\ passes' = Wanted(level, TRUE) /\ UNCHANGED level

Next == RequestDebug \/ \E l \in Levels \cup {"zero"} : RequestLevel(l)

Spec == Init /\ [][Next]_vars

=============================================================================
