----------------------------- MODULE Diagnostics -----------------------------
(***************************************************************************)
(* What the lines of one of glslang's logs count for.  A log is given by   *)
(* its numbers of errors and of warnings.                                  *)
(***************************************************************************)
EXTENDS Naturals

\* -w beats -Werror.
NewErrors(log, as_errors, suppress) ==
  log.errors + IF as_errors /\ ~suppress THEN log.warnings ELSE 0

NewWarnings(log, as_errors, suppress) ==
  IF as_errors \/ suppress THEN 0 ELSE log.warnings

=============================================================================
