------------------------------ MODULE Messages ------------------------------
(***************************************************************************)
(* How PrintFilteredErrors reads one of glslang's logs: line by line, by   *)
(* the type that a line's prefix says, and for most lines by a search for  *)
(* a location "name:number: " in what follows.                             *)
(*                                                                         *)
(* A line is its prefix and the text after it.  Of the text the code tells *)
(* apart colons, digits ("d"), white space ("s") and all else ("x"), and   *)
(* the words "compilation errors." ("C").                                  *)
(***************************************************************************)
EXTENDS Naturals, FiniteSets, Sequences, Diagnostics

CONSTANT Logs       \* sequences of lines

Prefixes == {"ERROR", "WARNING", "Warning", "none", "ignored"}
Characters == {":", "d", "s", "x", "C"}

ASSUME LogsAssumption ==
  Logs \subseteq Seq([prefix : Prefixes, text : Seq(Characters)])

VARIABLES
  warnings_as_errors, suppress_warnings,
  log,               \* the lines, the first of which is being looked at
  message,           \* its text, stripped of white space
  first_colon_pos,   \* in message; 0 for npos
  next_colon_pos,
  pc,                \* "line", "first_colon", "next_colon", "located",
                     \* "global" or "done"
  total_errors, total_warnings,
  given              \* the log and the totals it started with

flags == <<warnings_as_errors, suppress_warnings>>
totals == <<total_errors, total_warnings>>
positions == <<message, first_colon_pos, next_colon_pos>>
vars == <<flags, log, positions, pc, totals, given>>

\* The positions that the loop reads lie inside the message: after the next
\* colon there are two more characters (next_colon_cutoff), and the colons do
\* not go backwards.
TypeOK ==
  /\ warnings_as_errors \in BOOLEAN /\ suppress_warnings \in BOOLEAN
  /\ \A i \in DOMAIN log : log[i].prefix \in Prefixes
  /\ first_colon_pos \in 0..Len(message)
  /\ pc = "next_colon" => /\ first_colon_pos \in 1..next_colon_pos - 1
                          /\ next_colon_pos + 1 <= Len(message)
  /\ total_errors \in Nat /\ total_warnings \in Nat

Init ==
  /\ warnings_as_errors \in BOOLEAN /\ suppress_warnings \in BOOLEAN
  /\ log \in Logs
  /\ message = <<>> /\ first_colon_pos = 0 /\ next_colon_pos = 0
  /\ pc = "line"
  /\ total_errors = 0 /\ total_warnings = 0
  /\ given = log

-----------------------------------------------------------------------------
(* Text.                                                                   *)

IsSpace(c) == c = "s"

strip_whitespace(text) ==
  LET solid == {i \in DOMAIN text : ~IsSpace(text[i])}
  IN  IF solid = {} THEN <<>>
      ELSE SubSeq(text, CHOOSE i \in solid : \A j \in solid : i <= j,
                        CHOOSE i \in solid : \A j \in solid : i >= j)

\* The first c from position from on, or 0.
find_first_of(text, c, from) ==
  LET found == {i \in from..Len(text) : text[i] = c}
  IN  IF found = {} THEN 0 ELSE CHOOSE i \in found : \A j \in found : i <= j

AllDigits(text, from, to) == \A i \in from..to : text[i] = "d"

\* Digits, perhaps none, and a space before the words.
IsSummaryMessage(text) ==
  LET space_loc == find_first_of(text, "s", 1)
  IN  /\ space_loc # 0
      /\ AllDigits(text, 1, space_loc - 1)
      /\ space_loc < Len(text) /\ text[space_loc + 1] = "C"

-----------------------------------------------------------------------------
(* One line.                                                               *)

Line == Head(log)
IsWarning(line) == line.prefix \in {"WARNING", "Warning"}

\* Mutated: an error made of a warning is not suppressed.
SuppressedUnlessErrors(line) ==
  suppress_warnings /\ ~warnings_as_errors /\ IsWarning(line)

Suppressed(line) == suppress_warnings /\ IsWarning(line)

\* The next line.
Advance == log' = Tail(log) /\ pc' = "line"

CountAs(is_error) ==
  IF is_error \/ warnings_as_errors
  THEN total_errors' = total_errors + 1 /\ UNCHANGED total_warnings
  ELSE total_warnings' = total_warnings + 1 /\ UNCHANGED total_errors

SkipLine ==
  /\ pc = "line" /\ log # <<>>
  /\ Line.prefix = "ignored" \/ Suppressed(Line)
  /\ Advance
  /\ UNCHANGED <<flags, positions, totals, given>>

\* Printed, but neither an error nor a warning.
UnknownLine ==
  /\ pc = "line" /\ log # <<>>
  /\ \/ Line.prefix = "none"
     \/ /\ Line.prefix \in {"ERROR", "WARNING"} /\ ~Suppressed(Line)
        /\ strip_whitespace(Line.text) = <<>>
  /\ Advance
  /\ UNCHANGED <<flags, positions, totals, given>>

\* "Warning" never has a location.
GlobalWarningLine ==
  /\ pc = "line" /\ log # <<>>
  /\ Line.prefix = "Warning" /\ ~Suppressed(Line)
  /\ CountAs(FALSE)
  /\ Advance
  /\ UNCHANGED <<flags, positions, given>>

\* DeduceLocationSpec gives up at once on what is too short for a location.
LookForLocation ==
  /\ pc = "line" /\ log # <<>>
  /\ Line.prefix \in {"ERROR", "WARNING"} /\ ~Suppressed(Line)
  /\ message' = strip_whitespace(Line.text) /\ message' # <<>>
  /\ IF Len(message') <= 4 THEN first_colon_pos' = 0 /\ pc' = "global"
     ELSE first_colon_pos' = find_first_of(message', ":", 1) /\ pc' = "first_colon"
  /\ next_colon_pos' = 0
  /\ UNCHANGED <<flags, log, totals, given>>

-----------------------------------------------------------------------------
(* The loop of DeduceLocationSpec.                                         *)

FirstColonCutoff == Len(message) - 3
NextColonCutoff == Len(message) - 1

\* Mutated: does not look how near to the end the colon is.
FindNextColonAnywhere ==
  /\ pc = "first_colon" /\ first_colon_pos \in 1..FirstColonCutoff
  /\ next_colon_pos' = find_first_of(message, ":", first_colon_pos + 1)
  /\ pc' = IF next_colon_pos' = 0 THEN "global" ELSE "next_colon"
  /\ UNCHANGED <<flags, log, message, first_colon_pos, totals, given>>

FindNextColon ==
  /\ pc = "first_colon" /\ first_colon_pos \in 1..FirstColonCutoff
  /\ next_colon_pos' = find_first_of(message, ":", first_colon_pos + 1)
  /\ pc' = IF next_colon_pos' \in 1..NextColonCutoff THEN "next_colon" ELSE "global"
  /\ UNCHANGED <<flags, log, message, first_colon_pos, totals, given>>

NoLocation ==
  /\ pc = "first_colon" /\ first_colon_pos \notin 1..FirstColonCutoff
  /\ pc' = "global"
  /\ UNCHANGED <<flags, log, positions, totals, given>>

EnclosesNumber ==
  /\ first_colon_pos + 1 # next_colon_pos
  /\ message[next_colon_pos + 1] = "s"
  /\ AllDigits(message, first_colon_pos + 1, next_colon_pos - 1)

\* Mutated: goes on after both colons.
TestPairOnce ==
  /\ pc = "next_colon"
  /\ IF EnclosesNumber THEN pc' = "located" /\ UNCHANGED first_colon_pos
     ELSE /\ first_colon_pos' = find_first_of(message, ":", next_colon_pos + 1)
          /\ pc' = "first_colon"
  /\ UNCHANGED <<flags, log, message, next_colon_pos, totals, given>>

TestPair ==
  /\ pc = "next_colon"
  /\ IF EnclosesNumber THEN pc' = "located" /\ UNCHANGED first_colon_pos
     ELSE first_colon_pos' = next_colon_pos /\ pc' = "first_colon"
  /\ UNCHANGED <<flags, log, message, next_colon_pos, totals, given>>

-----------------------------------------------------------------------------
(* What the line counts for.                                               *)

LocatedLine ==
  /\ pc = "located"
  /\ CountAs(Line.prefix = "ERROR")
  /\ Advance
  /\ UNCHANGED <<flags, positions, given>>

\* glslang's count of its own errors is none.
GlobalLine ==
  /\ pc = "global"
  /\ IF IsSummaryMessage(message) THEN UNCHANGED totals
     ELSE CountAs(Line.prefix = "ERROR")
  /\ Advance
  /\ UNCHANGED <<flags, positions, given>>

EndOfLog ==
  /\ pc = "line" /\ log = <<>>
  /\ pc' = "done"
  /\ UNCHANGED <<flags, log, positions, totals, given>>

Terminated == pc = "done" /\ UNCHANGED vars

Next ==
  \/ SkipLine \/ UnknownLine \/ GlobalWarningLine \/ LookForLocation
  \/ FindNextColon \/ NoLocation \/ TestPair
  \/ LocatedLine \/ GlobalLine \/ EndOfLog
  \/ Terminated

Spec == Init /\ [][Next]_vars

-----------------------------------------------------------------------------

\* "a pattern like this: colon, digits, colon, space" with text after it.
IsLocation(text, first, next) ==
  /\ first + 1 < next /\ next + 1 < Len(text)
  /\ text[first] = ":" /\ text[next] = ":" /\ text[next + 1] = "s"
  /\ AllDigits(text, first + 1, next - 1)

Locations(text) ==
  {p \in (1..Len(text)) \X (1..Len(text)) : IsLocation(text, p[1], p[2])}

\* The location is the leftmost match of the pattern, so that a name may
\* contain colons and digits, and a line without one is global.  What is left to
\* print is never empty, behind a location or without one: PrintFilteredErrors
\* asserts both (behind "Warning, " that is up to glslang).
LocationIsFirst ==
  /\ pc = "located" =>
       /\ <<first_colon_pos, next_colon_pos>> \in Locations(message)
       /\ \A p \in Locations(message) : first_colon_pos <= p[1]
  /\ pc = "global" => Locations(message) = {} /\ message # <<>>

\* A line of glslang's that is neither empty nor its own summary.
Counts(line) ==
  LET text == strip_whitespace(line.text)
  IN  \/ line.prefix = "Warning"
      \/ /\ line.prefix \in {"ERROR", "WARNING"} /\ text # <<>>
         /\ IsSummaryMessage(text) => Locations(text) # {}

Number(lines, warnings) ==
  Cardinality({i \in DOMAIN lines : Counts(lines[i])
                                    /\ (IsWarning(lines[i]) <=> warnings)})

\* The totals that Compile rests on: each error counts once, a warning as an
\* error, as a warning or not at all, and -w beats -Werror.
CountsFollowPolicy ==
  pc = "done" =>
    LET lines == [errors |-> Number(given, FALSE), warnings |-> Number(given, TRUE)]
    IN  /\ total_errors = NewErrors(lines, warnings_as_errors, suppress_warnings)
        /\ total_warnings = NewWarnings(lines, warnings_as_errors, suppress_warnings)

=============================================================================
