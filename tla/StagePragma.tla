---------------------------- MODULE StagePragma ----------------------------
(***************************************************************************)
(* How the stage of a shader is found in its source: glslang preprocesses  *)
(* the source behind an injected preamble, CleanupPreamble takes the       *)
(* preamble out again, and GetShaderStageFromSourceCode walks over the     *)
(* lines that are left, keeping the file name and line number that the     *)
(* #line directives give them, and collects the stage pragmas.             *)
(*                                                                         *)
(* A line of text is its kind with what the walk reads of it.  Operators   *)
(* that Compile has too are named after the pragmas here, so that a module *)
(* can extend both.                                                        *)
(***************************************************************************)
EXTENDS Naturals, FiniteSets, SequencesExt

CONSTANTS Lines,           \* the lines that a source is made of
          MaxLines,        \* bound on their number
          Forced,          \* versions with profiles that a client forces
          MaxMacros        \* bound on the macros defined by the client

LineKinds == {"blank", "code", "directive", "version", "line", "stage"}

ASSUME StagePragmaAssumption ==
  /\ \A l \in Lines : l.kind \in LineKinds /\ l.number \in Nat
  /\ \A f \in Forced : f.version \in Nat
  /\ MaxLines \in Nat /\ MaxMacros \in Nat

Line(kind, number, text) == [kind |-> kind, number |-> number, text |-> text]

\* A #version line has the version and the profile ("" is ENoProfile).
VersionProfile(version, profile) == [version |-> version, profile |-> profile]
NotForced == VersionProfile(0, "")
DefaultVersion == VersionProfile(110, "")   \* default_version_ and default_profile_

Blank == Line("blank", 0, "")
ErrorTag == "tag"

\* The preamble's last line; the client's macros are blank when preprocessed.
PoundExtension == Line("directive", 0, "include extension")

VARIABLES
  source,                 \* the source, without the text that it includes
  num_include_directives,
  forced,                 \* what SetForcedVersionProfile was given, or NotForced
  lines,                  \* the preprocessed text
  phase,                  \* "cleanup", then "scan", then "done"
  i,                      \* the line that is looked at
  at,                     \* its file name and logical line number
  stages,                 \* the pragmas found: name, number, stage
  first,                  \* physical lines of the first pragma and the first code
  verdict                 \* the stage found, or none, and the errors

pragmaVars == <<source, num_include_directives, forced, lines, phase, i, at,
                stages, first, verdict>>

None == "none"
MapStageNameToLanguage(stage) ==
  IF stage \in {"vertex", "fragment", "tesscontrol", "tesseval", "geometry",
                "compute", "raygen", "intersect", "anyhit", "closest", "miss",
                "callable", "task", "mesh"}
  THEN stage ELSE None

Values == {l.text : l \in Lines}
Names == Values \cup {ErrorTag}

PragmaTypeOK ==
  /\ source \in Seq(Lines) /\ Len(source) <= MaxLines
  /\ num_include_directives \in {0, 1} /\ forced \in Forced
  /\ lines \in Seq(Lines \cup {Blank, PoundExtension,
                               Line("line", 0, ErrorTag), Line("line", 1, ErrorTag)})
  /\ phase \in {"cleanup", "scan", "done"}
  /\ i \in 1 .. Len(lines) + 1
  /\ at \in [name : Names, number : Nat]
  /\ stages \in Seq([name : Names, number : Nat, stage : Values])
  /\ first \in [pragma : 1 .. Len(lines) + 1, code : 1 .. Len(lines) + 1]
  /\ verdict \in [stage : Values \cup {None}, errors : 0 .. Len(stages) + 1]

\* glslang takes a #version only where nothing but blank lines is before it.
Preprocessable(s) ==
  \A k \in DOMAIN s : s[k].kind = "version" =>
    \A j \in 1 .. k - 1 : s[j].kind = "blank"

PragmaInit ==
  /\ source \in {s \in BoundedSeq(Lines, MaxLines) : Preprocessable(s)}
  /\ num_include_directives \in {0, 1}
  /\ forced \in Forced
  /\ \E macros \in 0 .. MaxMacros :
       lines = [k \in 1 .. macros |-> Blank] \o <<PoundExtension>> \o source
  /\ phase = "cleanup"
  /\ i = 1
  /\ at = [name |-> ErrorTag, number |-> 1]
  /\ stages = <<>>
  /\ first = [pragma |-> Len(lines) + 1, code |-> Len(lines) + 1]
  /\ verdict = [stage |-> None, errors |-> 0]

-----------------------------------------------------------------------------
\* What text has at some of its places, in their order.
Selected(text, places) ==
  [m \in 1 .. Cardinality(places) |->
     text[CHOOSE k \in places : Cardinality({j \in places : j <= k}) = m]]

IsVersion(l) == l.kind = "version"

\* The number is 0 if it is not a known version or the profile is not known.
ParseVersionProfile(l) ==
  IF l.number = 0 THEN DefaultVersion ELSE VersionProfile(l.number, l.text)

\* GetVersionProfileFromSourceCode finds the first #version.
DeduceVersionProfile(text) ==
  CASE forced # NotForced -> forced
    [] forced = NotForced /\ SelectInSeq(text, IsVersion) # 0
         -> ParseVersionProfile(text[SelectInSeq(text, IsVersion)])
    [] OTHER -> DefaultVersion

LineDirectiveIsForNextLine(v) == v.profile = "es" \/ v.version >= 330

\* The text without the preamble's traces.  Only with inclusions is the
\* extension of any use; it then follows #version, which goes first.
CleanupPreamble(text) ==
  LET extension == SelectInSeq(text, LAMBDA l : l = PoundExtension)
      version == SelectInSeq(text, IsVersion)
      before == Selected(text, {k \in 1 .. extension - 1 : text[k].kind # "blank"})
      after == SubSeq(text, extension + 1, Len(text))
      next == LineDirectiveIsForNextLine(DeduceVersionProfile(text))
      tag == Line("line", IF next THEN 1 ELSE 0, ErrorTag)
  IN  IF num_include_directives = 0 THEN before \o after
      ELSE (IF version = 0 THEN <<>> ELSE <<text[version]>>)
           \o before \o <<PoundExtension, tag>>
           \o (IF version = 0 THEN after
               ELSE [after EXCEPT ![version - extension] = Blank])

Cleanup ==
  /\ phase = "cleanup"
  /\ lines' = CleanupPreamble(lines)
  /\ first' = [pragma |-> Len(lines') + 1, code |-> Len(lines') + 1]
  /\ phase' = "scan"
  /\ UNCHANGED <<source, num_include_directives, forced, i, at, stages, verdict>>

\* Mutated: #line always numbers the next line.
FollowingNew(a, l) ==
  IF l.kind = "line"
  THEN [name |-> IF l.text = "" THEN a.name ELSE l.text, number |-> l.number]
  ELSE [a EXCEPT !.number = @ + 1]

\* Where the line after l is, if l is at the location a.
Following(a, l) ==
  IF l.kind = "line"
  THEN [name |-> IF l.text = "" THEN a.name ELSE l.text,
        number |-> IF LineDirectiveIsForNextLine(DeduceVersionProfile(lines))
                   THEN l.number ELSE l.number + 1]
  ELSE [a EXCEPT !.number = @ + 1]

Least(m, n) == IF m <= n THEN m ELSE n

\* Mutated: the line after a #line is taken with it.
ScanTwo ==
  /\ phase = "scan" /\ i <= Len(lines)
  /\ at' = Following(at, lines[i])
  /\ i' = IF lines[i].kind = "line" THEN i + 2 ELSE i + 1
  /\ UNCHANGED <<source, num_include_directives, forced, lines, phase, stages,
                 first, verdict>>

ScanLine ==
  /\ phase = "scan" /\ i <= Len(lines)
  /\ stages' = IF lines[i].kind = "stage"
               THEN Append(stages, [name |-> at.name, number |-> at.number,
                                    stage |-> lines[i].text])
               ELSE stages
  /\ first' = CASE lines[i].kind = "stage" -> [first EXCEPT !.pragma = Least(@, i)]
                [] lines[i].kind = "code" -> [first EXCEPT !.code = Least(@, i)]
                [] OTHER -> first
  /\ at' = Following(at, lines[i])
  /\ i' = i + 1
  /\ UNCHANGED <<source, num_include_directives, forced, lines, phase, verdict>>

\* Mutated: looks at the first pragma alone.
ErrorsInFirst(s, f) ==
  (IF f.pragma > f.code THEN 1 ELSE 0)
  + (IF MapStageNameToLanguage(s[1].stage) = None THEN 1 ELSE 0)

\* One message for a pragma behind code, one for an unknown stage, and one for
\* each pragma that disagrees with the first.
ErrorsIn(s, f) ==
  (IF f.pragma > f.code THEN 1 ELSE 0)
  + (IF MapStageNameToLanguage(s[1].stage) = None THEN 1 ELSE 0)
  + Cardinality({k \in 2 .. Len(s) : s[k].stage # s[1].stage})

Conclude ==
  /\ phase = "scan" /\ i > Len(lines)
  /\ verdict' = IF stages = <<>> THEN verdict
                ELSE LET errors == ErrorsIn(stages, first)
                     IN  [errors |-> errors,
                          stage |-> IF errors = 0
                                    THEN MapStageNameToLanguage(stages[1].stage)
                                    ELSE None]
  /\ phase' = "done"
  /\ UNCHANGED <<source, num_include_directives, forced, lines, i, at, stages,
                 first>>

PragmaDone == phase = "done" /\ UNCHANGED pragmaVars

PragmaNext == Cleanup \/ ScanLine \/ Conclude \/ PragmaDone

PragmaSpec == PragmaInit /\ [][PragmaNext]_pragmaVars

-----------------------------------------------------------------------------
(* Properties.                                                             *)

Places(kind) == {k \in DOMAIN source : source[k].kind = kind}

\* The version and profile that the source is compiled as.
Version ==
  CASE forced # NotForced -> forced
    [] forced = NotForced /\ Places("version") # {} ->
         ParseVersionProfile(source[CHOOSE k \in Places("version") : TRUE])
    [] OTHER -> DefaultVersion

\* In GLSL before 3.30 the number is that of the #line itself; since, and in
\* ES, that of the line behind it.
NumbersNextLine == Version.profile = "es" \/ Version.version >= 330

\* Where line k of the source is as its author counts: the line before
\* gives it, or the last #line before it.
LocationInSource(k) ==
  LET marks == {j \in Places("line") : j < k}
      names == {j \in marks : source[j].text # ""}
  IN  [name |-> IF names = {} THEN ErrorTag ELSE source[Max(names)].text,
       number |-> IF marks = {} THEN k
                  ELSE source[Max(marks)].number + (k - Max(marks))
                       - (IF NumbersNextLine THEN 1 ELSE 0)]

\* What is to be reported of a pragma on line k.
Pragma(k) == [name |-> LocationInSource(k).name, number |-> LocationInSource(k).number,
              stage |-> source[k].text]

\* The pragmas are found where the author wrote them, whether or not the text
\* had its preamble removed, its #version moved and a #line put in
\* (CleanupPreamble and the walk agree on the meaning of #line), and #version is
\* where the compiler accepts it when it reads the text again.
PragmasKeepTheirPlace ==
  /\ phase = "done" =>
       stages = Selected([k \in DOMAIN source |-> Pragma(k)], Places("stage"))
  /\ phase # "cleanup" => Preprocessable(lines)

\* A stage is found exactly if there are pragmas, all of one known stage, the
\* first before any code; otherwise there are errors, or no pragma at all.
\* (glslc/README.asciidoc, Shader stage specification.)
StageIsUnanimous ==
  LET pragmas == Places("stage")
      agreed == /\ \A j, k \in pragmas : source[j].text = source[k].text
                /\ \A k \in pragmas : MapStageNameToLanguage(source[k].text) # None
                /\ \E k \in pragmas : \A j \in Places("code") : k < j
  IN  phase = "done" =>
        /\ verdict.stage # None <=> pragmas # {} /\ agreed
        /\ verdict.errors > 0 <=> pragmas # {} /\ ~agreed
        /\ verdict.stage # None =>
             \A k \in pragmas : verdict.stage = MapStageNameToLanguage(source[k].text)

=============================================================================
