---------------------------- MODULE IncludeFiles ----------------------------
(***************************************************************************)
(* The files that glslc includes: FileFinder looks for a name next to the  *)
(* including file and in the directories of -I, FileIncluder reads what    *)
(* was found and remembers it, and the make rule of each input lists what  *)
(* was remembered.  Other programs change the directories meanwhile.       *)
(*                                                                         *)
(* A path is the sequence of what is between its slashes: "d/b" is         *)
(* <<"d", "b">>, "/b" is <<Empty, "b">>, "d/" is <<"d", Empty>>, and the   *)
(* empty path is <<Empty>>.                                                *)
(***************************************************************************)
EXTENDS Naturals, FiniteSets, Sequences, SequencesExt

CONSTANTS Parts,        \* what may be between slashes
          Empty,        \* nothing there
          Files,        \* paths that may be included
          Contents,     \* the directives in each file and in each input
          InputLists,   \* the inputs of a command line
          SearchPaths,  \* the directories given by -I
          MaxChanges,   \* bounds the changes of the directories
          NotFound      \* the empty string as the outcome of a search

Paths == Seq(Parts) \ {<<>>}
Types == {"relative", "standard"}
Directives == [type : Types, name : Paths]

\* The name under which glslang and the rule know an input.
ErrorFileName(input) == IF input = <<"-">> THEN <<"<stdin>">> ELSE input

ASSUME IncludeFilesAssumption ==
  /\ Empty \in Parts
  /\ Files \subseteq DOMAIN Contents /\ DOMAIN Contents \subseteq Paths
  /\ \A f \in DOMAIN Contents : Contents[f] \in Seq(Directives)
  /\ \A l \in InputLists : /\ l \in Seq(Paths)
                           /\ \A i \in DOMAIN l : ErrorFileName(l[i]) \in DOMAIN Contents
  /\ SearchPaths \subseteq Seq(Paths)
  /\ NotFound \notin Files
  /\ MaxChanges \in Nat

VARIABLES
  inputs, search_path_,  \* the command line
  readable, changes,     \* the files there are
  n,                     \* the input that is compiled
  pc,                    \* "next" between inputs, "parse" in glslang's hands,
                         \* "find" and "read" in GetInclude
  passes,                \* how often glslang still goes through the input
  stack,                 \* the including files, each with its next directive
  request,               \* the directive that GetInclude answers
  full_path,             \* of the file found
  included_files_,       \* of the includer
  texts,                 \* files whose text glslang has been given
  failed,                \* glslang has reported a failed directive
  rules                  \* the rules written, with texts and failed

commandVars == <<inputs, search_path_>>
vars == <<commandVars, readable, changes, n, pc, passes, stack, request, full_path,
          included_files_, texts, failed, rules>>

Frames == [file : DOMAIN Contents, next : Nat \ {0}]
Rules == [source : DOMAIN Contents, dependent_files : SUBSET Files,
          texts : SUBSET Files, failed : BOOLEAN]

TypeOK ==
  /\ inputs \in InputLists /\ search_path_ \in SearchPaths
  /\ readable \subseteq Files
  /\ changes \in 0..MaxChanges
  /\ n \in 1..Len(inputs) + 1 /\ (pc # "next" => n <= Len(inputs))
  /\ pc \in {"next", "parse", "find", "read"}
  /\ passes \in 0..2
  /\ stack \in Seq(Frames) /\ (pc # "next" => stack # <<>>)
  /\ pc \in {"find", "read"} => request \in Directives
  /\ pc = "read" => full_path \in Files
  /\ included_files_ \subseteq Files /\ texts \subseteq Files
  /\ failed \in BOOLEAN
  /\ rules \in Seq(Rules) /\ Len(rules) < n

Init ==
  /\ inputs \in InputLists /\ search_path_ \in SearchPaths
  /\ readable \in SUBSET Files /\ changes = 0
  /\ n = 1 /\ pc = "next" /\ passes = 0
  /\ stack = <<>> /\ request = NotFound /\ full_path = NotFound
  /\ included_files_ = {} /\ texts = {} /\ failed = FALSE
  /\ rules = <<>>

-----------------------------------------------------------------------------
(* FileFinder.                                                             *)

\* A prefix followed by a name, with a slash put in between (MaybeSlash)
\* unless the prefix is empty or ends in one.
Prefixed(prefix, name) ==
  IF Last(prefix) = Empty THEN Front(prefix) \o name ELSE prefix \o name

\* What is before the last slash; nothing if there is none.  Of a file in the
\* root directory that is nothing, too.
DirName(requesting) == IF Len(requesting) = 1 THEN <<Empty>> ELSE Front(requesting)

Hits(paths) == {i \in DOMAIN paths : paths[i] \in readable}

FirstHit(paths) ==
  IF Hits(paths) = {} THEN NotFound ELSE paths[Min(Hits(paths))]

InSearchPath(name) ==
  [i \in DOMAIN search_path_ |-> Prefixed(search_path_[i], name)]

FindReadableFilepath(name) == FirstHit(InSearchPath(name))

\* Mutated: the search path goes first.
FindRelativeLast(requesting, name) ==
  FirstHit(InSearchPath(name) \o <<Prefixed(DirName(requesting), name)>>)

FindRelativeReadableFilepath(requesting, name) ==
  FirstHit(<<Prefixed(DirName(requesting), name)>> \o InSearchPath(name))

-----------------------------------------------------------------------------
(* CompileShaderFile.                                                      *)

\* Each input gets an includer of its own.  glslang goes through an input whose
\* stage must be deduced twice, through the others once.
StartInput ==
  /\ pc = "next" /\ n <= Len(inputs)
  /\ passes' \in 1..2
  /\ stack' = <<[file |-> ErrorFileName(inputs[n]), next |-> 1]>>
  /\ included_files_' = {}
  /\ texts' = {} /\ failed' = FALSE
  /\ pc' = "parse"
  /\ UNCHANGED <<commandVars, readable, changes, n, request, full_path, rules>>

\* The input cannot be read.
SkipInput ==
  /\ pc = "next" /\ n <= Len(inputs)
  /\ n' = n + 1
  /\ UNCHANGED <<commandVars, readable, changes, pc, passes, stack, request,
                 full_path, included_files_, texts, failed, rules>>

-----------------------------------------------------------------------------
(* glslang, and GetInclude that it calls.                                  *)

Top == Last(stack)

Directive ==
  /\ pc = "parse" /\ Top.next <= Len(Contents[Top.file])
  /\ request' = Contents[Top.file][Top.next]
  /\ stack' = [stack EXCEPT ![Len(stack)].next = @ + 1]
  /\ pc' = "find"
  /\ UNCHANGED <<commandVars, readable, changes, n, passes, full_path,
                 included_files_, texts, failed, rules>>

\* glslang asks for a file that was not found beside the including one once
\* more, then as for one in angle brackets; a directive that fails is an error
\* after which it goes on.
ErrorResult ==
  IF request.type = "relative"
  THEN /\ request' = [request EXCEPT !.type = "standard"]
       /\ pc' = "find" /\ UNCHANGED failed
  ELSE failed' = TRUE /\ pc' = "parse" /\ UNCHANGED request

Found == IF request.type = "relative"
         THEN FindRelativeReadableFilepath(Top.file, request.name)
         ELSE FindReadableFilepath(request.name)

\* Mutated: does not look whether something was found.
FindUnchecked ==
  /\ pc = "find"
  /\ full_path' = Found
  /\ pc' = "read"
  /\ UNCHANGED <<commandVars, readable, changes, n, passes, stack, request,
                 included_files_, texts, failed, rules>>

Find ==
  /\ pc = "find"
  /\ full_path' = Found
  /\ IF Found = NotFound THEN ErrorResult
     ELSE pc' = "read" /\ UNCHANGED <<request, failed>>
  /\ UNCHANGED <<commandVars, readable, changes, n, passes, stack, included_files_,
                 texts, rules>>

\* Mutated: remembers the file before it is read.
ReadLate ==
  /\ pc = "read"
  /\ included_files_' = included_files_ \cup {full_path}
  /\ IF full_path \in readable
     THEN /\ texts' = texts \cup {full_path}
          /\ stack' = Append(stack, [file |-> full_path, next |-> 1])
          /\ pc' = "parse" /\ UNCHANGED <<request, failed>>
     ELSE ErrorResult /\ UNCHANGED <<texts, stack>>
  /\ UNCHANGED <<commandVars, readable, changes, n, passes, full_path, rules>>

\* The file may be gone again.
Read ==
  /\ pc = "read"
  /\ IF full_path \in readable
     THEN /\ included_files_' = included_files_ \cup {full_path}
          /\ texts' = texts \cup {full_path}
          /\ stack' = Append(stack, [file |-> full_path, next |-> 1])
          /\ pc' = "parse" /\ UNCHANGED <<request, failed>>
     ELSE ErrorResult /\ UNCHANGED <<included_files_, texts, stack>>
  /\ UNCHANGED <<commandVars, readable, changes, n, passes, full_path, rules>>

AtEnd == pc = "parse" /\ Top.next > Len(Contents[Top.file])

\* ReleaseInclude.
EndOfInclude ==
  /\ AtEnd /\ Len(stack) > 1
  /\ stack' = Front(stack)
  /\ UNCHANGED <<commandVars, readable, changes, n, pc, passes, request, full_path,
                 included_files_, texts, failed, rules>>

\* After preprocessing without an error the input is parsed.
ParseAgain ==
  /\ AtEnd /\ Len(stack) = 1 /\ passes = 2 /\ ~failed
  /\ passes' = 1
  /\ stack' = <<[Top EXCEPT !.next = 1]>>
  /\ UNCHANGED <<commandVars, readable, changes, n, pc, request, full_path,
                 included_files_, texts, failed, rules>>

\* After preprocessing, no stage is found: the input ends before its rule.
NoStageFound ==
  /\ AtEnd /\ Len(stack) = 1 /\ passes = 2 /\ ~failed
  /\ n' = n + 1 /\ pc' = "next" /\ passes' = 0 /\ stack' = <<>>
  /\ UNCHANGED <<commandVars, readable, changes, request, full_path,
                 included_files_, texts, failed, rules>>

\* DumpDependencyInfo, which writes the rule of a failed input, too.
DumpDependencyInfo ==
  /\ AtEnd /\ Len(stack) = 1 /\ (passes = 1 \/ failed)
  /\ rules' = Append(rules, [source |-> Top.file, dependent_files |-> included_files_,
                             texts |-> texts, failed |-> failed])
  /\ n' = n + 1 /\ pc' = "next" /\ passes' = 0 /\ stack' = <<>>
  /\ UNCHANGED <<commandVars, readable, changes, request, full_path,
                 included_files_, texts, failed>>

\* Some other program creates or removes a file.
Change ==
  /\ changes < MaxChanges
  /\ changes' = changes + 1
  /\ \E f \in Files : readable' = IF f \in readable THEN readable \ {f}
                                  ELSE readable \cup {f}
  /\ UNCHANGED <<commandVars, n, pc, passes, stack, request, full_path,
                 included_files_, texts, failed, rules>>

Terminated == pc = "next" /\ n > Len(inputs) /\ UNCHANGED vars

Next ==
  \/ StartInput \/ SkipInput \/ Directive \/ Find \/ Read
  \/ EndOfInclude \/ ParseAgain \/ NoStageFound \/ DumpDependencyInfo
  \/ Change \/ Terminated

Spec == Init /\ [][Next]_vars

-----------------------------------------------------------------------------
(* What the documentation says of a directive: the file is "matched first  *)
(* against the including file's own directory and then against all -I      *)
(* arguments in order".                                                    *)

\* A file in the root directory has that as its directory, where DirName has
\* none.
OwnDirectory(file) ==
  CASE Len(file) = 1 -> <<Empty>>
    [] Len(file) = 2 /\ file[1] = Empty -> <<Empty, Empty>>
    [] OTHER -> Front(file)

Searched(file, d) ==
  IF d.type = "relative" THEN <<OwnDirectory(file)>> \o search_path_
  ELSE search_path_

Resolves(file, d, p) ==
  LET match(i) == Prefixed(Searched(file, d)[i], d.name)
  IN  /\ p \in readable
      /\ \E i \in DOMAIN Searched(file, d) :
           p = match(i) /\ \A j \in 1..i - 1 : match(j) \notin readable

Includes(file) == {p \in readable : \E d \in ToSet(Contents[file]) : Resolves(file, d, p)}

Unresolved(file) ==
  \E d \in ToSet(Contents[file]) : \A p \in readable : ~ Resolves(file, d, p)

\* All that is included from source or from another of them.
Closed(S, source) == \A f \in S \cup {source} : Includes(f) \subseteq S

\* The files included from source, directly or by others in between: those
\* that no such set leaves out.
Reached(source) ==
  {p \in readable : \A S \in SUBSET readable : Closed(S, source) => p \in S}

\* While the directories stay as they are, each rule lists exactly the files
\* that the documented search reaches from its input, whichever inputs were
\* compiled before it, and an input fails exactly if that search misses
\* something.  Not so if a file in the root directory is among them, next to
\* which nothing is looked for (DirName).
RuleIsComplete ==
  changes = 0 =>
    \A r \in ToSet(rules) :
      LET reached == Reached(r.source)
          all == reached \cup {r.source}
      IN  (\A f \in all : OwnDirectory(f) = DirName(f)) =>
            /\ r.dependent_files = reached
            /\ r.failed <=> \E f \in all : Unresolved(f)

\* Whatever other programs do, between the search for a file and its reading or
\* between the two passes over an input, a rule lists every file whose text went
\* into the compilation and no other (the insertion after ReadFile).
RuleCoversTexts == \A r \in ToSet(rules) : r.dependent_files = r.texts

=============================================================================
