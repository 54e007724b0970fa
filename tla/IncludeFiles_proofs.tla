------------------------ MODULE IncludeFiles_proofs ------------------------
(***************************************************************************)
(* Proofs about IncludeFiles: types, and that the make rule of an input    *)
(* lists what was included and, while the directories stay as they are,    *)
(* what the documented search reaches.                                     *)
(*                                                                         *)
(* A directive is settled once the file that it resolves to is remembered, *)
(* or once it failed if it resolves to none.  While glslang goes through   *)
(* an input, the directives that it has passed are settled, in every file  *)
(* on its stack, and all directives of the other files remembered are.  So *)
(* at the end of the input the files remembered are closed under           *)
(* inclusion; and each of them was included from one that is reached.      *)
(***************************************************************************)
EXTENDS IncludeFiles, SequenceTheorems, WellFoundedInduction, TLAPS

Missed(f, d) == \A p \in readable : ~ Resolves(f, d, p)

Settled(f, i) ==
  /\ \A p \in readable : Resolves(f, Contents[f][i], p) => p \in included_files_
  /\ Missed(f, Contents[f][i]) => failed

SettledUpTo(f, k) == \A j \in DOMAIN Contents[f] : j <= k => Settled(f, j)

\* Next to a file in the root directory nothing is looked for.
Rooted(source) ==
  \A f \in Reached(source) \cup {source} : OwnDirectory(f) = DirName(f)

Processed(source) == included_files_ \cup {source}

\* The directives that are answered in the i-th file on the stack.
Answering == pc \in {"find", "read"}
Passed(i) == IF Answering /\ i = Len(stack) THEN stack[i].next - 2 ELSE stack[i].next - 1

StackIsSettled(source) ==
  \A i \in DOMAIN stack, f \in DOMAIN Contents :
    f = stack[i].file =>
      /\ f \in Processed(source)
      /\ \A j \in DOMAIN Contents[f] : j <= Passed(i) => Settled(f, j)

RestIsSettled ==
  \A f \in included_files_ :
    SettledUpTo(f, Len(Contents[f])) \/ \E i \in DOMAIN stack : stack[i].file = f

\* The request is the directive's, or once more after nothing was found.
RequestIsDirective ==
  \E f \in DOMAIN Contents : \E k \in DOMAIN Contents[f] :
    LET d == Contents[f][k]
    IN  /\ f = Top.file /\ k = Top.next - 1 /\ request.name = d.name
        /\ \/ request.type = d.type
           \/ request.type = "standard" /\ d.type = "relative" /\ Missed(f, d)
        /\ pc = "read" => \E p \in readable : p = full_path /\ Resolves(f, d, p)

\* How far glslang is with an input.
Progress(source) ==
  /\ StackIsSettled(source)
  /\ RestIsSettled
  /\ included_files_ \subseteq Reached(source)
  /\ failed => \E f \in Processed(source) : Unresolved(f)
  /\ Answering => RequestIsDirective

ProgressSoFar ==
  changes = 0 /\ pc # "next" =>
    \A source \in DOMAIN Contents :
      source = stack[1].file /\ Rooted(source) => Progress(source)

IInv == TypeOK /\ included_files_ = texts /\ RuleCoversTexts
        /\ ProgressSoFar /\ RuleIsComplete

-----------------------------------------------------------------------------
(* Searches and types.                                                     *)

\* A nonempty set of naturals has a least element: where a search stops.
LEMMA LeastExists ==
  ASSUME NEW S \in SUBSET Nat, S # {}
  PROVE  \E i \in S : \A j \in S : i <= j
<1>1. \E i \in S : \A j \in S : ~ (<<j, i>> \in OpToRel(<, Nat))
  BY NatLessThanWellFounded, WFMin
<1>2. \A i, j \in Nat : j < i => <<j, i>> \in OpToRel(<, Nat)
  BY DEF OpToRel
<1>3. PICK i \in S : \A j \in S : ~ (<<j, i>> \in OpToRel(<, Nat))
  BY <1>1
<1>4. \A j \in S : ~ (j < i)
  BY <1>2, <1>3
<1> QED BY <1>4

\* A search finds the first readable path, if there is one.
LEMMA FirstHitIsFirst ==
  ASSUME NEW paths, NEW k \in Nat, DOMAIN paths = 1..k
  PROVE  \/ /\ FirstHit(paths) = NotFound
            /\ \A i \in 1..k : paths[i] \notin readable
         \/ \E i \in 1..k : /\ FirstHit(paths) = paths[i] /\ paths[i] \in readable
                            /\ \A j \in 1..i - 1 : paths[j] \notin readable
<1>1. CASE Hits(paths) = {}
  BY <1>1 DEF Hits, FirstHit
<1>2. CASE Hits(paths) # {}
  <2>1. Hits(paths) \in SUBSET Nat
    BY DEF Hits
  <2>2. \E i \in Hits(paths) : \A j \in Hits(paths) : i <= j
    BY <1>2, <2>1, LeastExists
  <2>3. /\ Min(Hits(paths)) \in Hits(paths)
        /\ \A j \in Hits(paths) : Min(Hits(paths)) <= j
    BY <2>2 DEF Min
  <2>4. PICK i \in Hits(paths) : i = Min(Hits(paths)) /\ \A j \in Hits(paths) : i <= j
    BY <2>3
  <2>5. i \in 1..k /\ paths[i] \in readable /\ FirstHit(paths) = paths[i]
    BY <1>2, <2>4 DEF Hits, FirstHit
  <2>6. \A j \in 1..i - 1 : j \in 1..k /\ ~ (i <= j)
    BY <2>5
  <2>7. \A j \in 1..i - 1 : paths[j] \notin readable
    BY <2>4, <2>6 DEF Hits
  <2>8. QED
    BY <2>5, <2>7
<1>3. QED
  BY <1>1, <1>2

LEMMA SearchedPaths ==
  ASSUME TypeOK, NEW file, NEW name
  PROVE  /\ Len(search_path_) \in Nat
         /\ DOMAIN InSearchPath(name) = 1..Len(search_path_)
         /\ Len(InSearchPath(name)) = Len(search_path_)
         /\ InSearchPath(name) \in Seq({Prefixed(search_path_[i], name) : i \in DOMAIN search_path_})
<1>1. search_path_ \in Seq(Paths)
  BY IncludeFilesAssumption DEF TypeOK
<1>2. QED
  BY <1>1 DEF InSearchPath

LEMMA RelativePaths ==
  ASSUME NEW S, NEW p \in S, NEW s \in Seq(S)
  PROVE  /\ Len(s) \in Nat /\ DOMAIN (<<p>> \o s) = 1..Len(s) + 1
         /\ (<<p>> \o s)[1] = p
         /\ \A i \in 1..Len(s) : (<<p>> \o s)[i + 1] = s[i]
OBVIOUS

\* What is found can be read.
LEMMA FoundIsReadable ==
  ASSUME TypeOK
  PROVE  Found = NotFound \/ Found \in readable
<1> DEFINE name == request.name
           own == Prefixed(DirName(Top.file), name)
           s == InSearchPath(name)
<1>1. /\ Len(search_path_) \in Nat /\ DOMAIN s = 1..Len(search_path_)
      /\ Len(s) = Len(search_path_)
      /\ s \in Seq({Prefixed(search_path_[i], name) : i \in DOMAIN search_path_})
  BY SearchedPaths
<1>2. CASE request.type # "relative"
  <2>1. Found = FirstHit(s)
    BY <1>2 DEF Found, FindReadableFilepath
  <2>2. QED
    BY <1>1, <2>1, FirstHitIsFirst
<1>3. CASE request.type = "relative"
  <2>1. Found = FirstHit(<<own>> \o s)
    BY <1>3 DEF Found, FindRelativeReadableFilepath
  <2>2. s \in Seq({own} \cup {Prefixed(search_path_[i], name) : i \in DOMAIN search_path_})
    BY <1>1
  <2> HIDE DEF own, s
  <2>3. DOMAIN (<<own>> \o s) = 1..Len(s) + 1 /\ Len(s) + 1 \in Nat
    BY <1>1, <2>2, RelativePaths
  <2>4. QED
    BY <2>1, <2>3, FirstHitIsFirst
<1>4. QED
  BY <1>2, <1>3

LEMMA SourceTypes ==
  ASSUME NEW l \in InputLists, NEW i \in 1..Len(l)
  PROVE  ErrorFileName(l[i]) \in DOMAIN Contents
BY IncludeFilesAssumption

LEMMA TypeInit == Init => TypeOK
<1> SUFFICES ASSUME Init PROVE TypeOK
  OBVIOUS
<1>1. Len(inputs) \in Nat
  BY IncludeFilesAssumption DEF Init
<1>2. /\ stack \in Seq(Frames) /\ rules \in Seq(Rules) /\ Len(rules) = 0
      /\ n = 1 /\ pc = "next" /\ readable \subseteq Files
  BY DEF Init
<1>3. changes \in 0..MaxChanges /\ n \in 1..Len(inputs) + 1 /\ Len(rules) < n
  BY <1>1, <1>2, IncludeFilesAssumption DEF Init
<1>4. included_files_ \subseteq Files /\ texts \subseteq Files /\ failed \in BOOLEAN
  BY Zenon DEF Init
<1>5. QED
  BY <1>2, <1>3, <1>4 DEF Init, TypeOK

\* What the stack holds, and what is pushed and popped.
LEMMA StackTypes ==
  ASSUME TypeOK
  PROVE  /\ stack \in Seq(Frames) /\ Len(stack) \in Nat
         /\ DOMAIN stack = 1..Len(stack)
         /\ \A i \in DOMAIN stack :
              stack[i].file \in DOMAIN Contents /\ stack[i].next \in Nat \ {0}
         /\ pc # "next" => Len(stack) \in DOMAIN stack /\ 1 \in DOMAIN stack
                           /\ Top = stack[Len(stack)]
<1>1. stack \in Seq(Frames) /\ (pc # "next" => stack # <<>>)
  BY DEF TypeOK
<1>2. /\ Len(stack) \in Nat /\ DOMAIN stack = 1..Len(stack)
      /\ \A i \in DOMAIN stack : stack[i] \in Frames
      /\ stack # <<>> => Len(stack) \in DOMAIN stack /\ 1 \in DOMAIN stack
  BY <1>1
<1>3. \A i \in DOMAIN stack :
        stack[i].file \in DOMAIN Contents /\ stack[i].next \in Nat \ {0}
  BY <1>2 DEF Frames
<1>4. QED
  BY <1>1, <1>2, <1>3 DEF Top, Last

LEMMA Passing ==
  ASSUME TypeOK, Directive
  PROVE  /\ stack' \in Seq(Frames) /\ Len(stack') = Len(stack)
         /\ DOMAIN stack' = DOMAIN stack
         /\ \A i \in DOMAIN stack : i # Len(stack) => stack'[i] = stack[i]
         /\ stack'[Len(stack)] = [file |-> Top.file, next |-> Top.next + 1]
<1>1. pc = "parse" /\ stack' = [stack EXCEPT ![Len(stack)].next = @ + 1]
  BY DEF Directive
<1>2. /\ stack \in Seq(Frames) /\ Len(stack) \in DOMAIN stack
      /\ Top = stack[Len(stack)] /\ Top \in Frames
  BY <1>1, StackTypes DEF TypeOK
<1>3. [Top EXCEPT !.next = @ + 1] = [file |-> Top.file, next |-> Top.next + 1]
  BY <1>2 DEF Frames
<1>4. [file |-> Top.file, next |-> Top.next + 1] \in Frames
  BY <1>2 DEF Frames
<1>5. stack' = [stack EXCEPT ![Len(stack)] = [file |-> Top.file, next |-> Top.next + 1]]
  BY <1>1, <1>2, <1>3
<1>6. QED
  BY <1>2, <1>4, <1>5

LEMMA Pushing ==
  ASSUME TypeOK, NEW f \in DOMAIN Contents, stack' = Append(stack, [file |-> f, next |-> 1])
  PROVE  /\ stack' \in Seq(Frames) /\ Len(stack') = Len(stack) + 1
         /\ DOMAIN stack' = 1..Len(stack) + 1
         /\ \A i \in DOMAIN stack : stack'[i] = stack[i]
         /\ stack'[Len(stack) + 1] = [file |-> f, next |-> 1]
<1>1. [file |-> f, next |-> 1] \in Frames
  BY DEF Frames
<1>2. stack \in Seq(Frames)
  BY DEF TypeOK
<1>3. QED
  BY <1>1, <1>2

LEMMA Popping ==
  ASSUME TypeOK, Len(stack) > 1, stack' = Front(stack)
  PROVE  /\ stack' \in Seq(Frames) /\ Len(stack') = Len(stack) - 1
         /\ DOMAIN stack' = 1..Len(stack) - 1 /\ stack' # <<>>
         /\ \A i \in DOMAIN stack' : i \in DOMAIN stack /\ stack'[i] = stack[i]
<1>1. stack \in Seq(Frames)
  BY DEF TypeOK
<1>2. stack' = SubSeq(stack, 1, Len(stack) - 1)
  BY DEF Front
<1>3. Len(stack) \in Nat /\ Len(stack) - 1 \in 1..Len(stack)
  BY <1>1
<1>4. /\ stack' \in Seq(Frames) /\ Len(stack') = Len(stack) - 1
      /\ \A i \in 1..Len(stack) - 1 : stack'[i] = stack[i]
  BY <1>1, <1>2, <1>3, SubSeqProperties
<1>5. QED
  BY <1>1, <1>3, <1>4

LEMMA TypeStep ==
  ASSUME TypeOK, [Next]_vars
  PROVE  TypeOK'
<1>1. CASE StartInput
  <2>1. ErrorFileName(inputs[n]) \in DOMAIN Contents
    BY <1>1, SourceTypes, IncludeFilesAssumption DEF StartInput, TypeOK
  <2>2. stack' \in Seq(Frames) /\ stack' # <<>>
    BY <1>1, <2>1 DEF StartInput, Frames
  <2>3. passes' \in 0..2
    BY <1>1 DEF StartInput
  <2>4. QED
    BY <1>1, <2>2, <2>3 DEF StartInput, TypeOK, commandVars
<1>2. CASE SkipInput
  <2>1. Len(inputs) \in Nat /\ Len(rules) \in Nat
    BY IncludeFilesAssumption DEF TypeOK
  <2>2. n' \in 1..Len(inputs) + 1 /\ Len(rules) < n'
    BY <1>2, <2>1 DEF SkipInput, TypeOK
  <2>3. QED
    BY <1>2, <2>2 DEF SkipInput, TypeOK, commandVars
<1>3. CASE Directive
  <2>1. /\ stack' \in Seq(Frames) /\ stack' # <<>>
    BY <1>3, Passing, StackTypes DEF Directive
  <2>2. request' \in Directives
    <3>1. /\ Top.next \in Nat \ {0} /\ Top.file \in DOMAIN Contents
          /\ Top.next <= Len(Contents[Top.file])
          /\ request' = Contents[Top.file][Top.next]
      BY <1>3, StackTypes DEF Directive
    <3>2. QED
      BY <3>1, IncludeFilesAssumption
  <2>3. QED
    BY <1>3, <2>1, <2>2 DEF Directive, TypeOK, commandVars
<1>4. ASSUME ErrorResult, pc \in {"find", "read"}
      PROVE  /\ pc' \in {"find", "parse"} /\ failed' \in BOOLEAN
             /\ pc' = "find" => request' \in Directives
  BY <1>4 DEF ErrorResult, TypeOK, Directives, Types
<1>5. CASE Find
  <2>1. CASE Found = NotFound
    <3>1. ErrorResult /\ pc = "find"
      BY <1>5, <2>1 DEF Find
    <3>2. QED
      BY <1>4, <1>5, <3>1 DEF Find, TypeOK, commandVars
  <2>2. CASE Found # NotFound
    <3>1. Found \in Files
      BY <2>2, FoundIsReadable DEF TypeOK
    <3>2. QED
      BY <1>5, <2>2, <3>1 DEF Find, TypeOK, commandVars
  <2>3. QED
    BY <2>1, <2>2
<1>6. CASE Read
  <2>1. CASE full_path \in readable
    <3>1. full_path \in Files /\ full_path \in DOMAIN Contents
      BY <2>1, IncludeFilesAssumption DEF TypeOK
    <3>2. stack' \in Seq(Frames) /\ stack' # <<>>
      BY <1>6, <2>1, <3>1, Pushing, StackTypes DEF Read
    <3>3. QED
      BY <1>6, <2>1, <3>1, <3>2 DEF Read, TypeOK, commandVars
  <2>2. CASE full_path \notin readable
    <3>1. ErrorResult /\ pc = "read"
      BY <1>6, <2>2 DEF Read
    <3>2. QED
      BY <1>4, <1>6, <2>2, <3>1 DEF Read, TypeOK, commandVars
  <2>3. QED
    BY <2>1, <2>2
<1>7. CASE EndOfInclude
  <2>1. stack' \in Seq(Frames) /\ stack' # <<>>
    BY <1>7, Popping DEF EndOfInclude
  <2>2. QED
    BY <1>7, <2>1 DEF EndOfInclude, AtEnd, TypeOK, commandVars
<1>8. CASE ParseAgain
  <2>1. Top \in Frames
    BY <1>8, StackTypes DEF ParseAgain, AtEnd, TypeOK
  <2>2. stack' \in Seq(Frames) /\ stack' # <<>>
    BY <1>8, <2>1 DEF ParseAgain, Frames
  <2>3. QED
    BY <1>8, <2>2 DEF ParseAgain, AtEnd, TypeOK, commandVars
<1>9. CASE NoStageFound
  <2>1. pc = "parse" /\ n' = n + 1
    BY <1>9 DEF NoStageFound, AtEnd
  <2>2. Len(inputs) \in Nat /\ Len(rules) \in Nat
    BY IncludeFilesAssumption DEF TypeOK
  <2>3. n' \in 1..Len(inputs) + 1 /\ Len(rules) < n'
    BY <2>1, <2>2 DEF TypeOK
  <2>4. QED
    BY <1>9, <2>3 DEF NoStageFound, TypeOK, commandVars
<1>10. CASE DumpDependencyInfo
  <2>1. pc = "parse" /\ Top.file \in DOMAIN Contents
    BY <1>10, StackTypes DEF DumpDependencyInfo, AtEnd
  <2>2. [source |-> Top.file, dependent_files |-> included_files_,
         texts |-> texts, failed |-> failed] \in Rules
    BY <2>1 DEF Rules, TypeOK
  <2>3. rules' \in Seq(Rules) /\ Len(rules') = Len(rules) + 1 /\ Len(rules) \in Nat
    BY <1>10, <2>2 DEF DumpDependencyInfo, TypeOK
  <2>4. n' \in 1..Len(inputs) + 1 /\ Len(rules') < n'
    BY <1>10, <2>1, <2>3, IncludeFilesAssumption DEF DumpDependencyInfo, TypeOK
  <2>5. QED
    BY <1>10, <2>3, <2>4 DEF DumpDependencyInfo, TypeOK, commandVars
<1>11. CASE Change
  <2>1. changes' \in 0..MaxChanges /\ readable' \subseteq Files
    BY <1>11, IncludeFilesAssumption DEF Change, TypeOK
  <2>2. QED
    BY <1>11, <2>1 DEF Change, TypeOK, commandVars
<1>12. CASE UNCHANGED vars
  BY <1>12 DEF vars, commandVars, TypeOK
<1>13. QED
  BY <1>1, <1>2, <1>3, <1>5, <1>6, <1>7, <1>8, <1>9, <1>10, <1>11, <1>12
  DEF Next, Terminated

-----------------------------------------------------------------------------
(* What is found is what the documentation says.                           *)

LEMMA SearchedTypes ==
  ASSUME TypeOK, NEW f, NEW d
  PROVE  /\ Len(search_path_) \in Nat
         /\ d.type # "relative" =>
              /\ DOMAIN Searched(f, d) = 1..Len(search_path_)
              /\ \A i \in 1..Len(search_path_) : Searched(f, d)[i] = search_path_[i]
         /\ d.type = "relative" =>
              /\ DOMAIN Searched(f, d) = 1..Len(search_path_) + 1
              /\ Searched(f, d)[1] = OwnDirectory(f)
              /\ \A i \in 1..Len(search_path_) : Searched(f, d)[i + 1] = search_path_[i]
<1>1. search_path_ \in Seq(Paths)
  BY IncludeFilesAssumption DEF TypeOK
<1>2. CASE d.type # "relative"
  BY <1>1, <1>2 DEF Searched
<1>3. CASE d.type = "relative"
  <2> DEFINE own == OwnDirectory(f)
  <2>1. Searched(f, d) = <<own>> \o search_path_
    BY <1>3 DEF Searched
  <2>2. search_path_ \in Seq({own} \cup Paths) /\ own \in {own} \cup Paths
    BY <1>1
  <2> HIDE DEF own
  <2>3. /\ Len(search_path_) \in Nat
        /\ DOMAIN (<<own>> \o search_path_) = 1..Len(search_path_) + 1
        /\ (<<own>> \o search_path_)[1] = own
        /\ \A i \in 1..Len(search_path_) : (<<own>> \o search_path_)[i + 1] = search_path_[i]
    BY <2>2, RelativePaths
  <2>4. QED
    BY <1>3, <2>1, <2>3 DEF own
<1>4. QED
  BY <1>2, <1>3

\* A directive includes one file at most.
LEMMA ResolvesOnce ==
  ASSUME TypeOK, NEW f, NEW d, NEW p, NEW q, Resolves(f, d, p), Resolves(f, d, q)
  PROVE  p = q
<1> DEFINE match(i) == Prefixed(Searched(f, d)[i], d.name)
<1>1. PICK i \in DOMAIN Searched(f, d) :
        p = match(i) /\ \A j \in 1..i - 1 : match(j) \notin readable
  BY DEF Resolves
<1>2. PICK k \in DOMAIN Searched(f, d) :
        q = match(k) /\ \A j \in 1..k - 1 : match(j) \notin readable
  BY DEF Resolves
<1>3. p \in readable /\ q \in readable
  BY DEF Resolves
<1>4. i \in Nat \ {0} /\ k \in Nat \ {0}
  BY SearchedTypes
<1>5. ~ (i < k) /\ ~ (k < i)
  BY <1>1, <1>2, <1>3, <1>4
<1>6. QED
  BY <1>1, <1>2, <1>4, <1>5

\* A search of the paths of a directive finds the file that it includes.
LEMMA SearchResolves ==
  ASSUME NEW f, NEW d, NEW paths, NEW k \in Nat,
         DOMAIN paths = 1..k, DOMAIN Searched(f, d) = 1..k,
         \A i \in 1..k : paths[i] = Prefixed(Searched(f, d)[i], d.name)
  PROVE  \/ /\ FirstHit(paths) = NotFound /\ Missed(f, d)
            /\ \A i \in 1..k : paths[i] \notin readable
         \/ Resolves(f, d, FirstHit(paths))
<1>1. CASE \A i \in 1..k : paths[i] \notin readable
  <2>1. Missed(f, d)
    BY <1>1 DEF Missed, Resolves
  <2>2. FirstHit(paths) = NotFound
    BY <1>1, FirstHitIsFirst
  <2>3. QED
    BY <1>1, <2>1, <2>2
<1>2. CASE \E i \in 1..k : /\ FirstHit(paths) = paths[i] /\ paths[i] \in readable
                           /\ \A j \in 1..i - 1 : paths[j] \notin readable
  <2>1. PICK i \in 1..k : /\ FirstHit(paths) = paths[i] /\ paths[i] \in readable
                          /\ \A j \in 1..i - 1 : paths[j] \notin readable
    BY <1>2
  <2>2. \A j \in 1..i - 1 : Prefixed(Searched(f, d)[j], d.name) \notin readable
    BY <2>1
  <2>3. QED
    BY <2>1, <2>2 DEF Resolves
<1>3. QED
  BY <1>1, <1>2, FirstHitIsFirst

LEMMA FoundResolves ==
  ASSUME TypeOK, NEW f, OwnDirectory(f) = DirName(f), NEW d, NEW found,
         found = IF d.type = "relative" THEN FindRelativeReadableFilepath(f, d.name)
                                        ELSE FindReadableFilepath(d.name)
  PROVE  \/ found = NotFound /\ Missed(f, d)
         \/ found # NotFound /\ Resolves(f, d, found)
<1> DEFINE s == InSearchPath(d.name)
<1>1. /\ Len(search_path_) \in Nat /\ DOMAIN s = 1..Len(search_path_)
      /\ Len(s) = Len(search_path_)
      /\ s \in Seq({Prefixed(search_path_[i], d.name) : i \in DOMAIN search_path_})
  BY SearchedPaths
<1>2. \A i \in 1..Len(search_path_) : s[i] = Prefixed(search_path_[i], d.name)
  BY <1>1 DEF InSearchPath
<1>3. Resolves(f, d, found) => found # NotFound
  BY IncludeFilesAssumption DEF Resolves, TypeOK
<1>4. CASE d.type # "relative"
  <2>1. found = FirstHit(s)
    BY <1>4 DEF FindReadableFilepath
  <2>2. \A i \in 1..Len(search_path_) : s[i] = Prefixed(Searched(f, d)[i], d.name)
    BY <1>2, <1>4, SearchedTypes
  <2>3. DOMAIN Searched(f, d) = 1..Len(search_path_)
    BY <1>4, SearchedTypes
  <2>4. QED
    BY <1>1, <1>3, <2>1, <2>2, <2>3, SearchResolves
<1>5. CASE d.type = "relative"
  <2> DEFINE own == Prefixed(OwnDirectory(f), d.name)
             k == Len(search_path_) + 1
  <2>1. found = FirstHit(<<own>> \o s)
    BY <1>5 DEF FindRelativeReadableFilepath
  <2>2. s \in Seq({own} \cup {Prefixed(search_path_[i], d.name) : i \in DOMAIN search_path_})
        /\ own \in {own} \cup {Prefixed(search_path_[i], d.name) : i \in DOMAIN search_path_}
    BY <1>1
  <2>3. /\ DOMAIN Searched(f, d) = 1..k
        /\ Searched(f, d)[1] = OwnDirectory(f)
        /\ \A i \in 1..Len(search_path_) : Searched(f, d)[i + 1] = search_path_[i]
    BY <1>5, SearchedTypes
  <2>4. own = Prefixed(Searched(f, d)[1], d.name)
    BY <2>3
  <2>5. \A i \in 1..Len(search_path_) : s[i] = Prefixed(Searched(f, d)[i + 1], d.name)
    BY <1>2, <2>3
  <2> HIDE DEF own, s
  <2>6. /\ DOMAIN (<<own>> \o s) = 1..k /\ (<<own>> \o s)[1] = own
        /\ \A i \in 1..Len(search_path_) : (<<own>> \o s)[i + 1] = s[i]
    BY <1>1, <2>2, RelativePaths
  <2>7. \A i \in 1..k : (<<own>> \o s)[i] = Prefixed(Searched(f, d)[i], d.name)
    <3> SUFFICES ASSUME NEW i \in 1..k
                 PROVE  (<<own>> \o s)[i] = Prefixed(Searched(f, d)[i], d.name)
      OBVIOUS
    <3>1. CASE i = 1
      BY <2>4, <2>6, <3>1
    <3>2. CASE i # 1
      <4>1. i - 1 \in 1..Len(search_path_) /\ (i - 1) + 1 = i
        BY <1>1, <3>2
      <4>2. QED
        BY <2>5, <2>6, <4>1
    <3>3. QED
      BY <3>1, <3>2
  <2>8. k \in Nat
    BY <1>1
  <2> DEFINE paths == <<own>> \o s
  <2>9. found = FirstHit(paths) /\ DOMAIN paths = 1..k
    BY <2>1, <2>6
  <2>10. \A i \in 1..k : paths[i] = Prefixed(Searched(f, d)[i], d.name)
    BY <2>7
  <2> HIDE DEF k, paths
  <2>11. \/ FirstHit(paths) = NotFound /\ Missed(f, d)
         \/ Resolves(f, d, FirstHit(paths))
    BY <2>3, <2>8, <2>9, <2>10, SearchResolves
  <2>12. QED
    BY <1>3, <2>9, <2>11
<1>6. QED
  BY <1>4, <1>5

\* What a directive in quotes missed is not found when asked for once more.
LEMMA RetryMisses ==
  ASSUME TypeOK, NEW f, NEW d, d.type = "relative", Missed(f, d)
  PROVE  FindReadableFilepath(d.name) = NotFound
<1> DEFINE s == InSearchPath(d.name)
           k == Len(search_path_) + 1
           paths == [i \in 1..k |-> Prefixed(Searched(f, d)[i], d.name)]
<1>1. /\ Len(search_path_) \in Nat /\ k \in Nat
      /\ DOMAIN s = 1..Len(search_path_)
      /\ \A i \in 1..Len(search_path_) : s[i] = Prefixed(search_path_[i], d.name)
  BY SearchedPaths DEF InSearchPath
<1>2. /\ DOMAIN Searched(f, d) = 1..k
      /\ \A i \in 1..Len(search_path_) : Searched(f, d)[i + 1] = search_path_[i]
  BY SearchedTypes
<1>3. DOMAIN paths = 1..k /\ \A i \in 1..k : paths[i] = Prefixed(Searched(f, d)[i], d.name)
  OBVIOUS
<1>4. \A p : ~ Resolves(f, d, p)
  BY DEF Missed, Resolves
<1>5. \A i \in 1..Len(search_path_) : i + 1 \in 1..k
  BY <1>1
<1> HIDE DEF paths, k, s
<1>6. \A i \in 1..k : paths[i] \notin readable
  BY <1>1, <1>2, <1>3, <1>4, SearchResolves
<1>7. \A i \in 1..Len(search_path_) : s[i] \notin readable
  BY <1>1, <1>2, <1>3, <1>5, <1>6
<1>8. FirstHit(s) = NotFound
  BY <1>1, <1>7, FirstHitIsFirst
<1>9. QED
  BY <1>8 DEF FindReadableFilepath, s

-----------------------------------------------------------------------------
(* How steps change what is settled.                                       *)

LEMMA Kept ==
  ASSUME readable' = readable, search_path_' = search_path_
  PROVE  /\ \A f, d, p : Resolves(f, d, p)' <=> Resolves(f, d, p)
         /\ \A f, d : Missed(f, d)' <=> Missed(f, d)
         /\ \A f : Includes(f)' = Includes(f)
         /\ \A f : Unresolved(f)' <=> Unresolved(f)
         /\ \A s : Reached(s)' = Reached(s)
         /\ \A s : Rooted(s)' <=> Rooted(s)
<1>1. \A f, d : Searched(f, d)' = Searched(f, d)
  BY DEF Searched
<1>2. \A f, d, p : Resolves(f, d, p)' <=> Resolves(f, d, p)
  BY <1>1 DEF Resolves
<1>3. \A f : Includes(f)' = Includes(f)
  BY <1>2 DEF Includes
<1>4. \A S, s : Closed(S, s)' <=> Closed(S, s)
  BY <1>3 DEF Closed
<1>5. \A s : Reached(s)' = Reached(s)
  BY <1>4 DEF Reached
<1>6. QED
  BY <1>2, <1>3, <1>5 DEF Missed, Unresolved, Rooted

LEMMA SettledKept ==
  ASSUME readable' = readable, search_path_' = search_path_,
         included_files_ \subseteq included_files_', failed => failed'
  PROVE  /\ \A f, i : Settled(f, i) => Settled(f, i)'
         /\ \A f, k : SettledUpTo(f, k) => SettledUpTo(f, k)'
<1>1. \A f, i : Settled(f, i) => Settled(f, i)'
  BY Kept DEF Settled
<1>2. QED
  BY <1>1 DEF SettledUpTo

\* What a file that is reached includes is reached, too.
LEMMA ReachedIsClosed ==
  ASSUME NEW s, NEW f \in Reached(s) \cup {s}, NEW p \in Includes(f)
  PROVE  p \in Reached(s)
<1>1. p \in readable
  BY DEF Includes
<1>2. ASSUME NEW S \in SUBSET readable, Closed(S, s) PROVE p \in S
  <2>1. f \in S \cup {s}
    BY <1>2 DEF Reached
  <2>2. QED
    BY <1>2, <2>1 DEF Closed
<1>3. QED
  BY <1>1, <1>2 DEF Reached

LEMMA DirectiveTypes ==
  ASSUME NEW f \in DOMAIN Contents
  PROVE  /\ Len(Contents[f]) \in Nat /\ DOMAIN Contents[f] = 1..Len(Contents[f])
         /\ \A k \in DOMAIN Contents[f] :
              Contents[f][k] \in Directives /\ Contents[f][k] \in ToSet(Contents[f])
         /\ \A d \in ToSet(Contents[f]) : \E k \in DOMAIN Contents[f] : d = Contents[f][k]
<1>1. Contents[f] \in Seq(Directives)
  BY IncludeFilesAssumption
<1>2. QED
  BY <1>1 DEF ToSet

-----------------------------------------------------------------------------
(* The steps through an input.                                             *)

LEMMA StartProgress ==
  ASSUME TypeOK, StartInput, NEW source \in DOMAIN Contents, source = stack'[1].file
  PROVE  Progress(source)'
<1>1. /\ stack' = <<[file |-> ErrorFileName(inputs[n]), next |-> 1]>>
      /\ included_files_' = {} /\ ~ failed' /\ pc' = "parse"
  BY DEF StartInput
<1>2. /\ DOMAIN stack' = {1} /\ stack'[1].next = 1 /\ Len(stack') = 1
  BY <1>1
<1>3. \A i \in DOMAIN stack' : Passed(i)' = 0
  BY <1>1, <1>2 DEF Passed, Answering
<1>4. ASSUME NEW f \in DOMAIN Contents, NEW j \in DOMAIN Contents[f] PROVE ~ (j <= 0)
  <2>1. DOMAIN Contents[f] = 1..Len(Contents[f])
    BY DirectiveTypes
  <2>2. QED
    BY <2>1
<1>5. StackIsSettled(source)'
  BY <1>2, <1>3, <1>4 DEF StackIsSettled, Processed
<1>6. QED
  BY <1>1, <1>5 DEF Progress, RestIsSettled, Answering

LEMMA DirectiveProgress ==
  ASSUME TypeOK, Directive, NEW source \in DOMAIN Contents, Progress(source)
  PROVE  Progress(source)'
<1>1. /\ pc = "parse" /\ pc' = "find" /\ Top.next <= Len(Contents[Top.file])
      /\ request' = Contents[Top.file][Top.next]
      /\ UNCHANGED <<readable, search_path_, included_files_, failed>>
  BY DEF Directive, commandVars
<1>2. /\ Len(stack) \in DOMAIN stack /\ Top = stack[Len(stack)]
      /\ Top.next \in Nat \ {0} /\ Top.file \in DOMAIN Contents
      /\ \A i \in DOMAIN stack : stack[i].next \in Nat
      /\ DOMAIN stack = 1..Len(stack) /\ Len(stack) \in Nat
  BY <1>1, StackTypes
<1>3. /\ DOMAIN stack' = DOMAIN stack /\ Len(stack') = Len(stack)
      /\ \A i \in DOMAIN stack : stack'[i].file = stack[i].file
      /\ \A i \in DOMAIN stack : i # Len(stack) => stack'[i].next = stack[i].next
      /\ stack'[Len(stack)].next = Top.next + 1
  BY <1>2, Passing
<1>4. \A i \in DOMAIN stack : Passed(i)' = Passed(i)
  BY <1>1, <1>2, <1>3 DEF Passed, Answering
<1>5. StackIsSettled(source)'
  BY <1>1, <1>3, <1>4, SettledKept DEF Progress, StackIsSettled, Processed
<1>6. RestIsSettled'
  BY <1>1, <1>3, SettledKept DEF Progress, RestIsSettled
<1>7. RequestIsDirective'
  <2>1. Top' = stack'[Len(stack)]
    BY <1>2, <1>3, Passing DEF Top, Last
  <2>2. Top'.file = Top.file /\ Top.next = Top'.next - 1
    BY <1>2, <1>3, <2>1
  <2>3. Top.next \in DOMAIN Contents[Top.file]
    BY <1>1, <1>2, DirectiveTypes
  <2>4. PICK f \in DOMAIN Contents : \E k \in DOMAIN Contents[f] :
          f = Top'.file /\ k = Top'.next - 1 /\ request' = Contents[f][k]
    BY <1>1, <1>2, <2>2, <2>3
  <2>5. QED
    BY <1>1, <2>4 DEF RequestIsDirective
<1>8. QED
  BY <1>1, <1>5, <1>6, <1>7, Kept DEF Progress, Processed

\* The directive at hand, in a file that is reached.
LEMMA AtHand ==
  ASSUME TypeOK, NEW source \in DOMAIN Contents, Rooted(source), Progress(source), Answering
  PROVE  \E f \in DOMAIN Contents, k \in Nat :
           /\ k \in DOMAIN Contents[f]
           /\ f = Top.file /\ k = Top.next - 1 /\ request.name = Contents[f][k].name
           /\ \/ request.type = Contents[f][k].type
              \/ /\ request.type = "standard" /\ Contents[f][k].type = "relative"
                 /\ Missed(f, Contents[f][k])
           /\ pc = "read" => \E p \in readable :
                               p = full_path /\ Resolves(f, Contents[f][k], p)
           /\ f \in Processed(source) /\ f \in Reached(source) \cup {source}
           /\ OwnDirectory(f) = DirName(f)
           /\ Contents[f][k] \in ToSet(Contents[f]) /\ Contents[f][k].type \in Types
<1>1. PICK f \in DOMAIN Contents : \E k \in DOMAIN Contents[f] :
        /\ f = Top.file /\ k = Top.next - 1 /\ request.name = Contents[f][k].name
        /\ \/ request.type = Contents[f][k].type
           \/ /\ request.type = "standard" /\ Contents[f][k].type = "relative"
              /\ Missed(f, Contents[f][k])
        /\ pc = "read" => \E p \in readable :
                            p = full_path /\ Resolves(f, Contents[f][k], p)
  BY DEF Progress, RequestIsDirective
<1>2. PICK k \in DOMAIN Contents[f] :
        /\ f = Top.file /\ k = Top.next - 1 /\ request.name = Contents[f][k].name
        /\ \/ request.type = Contents[f][k].type
           \/ /\ request.type = "standard" /\ Contents[f][k].type = "relative"
              /\ Missed(f, Contents[f][k])
        /\ pc = "read" => \E p \in readable :
                            p = full_path /\ Resolves(f, Contents[f][k], p)
  BY <1>1
<1>3. Len(stack) \in DOMAIN stack /\ Top = stack[Len(stack)]
  BY StackTypes DEF Answering
<1>4. f \in Processed(source)
  BY <1>2, <1>3 DEF Progress, StackIsSettled
<1>5. f \in Reached(source) \cup {source} /\ OwnDirectory(f) = DirName(f)
  BY <1>4 DEF Progress, Processed, Rooted
<1>6. /\ Contents[f][k] \in ToSet(Contents[f]) /\ Contents[f][k].type \in Types
      /\ k \in Nat
  BY DirectiveTypes DEF Directives
<1>7. QED
  BY <1>2, <1>4, <1>5, <1>6

\* After the directive at hand is settled, all that are passed are.
LEMMA PassedAfter ==
  ASSUME TypeOK, Answering, NEW f \in DOMAIN Contents, NEW k \in DOMAIN Contents[f],
         f = Top.file, k = Top.next - 1,
         NEW source \in DOMAIN Contents, StackIsSettled(source)
  PROVE  \A i \in DOMAIN stack, g \in DOMAIN Contents : g = stack[i].file =>
           \A j \in DOMAIN Contents[g] :
             j <= stack[i].next - 1 => Settled(g, j) \/ (g = f /\ j = k)
<1>1. /\ Len(stack) \in DOMAIN stack /\ Top = stack[Len(stack)]
      /\ \A i \in DOMAIN stack : stack[i].next \in Nat
  BY StackTypes DEF Answering
<1> SUFFICES ASSUME NEW i \in DOMAIN stack, NEW g \in DOMAIN Contents, g = stack[i].file,
                    NEW j \in DOMAIN Contents[g], j <= stack[i].next - 1
             PROVE  Settled(g, j) \/ (g = f /\ j = k)
  OBVIOUS
<1>2. j \in Nat /\ stack[i].next \in Nat
  BY <1>1, DirectiveTypes
<1>3. CASE i # Len(stack)
  BY <1>3 DEF StackIsSettled, Passed
<1>4. CASE i = Len(stack)
  <2>1. Passed(i) = stack[i].next - 2 /\ g = f /\ k = stack[i].next - 1
    BY <1>1, <1>4 DEF Passed
  <2>2. j <= Passed(i) \/ j = k
    BY <1>2, <2>1
  <2>3. QED
    BY <2>1, <2>2 DEF StackIsSettled
<1>5. QED
  BY <1>3, <1>4

\* A directive fails only if it includes nothing.
LEMMA FailureProgress ==
  ASSUME TypeOK, NEW source \in DOMAIN Contents, Rooted(source), Progress(source),
         pc = "find", Found = NotFound, Find
  PROVE  Progress(source)'
<1>1. /\ UNCHANGED <<readable, search_path_, stack, included_files_>> /\ ErrorResult
      /\ \A g \in DOMAIN Contents : Processed(g)' = Processed(g)
  BY DEF Find, commandVars, Processed
<1>2. Answering
  BY DEF Answering
<1>3. PICK f \in DOMAIN Contents, k \in Nat :
           /\ k \in DOMAIN Contents[f]
           /\ f = Top.file /\ k = Top.next - 1 /\ request.name = Contents[f][k].name
           /\ \/ request.type = Contents[f][k].type
              \/ /\ request.type = "standard" /\ Contents[f][k].type = "relative"
                 /\ Missed(f, Contents[f][k])
           /\ f \in Processed(source) /\ OwnDirectory(f) = DirName(f)
           /\ Contents[f][k] \in ToSet(Contents[f])
  BY <1>2, AtHand
<1>4. Missed(f, Contents[f][k])
  <2>1. CASE request.type = Contents[f][k].type
    <3>1. Found = IF Contents[f][k].type = "relative"
                  THEN FindRelativeReadableFilepath(f, Contents[f][k].name)
                  ELSE FindReadableFilepath(Contents[f][k].name)
      BY <1>3, <2>1 DEF Found
    <3>2. QED
      BY <1>3, <3>1, FoundResolves
  <2>2. QED
    BY <1>3, <2>1
<1>5. CASE request.type = "relative"
  <2>1. /\ request' = [request EXCEPT !.type = "standard"]
        /\ pc' = "find" /\ UNCHANGED failed
    BY <1>1, <1>5 DEF ErrorResult
  <2>2. request'.name = request.name /\ request'.type = "standard"
    BY <2>1, <1>2 DEF TypeOK, Answering, Directives
  <2>3. Contents[f][k].type = "relative"
    BY <1>3, <1>5
  <2>4. Top' = Top /\ Missed(f, Contents[f][k])'
    BY <1>1, <1>4, Kept DEF Top
  <2>5. RequestIsDirective'
    BY <1>3, <2>1, <2>2, <2>3, <2>4 DEF RequestIsDirective
  <2>6. \A i : Passed(i)' = Passed(i)
    BY <1>1, <1>2, <2>1 DEF Passed, Answering
  <2>7. StackIsSettled(source)' /\ RestIsSettled'
    BY <1>1, <2>1, <2>6, SettledKept DEF Progress, StackIsSettled, RestIsSettled
  <2>8. QED
    BY <1>1, <2>1, <2>5, <2>7, Kept DEF Progress
<1>6. CASE request.type # "relative"
  <2>1. failed' /\ pc' = "parse"
    BY <1>1, <1>6 DEF ErrorResult
  <2>2. Settled(f, k)'
    BY <1>1, <1>4, <2>1, Kept DEF Settled, Missed
  <2>3. \A i : Passed(i)' = stack[i].next - 1
    BY <1>1, <2>1 DEF Passed, Answering
  <2>4. \A i \in DOMAIN stack, g \in DOMAIN Contents : g = stack[i].file =>
           \A j \in DOMAIN Contents[g] :
             j <= stack[i].next - 1 => Settled(g, j) \/ (g = f /\ j = k)
    BY <1>2, <1>3, PassedAfter DEF Progress
  <2>5. \A g, j : Settled(g, j) => Settled(g, j)'
    BY <1>1, <2>1, SettledKept
  <2>6. StackIsSettled(source)'
    BY <1>1, <2>2, <2>3, <2>4, <2>5 DEF Progress, StackIsSettled
  <2>7. RestIsSettled'
    BY <1>1, <2>1, SettledKept DEF Progress, RestIsSettled
  <2>8. Unresolved(f)'
    BY <1>1, <1>3, <1>4, Kept DEF Unresolved, Missed
  <2>9. QED
    BY <1>1, <1>3, <2>1, <2>6, <2>7, <2>8, Kept DEF Progress, Answering
<1>7. QED
  BY <1>5, <1>6

\* What is found is what the directive includes.
LEMMA FindProgress ==
  ASSUME TypeOK, NEW source \in DOMAIN Contents, Rooted(source), Progress(source),
         Find, Found # NotFound
  PROVE  Progress(source)'
<1>1. /\ UNCHANGED <<readable, search_path_, stack, included_files_, failed, request>>
      /\ pc = "find" /\ pc' = "read" /\ full_path' = Found
      /\ \A g \in DOMAIN Contents : Processed(g)' = Processed(g)
  BY DEF Find, commandVars, Processed
<1>2. Answering /\ Answering'
  BY <1>1 DEF Answering
<1>3. PICK f \in DOMAIN Contents, k \in Nat :
           /\ k \in DOMAIN Contents[f]
           /\ f = Top.file /\ k = Top.next - 1 /\ request.name = Contents[f][k].name
           /\ \/ request.type = Contents[f][k].type
              \/ /\ request.type = "standard" /\ Contents[f][k].type = "relative"
                 /\ Missed(f, Contents[f][k])
           /\ OwnDirectory(f) = DirName(f)
  BY <1>2, AtHand
<1>4. request.type = Contents[f][k].type
  <2>1. CASE request.type = "standard" /\ Contents[f][k].type = "relative"
             /\ Missed(f, Contents[f][k])
    <3>1. Found = FindReadableFilepath(Contents[f][k].name)
      BY <1>3, <2>1 DEF Found
    <3>2. QED
      BY <2>1, <3>1, RetryMisses
  <2>2. QED
    BY <1>3, <2>1
<1>5. Resolves(f, Contents[f][k], Found)
  <2>1. Found = IF Contents[f][k].type = "relative"
                THEN FindRelativeReadableFilepath(f, Contents[f][k].name)
                ELSE FindReadableFilepath(Contents[f][k].name)
    BY <1>3, <1>4 DEF Found
  <2>2. QED
    BY <1>3, <2>1, FoundResolves
<1>6. \E p \in readable : p = full_path' /\ Resolves(f, Contents[f][k], p)
  BY <1>1, <1>5 DEF Resolves
<1>7. \E p \in readable' : p = full_path' /\ Resolves(f, Contents[f][k], p)'
  BY <1>1, <1>6, Kept
<1>8. Top' = Top
  BY <1>1 DEF Top
<1>9. RequestIsDirective'
  BY <1>1, <1>3, <1>4, <1>7, <1>8 DEF RequestIsDirective
<1>10. \A i : Passed(i)' = Passed(i)
  BY <1>1, <1>2 DEF Passed
<1>11. StackIsSettled(source)' /\ RestIsSettled'
  BY <1>1, <1>10, SettledKept DEF Progress, StackIsSettled, RestIsSettled
<1>12. QED
  BY <1>1, <1>9, <1>11, Kept DEF Progress

\* What was found is still there, and is remembered.
LEMMA ReadProgress ==
  ASSUME TypeOK, NEW source \in DOMAIN Contents, Rooted(source), Progress(source), Read
  PROVE  Progress(source)'
<1>1. Answering /\ pc = "read" /\ UNCHANGED <<readable, search_path_>>
  BY DEF Read, Answering, commandVars
<1>2. PICK f \in DOMAIN Contents, k \in Nat :
           /\ k \in DOMAIN Contents[f]
           /\ f = Top.file /\ k = Top.next - 1
           /\ pc = "read" => \E p \in readable :
                               p = full_path /\ Resolves(f, Contents[f][k], p)
           /\ f \in Reached(source) \cup {source}
           /\ Contents[f][k] \in ToSet(Contents[f])
  BY <1>1, AtHand
<1>3. full_path \in readable /\ Resolves(f, Contents[f][k], full_path)
  BY <1>1, <1>2
<1>4. full_path \in Files /\ full_path \in DOMAIN Contents
  BY <1>3, IncludeFilesAssumption DEF TypeOK
<1>5. /\ included_files_' = included_files_ \cup {full_path} /\ pc' = "parse"
      /\ stack' = Append(stack, [file |-> full_path, next |-> 1]) /\ UNCHANGED failed
  BY <1>3 DEF Read
<1>6. /\ Len(stack) \in Nat /\ DOMAIN stack = 1..Len(stack)
      /\ DOMAIN stack' = 1..Len(stack) + 1
      /\ \A i \in DOMAIN stack : stack'[i] = stack[i]
      /\ stack'[Len(stack) + 1] = [file |-> full_path, next |-> 1]
  BY <1>4, <1>5, Pushing, StackTypes
<1>7. Settled(f, k)'
  <2>1. \A p \in readable : Resolves(f, Contents[f][k], p) => p = full_path
    BY <1>3, ResolvesOnce
  <2>2. ~ Missed(f, Contents[f][k])
    BY <1>3 DEF Missed
  <2>3. QED
    BY <1>1, <1>5, <2>1, <2>2, Kept DEF Settled
<1>8. full_path \in Reached(source)
  <2>1. full_path \in Includes(f)
    BY <1>2, <1>3 DEF Includes
  <2>2. QED
    BY <1>2, <2>1, ReachedIsClosed
<1>9. \A g, j : Settled(g, j) => Settled(g, j)'
  BY <1>1, <1>5, SettledKept
<1>10. \A i \in DOMAIN stack, g \in DOMAIN Contents : g = stack[i].file =>
         \A j \in DOMAIN Contents[g] :
           j <= stack[i].next - 1 => Settled(g, j) \/ (g = f /\ j = k)
  BY <1>1, <1>2, PassedAfter DEF Progress
<1>11. \A i : Passed(i)' = stack'[i].next - 1
  BY <1>5 DEF Passed, Answering
<1>12. \A g \in DOMAIN Contents : g \in Processed(source) => g \in Processed(source)'
  BY <1>5 DEF Processed
<1>13. StackIsSettled(source)'
  <2> SUFFICES ASSUME NEW i \in DOMAIN stack', NEW g \in DOMAIN Contents,
                      g = stack'[i].file
               PROVE  /\ g \in Processed(source)'
                      /\ \A j \in DOMAIN Contents[g] : j <= Passed(i)' => Settled(g, j)'
    BY DEF StackIsSettled
  <2>1. CASE i \in DOMAIN stack
    <3>1. stack'[i] = stack[i] /\ g \in Processed(source)'
      BY <1>6, <1>12, <2>1 DEF Progress, StackIsSettled
    <3>2. QED
      BY <1>7, <1>9, <1>10, <1>11, <2>1, <3>1
  <2>2. CASE i \notin DOMAIN stack
    <3>1. i = Len(stack) + 1
      BY <1>6, <2>2
    <3>2. stack'[i].next = 1 /\ g = full_path
      BY <1>6, <3>1
    <3>3. Passed(i)' = 0
      BY <1>11, <3>2
    <3>4. DOMAIN Contents[g] = 1..Len(Contents[g])
      BY DirectiveTypes
    <3>5. QED
      BY <1>5, <3>2, <3>3, <3>4 DEF Processed
  <2>3. QED
    BY <2>1, <2>2
<1>14. RestIsSettled'
  <2> SUFFICES ASSUME NEW g \in included_files_'
               PROVE  \/ SettledUpTo(g, Len(Contents[g]))'
                      \/ \E i \in DOMAIN stack' : stack'[i].file = g
    BY DEF RestIsSettled
  <2>1. CASE g \in included_files_
    <3>1. SettledUpTo(g, Len(Contents[g])) => SettledUpTo(g, Len(Contents[g]))'
      BY <1>1, <1>5, SettledKept
    <3>2. QED
      BY <1>6, <2>1, <3>1 DEF Progress, RestIsSettled
  <2>2. CASE g = full_path
    BY <1>6, <2>2
  <2>3. QED
    BY <1>5, <2>1, <2>2
<1>15. QED
  BY <1>1, <1>5, <1>8, <1>12, <1>13, <1>14, Kept DEF Progress, Answering, Processed

\* At the end of a file all its directives are settled.
LEMMA EndIsSettled ==
  ASSUME TypeOK, NEW source \in DOMAIN Contents, Progress(source), AtEnd
  PROVE  SettledUpTo(Top.file, Len(Contents[Top.file]))
<1>1. /\ Len(stack) \in DOMAIN stack /\ Top = stack[Len(stack)]
      /\ Top.next \in Nat /\ Top.file \in DOMAIN Contents
  BY StackTypes DEF AtEnd
<1>2. Passed(Len(stack)) = Top.next - 1 /\ Top.next > Len(Contents[Top.file])
  BY <1>1 DEF Passed, Answering, AtEnd
<1>3. /\ DOMAIN Contents[Top.file] = 1..Len(Contents[Top.file])
      /\ Len(Contents[Top.file]) \in Nat
  BY <1>1, DirectiveTypes
<1>4. \A j \in DOMAIN Contents[Top.file] : j <= Passed(Len(stack))
  BY <1>1, <1>2, <1>3
<1>5. \A j \in DOMAIN Contents[Top.file] : Settled(Top.file, j)
  BY <1>1, <1>4 DEF Progress, StackIsSettled
<1>6. QED
  BY <1>5 DEF SettledUpTo

LEMMA EndProgress ==
  ASSUME TypeOK, NEW source \in DOMAIN Contents, Progress(source),
         EndOfInclude
  PROVE  Progress(source)'
<1>1. /\ AtEnd /\ Len(stack) > 1 /\ stack' = Front(stack) /\ pc = "parse" /\ pc' = "parse"
      /\ UNCHANGED <<readable, search_path_, included_files_, failed>>
  BY DEF EndOfInclude, AtEnd, commandVars
<1>2. /\ DOMAIN stack' = 1..Len(stack) - 1
      /\ \A i \in DOMAIN stack' : i \in DOMAIN stack /\ stack'[i] = stack[i]
      /\ DOMAIN stack = 1..Len(stack) /\ Len(stack) \in Nat
  BY <1>1, Popping, StackTypes
<1>3. \A i \in DOMAIN stack' : Passed(i)' = Passed(i)
  BY <1>1, <1>2 DEF Passed, Answering
<1>4. StackIsSettled(source)'
  BY <1>1, <1>2, <1>3, SettledKept DEF Progress, StackIsSettled, Processed
<1>5. RestIsSettled'
  <2> SUFFICES ASSUME NEW g \in included_files_'
               PROVE  \/ SettledUpTo(g, Len(Contents[g]))'
                      \/ \E i \in DOMAIN stack' : stack'[i].file = g
    BY DEF RestIsSettled
  <2>1. SettledUpTo(g, Len(Contents[g])) => SettledUpTo(g, Len(Contents[g]))'
    BY <1>1, SettledKept
  <2>2. CASE \E i \in DOMAIN stack : stack[i].file = g
    <3>1. PICK i \in DOMAIN stack : stack[i].file = g
      BY <2>2
    <3>2. CASE i = Len(stack)
      <4>1. g = Top.file
        BY <1>1, <3>1, <3>2, StackTypes
      <4>2. SettledUpTo(Top.file, Len(Contents[Top.file]))
        BY <1>1, EndIsSettled
      <4>3. QED
        BY <2>1, <4>1, <4>2
    <3>3. CASE i # Len(stack)
      <4>1. i \in DOMAIN stack'
        BY <1>2, <3>3
      <4>2. QED
        BY <1>2, <3>1, <4>1
    <3>4. QED
      BY <3>2, <3>3
  <2>3. QED
    BY <1>1, <2>1, <2>2 DEF Progress, RestIsSettled
<1>6. QED
  BY <1>1, <1>4, <1>5, Kept DEF Progress, Answering, Processed

LEMMA AgainProgress ==
  ASSUME TypeOK, NEW source \in DOMAIN Contents, source = stack[1].file,
         Progress(source), ParseAgain
  PROVE  Progress(source)'
<1>1. /\ AtEnd /\ Len(stack) = 1 /\ stack' = <<[Top EXCEPT !.next = 1]>>
      /\ pc = "parse" /\ pc' = "parse"
      /\ UNCHANGED <<readable, search_path_, included_files_, failed>>
  BY DEF ParseAgain, AtEnd, commandVars
<1>2. /\ DOMAIN stack = {1} /\ Top = stack[1] /\ Top \in Frames
  BY <1>1, StackTypes DEF TypeOK
<1>3. DOMAIN stack' = {1} /\ stack'[1].file = source /\ stack'[1].next = 1
  BY <1>1, <1>2 DEF Frames
<1>4. Passed(1)' = 0
  BY <1>1, <1>3 DEF Passed, Answering
<1>5. DOMAIN Contents[source] = 1..Len(Contents[source])
  BY DirectiveTypes
<1>6. StackIsSettled(source)'
  BY <1>3, <1>4, <1>5 DEF StackIsSettled, Processed
<1>7. RestIsSettled'
  <2>1. \A g : SettledUpTo(g, Len(Contents[g])) => SettledUpTo(g, Len(Contents[g]))'
    BY <1>1, SettledKept
  <2>2. QED
    BY <1>1, <1>2, <1>3, <2>1 DEF Progress, RestIsSettled
<1>8. QED
  BY <1>1, <1>6, <1>7, Kept DEF Progress, Answering, Processed

\* At the end of an input what is remembered is what is reached.
LEMMA EndIsComplete ==
  ASSUME TypeOK, NEW source \in DOMAIN Contents, source = stack[1].file,
         Progress(source), AtEnd, Len(stack) = 1
  PROVE  /\ included_files_ = Reached(source)
         /\ failed <=> \E f \in Reached(source) \cup {source} : Unresolved(f)
<1>1. DOMAIN stack = {1} /\ Top = stack[1]
  BY StackTypes DEF AtEnd
<1>2. SettledUpTo(source, Len(Contents[source]))
  BY <1>1, EndIsSettled
<1>3. ASSUME NEW f \in Processed(source)
      PROVE  f \in DOMAIN Contents /\ \A j \in DOMAIN Contents[f] : Settled(f, j)
  <2>1. f \in DOMAIN Contents /\ SettledUpTo(f, Len(Contents[f]))
    BY <1>1, <1>2, IncludeFilesAssumption DEF Processed, Progress, RestIsSettled, TypeOK
  <2>2. DOMAIN Contents[f] = 1..Len(Contents[f])
    BY <2>1, DirectiveTypes
  <2>3. QED
    BY <2>1, <2>2 DEF SettledUpTo
<1>4. ASSUME NEW f \in Processed(source) PROVE Includes(f) \subseteq included_files_
  BY <1>3, DirectiveTypes DEF Includes, Settled
<1>5. Closed(included_files_, source)
  BY <1>4 DEF Closed, Processed
<1>6. included_files_ \subseteq readable
  BY DEF Progress, Reached
<1>7. included_files_ = Reached(source)
  BY <1>5, <1>6 DEF Progress, Reached
<1>8. ASSUME NEW f \in Processed(source), Unresolved(f) PROVE failed
  <2>1. PICK d \in ToSet(Contents[f]) : Missed(f, d)
    BY <1>8 DEF Unresolved, Missed
  <2>2. \E j \in DOMAIN Contents[f] : d = Contents[f][j]
    BY <1>3, DirectiveTypes
  <2>3. QED
    BY <1>3, <2>1, <2>2 DEF Settled
<1>9. QED
  BY <1>7, <1>8 DEF Progress, Processed

LEMMA ProgressStep ==
  ASSUME TypeOK, ProgressSoFar, [Next]_vars
  PROVE  ProgressSoFar'
<1> SUFFICES ASSUME changes' = 0, pc' # "next", NEW source \in DOMAIN Contents,
                    source = stack'[1].file, Rooted(source)'
             PROVE  Progress(source)'
  BY DEF ProgressSoFar
<1>1. CASE StartInput
  BY <1>1, StartProgress
<1>2. ASSUME Directive \/ Find \/ Read \/ EndOfInclude \/ ParseAgain
      PROVE  /\ Rooted(source) /\ source = stack[1].file
             /\ Progress(source)
  <2>1. /\ UNCHANGED <<readable, search_path_, changes>> /\ pc # "next"
    BY <1>2 DEF Directive, Find, Read, EndOfInclude, ParseAgain, AtEnd, commandVars
  <2>2. Rooted(source)
    BY <2>1, Kept
  <2>3. stack'[1].file = stack[1].file
    <3>1. 1 \in DOMAIN stack /\ Len(stack) \in DOMAIN stack /\ Top = stack[Len(stack)]
          /\ DOMAIN stack = 1..Len(stack) /\ Len(stack) \in Nat
      BY <2>1, StackTypes
    <3>2. CASE Directive
      BY <3>1, <3>2, Passing
    <3>3. CASE Find
      BY <3>3 DEF Find
    <3>4. CASE Read
      <4>1. full_path \in readable => full_path \in DOMAIN Contents
        BY IncludeFilesAssumption DEF TypeOK
      <4>2. CASE full_path \in readable
        BY <3>1, <3>4, <4>1, <4>2, Pushing DEF Read
      <4>3. CASE full_path \notin readable
        BY <3>4, <4>3 DEF Read
      <4>4. QED
        BY <4>2, <4>3
    <3>5. CASE EndOfInclude
      <4>1. 1 \in 1..Len(stack) - 1
        BY <3>1, <3>5 DEF EndOfInclude
      <4>2. QED
        BY <3>5, <4>1, Popping DEF EndOfInclude
    <3>6. CASE ParseAgain
      <4>1. Top = stack[1] /\ Top \in Frames
        BY <3>1, <3>6 DEF ParseAgain, TypeOK
      <4>2. QED
        BY <3>6, <4>1 DEF ParseAgain, Frames
    <3>7. QED
      BY <1>2, <3>2, <3>3, <3>4, <3>5, <3>6
  <2>4. QED
    BY <2>1, <2>2, <2>3 DEF ProgressSoFar
<1>3. CASE Directive
  BY <1>2, <1>3, DirectiveProgress
<1>4. CASE Find
  BY <1>2, <1>4, FailureProgress, FindProgress DEF Find
<1>5. CASE Read
  BY <1>2, <1>5, ReadProgress
<1>6. CASE EndOfInclude
  BY <1>2, <1>6, EndProgress
<1>7. CASE ParseAgain
  BY <1>2, <1>7, AgainProgress
<1>8. CASE SkipInput \/ NoStageFound \/ DumpDependencyInfo
  BY <1>8 DEF SkipInput, NoStageFound, DumpDependencyInfo
<1>9. CASE Change
  BY <1>9 DEF Change, TypeOK
<1>10. CASE UNCHANGED vars
  <2>1. /\ UNCHANGED <<readable, search_path_, changes, pc, stack, included_files_, failed,
                       request, full_path>>
    BY <1>10 DEF vars, commandVars
  <2>2. Rooted(source) /\ Progress(source)
    BY <2>1, Kept DEF ProgressSoFar
  <2>3. \A i : Passed(i)' = Passed(i)
    BY <2>1 DEF Passed, Answering
  <2>4. StackIsSettled(source)' /\ RestIsSettled'
    BY <2>1, <2>2, <2>3, SettledKept DEF Progress, StackIsSettled, RestIsSettled, Processed
  <2>5. Answering => RequestIsDirective'
    BY <2>1, <2>2, Kept DEF Progress, RequestIsDirective, Top
  <2>6. QED
    BY <2>1, <2>2, <2>4, <2>5, Kept DEF Progress, Answering, Processed
<1>11. QED
  BY <1>1, <1>3, <1>4, <1>5, <1>6, <1>7, <1>8, <1>9, <1>10 DEF Next, Terminated

-----------------------------------------------------------------------------
(* The rules.                                                              *)

\* A step writes one rule at most, for the input that ends.
LEMMA RuleWritten ==
  ASSUME TypeOK, [Next]_vars, NEW r \in ToSet(rules'), r \notin ToSet(rules)
  PROVE  /\ DumpDependencyInfo
         /\ r = [source |-> Top.file, dependent_files |-> included_files_,
                 texts |-> texts, failed |-> failed]
<1>1. CASE DumpDependencyInfo
  <2> DEFINE rule == [source |-> Top.file, dependent_files |-> included_files_,
                      texts |-> texts, failed |-> failed]
  <2>1. pc = "parse" /\ Top.file \in DOMAIN Contents
    BY <1>1, StackTypes DEF DumpDependencyInfo, AtEnd
  <2>2. rule \in Rules /\ rules \in Seq(Rules)
    BY <2>1 DEF Rules, TypeOK
  <2>3. rules' = Append(rules, rule)
    BY <1>1 DEF DumpDependencyInfo
  <2> HIDE DEF rule
  <2>4. ToSet(rules') = ToSet(rules) \cup {rule}
    BY <2>2, <2>3 DEF ToSet
  <2>5. r = rule
    BY <2>4
  <2>6. QED
    BY <1>1, <2>5 DEF rule
<1>2. CASE ~ DumpDependencyInfo
  <2>1. rules' = rules
    BY <1>2 DEF Next, StartInput, SkipInput, Directive, Find, Read, EndOfInclude,
                ParseAgain, NoStageFound, Change, Terminated, vars
  <2>2. QED
    BY <2>1
<1>3. QED
  BY <1>1, <1>2

\* A file's text is taken as it is remembered.
LEMMA TextsStep ==
  ASSUME included_files_ = texts, [Next]_vars
  PROVE  included_files_' = texts'
BY DEF Next, StartInput, SkipInput, Directive, Find, Read, EndOfInclude, ParseAgain,
       NoStageFound, DumpDependencyInfo, Change, Terminated, vars

LEMMA CoversStep ==
  ASSUME TypeOK, included_files_ = texts, RuleCoversTexts, [Next]_vars
  PROVE  RuleCoversTexts'
<1> SUFFICES ASSUME NEW r \in ToSet(rules') PROVE r.dependent_files = r.texts
  BY DEF RuleCoversTexts
<1>1. CASE r \in ToSet(rules)
  BY <1>1 DEF RuleCoversTexts
<1>2. CASE r \notin ToSet(rules)
  BY <1>2, RuleWritten
<1>3. QED
  BY <1>1, <1>2

LEMMA CompleteStep ==
  ASSUME TypeOK, ProgressSoFar, RuleIsComplete, [Next]_vars
  PROVE  RuleIsComplete'
<1> SUFFICES ASSUME changes' = 0, NEW r \in ToSet(rules'), Rooted(r.source)'
             PROVE  /\ r.dependent_files = Reached(r.source)'
                    /\ r.failed <=> \E f \in Reached(r.source)' \cup {r.source} :
                                      Unresolved(f)'
  BY DEF RuleIsComplete, Rooted
<1>1. UNCHANGED <<readable, search_path_, changes>>
  BY DEF Next, StartInput, SkipInput, Directive, Find, Read, EndOfInclude, ParseAgain,
         NoStageFound, DumpDependencyInfo, Change, Terminated, vars, commandVars, TypeOK
<1>2. Rooted(r.source)
  BY <1>1, Kept
<1>3. /\ r.dependent_files = Reached(r.source)
      /\ r.failed <=> \E f \in Reached(r.source) \cup {r.source} : Unresolved(f)
  <2>1. CASE r \in ToSet(rules)
    BY <1>1, <1>2, <2>1 DEF RuleIsComplete, Rooted
  <2>2. CASE r \notin ToSet(rules)
    <3>1. /\ DumpDependencyInfo
          /\ r = [source |-> Top.file, dependent_files |-> included_files_,
                  texts |-> texts, failed |-> failed]
      BY <2>2, RuleWritten
    <3>2. AtEnd /\ pc = "parse" /\ Len(stack) = 1
      BY <3>1 DEF DumpDependencyInfo, AtEnd
    <3>3. r.source = stack[1].file /\ r.source \in DOMAIN Contents
      BY <3>1, <3>2, StackTypes
    <3>4. Progress(r.source)
      BY <1>1, <1>2, <3>2, <3>3 DEF ProgressSoFar
    <3>5. /\ included_files_ = Reached(r.source)
          /\ failed <=> \E f \in Reached(r.source) \cup {r.source} : Unresolved(f)
      BY <3>2, <3>3, <3>4, EndIsComplete
    <3>6. r.dependent_files = included_files_ /\ r.failed = failed
      BY <3>1
    <3>7. QED
      BY <3>5, <3>6
  <2>3. QED
    BY <2>1, <2>2
<1>4. QED
  BY <1>1, <1>3, Kept

-----------------------------------------------------------------------------
(* The theorems.                                                           *)

LEMMA InitIInv == Init => IInv
<1> SUFFICES ASSUME Init PROVE IInv
  OBVIOUS
<1>1. included_files_ = texts /\ ToSet(rules) = {} /\ pc = "next"
  BY DEF Init, ToSet
<1>2. QED
  BY <1>1, TypeInit DEF IInv, RuleCoversTexts, RuleIsComplete, ProgressSoFar

LEMMA Inductive == IInv /\ [Next]_vars => IInv'
<1> SUFFICES ASSUME IInv, [Next]_vars PROVE IInv'
  OBVIOUS
<1>1. TypeOK' /\ included_files_' = texts' /\ RuleCoversTexts'
  BY TypeStep, TextsStep, CoversStep DEF IInv
<1>2. ProgressSoFar' /\ RuleIsComplete'
  BY ProgressStep, CompleteStep DEF IInv
<1>3. QED
  BY <1>1, <1>2 DEF IInv

\* The inductive invariant holds in every reachable state, for any files,
\* directives, search paths and command lines.
THEOREM Invariance == Spec => []IInv
<1>1. QED
  BY InitIInv, Inductive, PTL DEF Spec

\* The finder hands on only what it found, and the stack holds files alone.
THEOREM TypeCorrect == Spec => []TypeOK
<1>1. IInv => TypeOK
  BY DEF IInv
<1>2. QED
  BY <1>1, Invariance, PTL

\* While the directories stay as they are, the rule of an input lists exactly
\* the files that the documented search reaches from it, however deep files are
\* nested or include each other, and the input fails exactly if the search
\* misses something.
THEOREM CompleteRules == Spec => []RuleIsComplete
<1>1. IInv => RuleIsComplete
  BY DEF IInv
<1>2. QED
  BY <1>1, Invariance, PTL

\* However files come and go, a rule lists those whose text was compiled.
THEOREM CoveringRules == Spec => []RuleCoversTexts
<1>1. IInv => RuleCoversTexts
  BY DEF IInv
<1>2. QED
  BY <1>1, Invariance, PTL

=============================================================================
