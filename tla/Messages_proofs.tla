---------------------------- MODULE Messages_proofs ----------------------------
(***************************************************************************)
(* Proofs about module Messages: for every log, whatever its lines are, the *)
(* search for a location stays inside the text and finds the leftmost one. *)
(*                                                                         *)
(* The argument is what the loop knows of the colons it has passed: none   *)
(* of them opens a location, because no colon lies between the two it      *)
(* holds.  That the text is stripped of white space is needed where a      *)
(* colon and a space could otherwise end it.                               *)
(***************************************************************************)
EXTENDS Messages, FiniteSetTheorems, WellFoundedInduction, TLAPS

(***************************************************************************)
(* Text.                                                                   *)
(***************************************************************************)

\* A nonempty set of naturals has a least element: the one that a search from
\* the left stops at.
LEMMA LeastExists ==
  ASSUME NEW S \in SUBSET Nat, S # {}
  PROVE  \E i \in S : \A j \in S : i <= j
<1>1. \E i \in S : \A j \in S : ~ (<<j, i>> \in OpToRel(<, Nat))
  BY NatLessThanWellFounded, WFMin
<1>2. \A i, j \in Nat : j < i => <<j, i>> \in OpToRel(<, Nat)
  BY DEF OpToRel
<1>3. PICK i \in S : \A j \in S : ~ (<<j, i>> \in OpToRel(<, Nat))
  BY <1>1
<1>4. \A j \in S : ~ (j < i)
  BY <1>2, <1>3
<1> QED BY <1>4

\* A nonempty set of positions of a text has a last element: the one that a
\* search from the right stops at.
LEMMA GreatestExists ==
  ASSUME NEW n \in Nat, NEW S \in SUBSET (1..n), S # {}
  PROVE  \E i \in S : \A j \in S : i >= j
<1> DEFINE T == {k \in 0..n : n - k \in S}
<1>1. PICK i \in S : TRUE
  OBVIOUS
<1>2. n - i \in 0..n /\ n - (n - i) = i
  BY <1>1
<1>3. T # {}
  BY <1>1, <1>2
<1>4. T \in SUBSET Nat
  OBVIOUS
<1>5. PICK k \in T : \A j \in T : k <= j
  BY <1>3, <1>4, LeastExists
<1>6. ASSUME NEW j \in S PROVE n - k >= j
  <2>1. n - j \in 0..n /\ n - (n - j) = j
    OBVIOUS
  <2>2. n - j \in T
    BY <2>1
  <2> QED BY <2>2, <1>5
<1>7. n - k \in S
  BY <1>5
<1> QED BY <1>6, <1>7

\* find_first_of returns the first place of c from position from on, or 0 when
\* there is none.
LEMMA FindFirstOf ==
  ASSUME NEW text \in Seq(Characters), NEW c, NEW from \in Nat \ {0}
  PROVE  LET r == find_first_of(text, c, from)
         IN  /\ r \in 0..Len(text)
             /\ r = 0 => \A i \in from..Len(text) : text[i] # c
             /\ r # 0 => /\ r >= from /\ text[r] = c
                         /\ \A i \in from..r - 1 : text[i] # c
<1> DEFINE found == {i \in from..Len(text) : text[i] = c}
           r == find_first_of(text, c, from)
<1>1. CASE found = {}
  <2>1. r = 0
    BY <1>1 DEF find_first_of
  <2> QED BY <2>1, <1>1
<1>2. CASE found # {}
  <2>1. found \in SUBSET Nat
    OBVIOUS
  <2>2. \E i \in found : \A j \in found : i <= j
    BY <2>1, <1>2, LeastExists
  <2>3. r = CHOOSE i \in found : \A j \in found : i <= j
    BY <1>2 DEF find_first_of
  <2>4. r \in found /\ \A j \in found : r <= j
    BY <2>2, <2>3
  <2>5. r \in from..Len(text) /\ text[r] = c
    BY <2>4
  <2>6. ASSUME NEW i \in from..r - 1 PROVE text[i] # c
    BY <2>4, <2>5
  <2> HIDE DEF r
  <2> QED BY <2>5, <2>6 DEF r
<1> QED BY <1>1, <1>2

\* A stripped text is a text, and its last character is not white space.
LEMMA Stripped ==
  ASSUME NEW text \in Seq(Characters)
  PROVE  LET r == strip_whitespace(text)
         IN  /\ r \in Seq(Characters)
             /\ r # <<>> => Len(r) > 0 /\ ~IsSpace(r[Len(r)])
<1> DEFINE solid == {i \in DOMAIN text : ~IsSpace(text[i])}
           a == CHOOSE i \in solid : \A j \in solid : i <= j
           b == CHOOSE i \in solid : \A j \in solid : i >= j
           r == strip_whitespace(text)
<1>1. CASE solid = {}
  BY <1>1 DEF strip_whitespace
<1>2. CASE solid # {}
  <2>1. DOMAIN text = 1..Len(text) /\ Len(text) \in Nat
    OBVIOUS
  <2>2. solid \in SUBSET Nat /\ solid \in SUBSET (1..Len(text))
    BY <2>1
  <2>3. a \in solid /\ \A j \in solid : a <= j
    BY <2>2, <1>2, LeastExists
  <2>4. b \in solid /\ \A j \in solid : b >= j
    BY <2>1, <2>2, <1>2, GreatestExists
  <2>5. r = SubSeq(text, a, b)
    BY <1>2 DEF strip_whitespace
  <2> HIDE DEF a, b, r
  <2>6. a \in 1..Len(text) /\ b \in 1..Len(text) /\ a <= b /\ ~IsSpace(text[b])
    BY <2>2, <2>3, <2>4
  <2>7. /\ SubSeq(text, a, b) \in Seq(Characters)
        /\ Len(SubSeq(text, a, b)) = b - a + 1
        /\ SubSeq(text, a, b)[b - a + 1] = text[b]
    BY <2>6
  <2> QED BY <2>5, <2>6, <2>7 DEF r
<1> QED BY <1>1, <1>2

(***************************************************************************)
(* The inductive invariant.                                                *)
(***************************************************************************)

Lines == [prefix : Prefixes, text : Seq(Characters)]

Searching == {"first_colon", "next_colon", "located", "global"}

\* No location opens before position first.
NoneBefore(first) == \A p \in Locations(message) : first <= p[1]

\* What TypeOK leaves out.
Typed ==
  /\ log \in Seq(Lines)
  /\ message \in Seq(Characters)
  /\ next_colon_pos \in Nat
  /\ pc \in Searching \cup {"line", "done"}
  /\ pc \in Searching => log # <<>> /\ Len(message) > 0
                         /\ ~IsSpace(message[Len(message)])

\* What the loop knows of the colons.
ColonsPassed ==
  /\ pc = "first_colon" =>
       IF first_colon_pos = 0 THEN Locations(message) = {}
       ELSE message[first_colon_pos] = ":" /\ NoneBefore(first_colon_pos)
  /\ pc = "next_colon" =>
       /\ message[first_colon_pos] = ":" /\ message[next_colon_pos] = ":"
       /\ \A i \in first_colon_pos + 1..next_colon_pos - 1 : message[i] # ":"
       /\ NoneBefore(first_colon_pos)

IInv == TypeOK /\ Typed /\ ColonsPassed /\ LocationIsFirst

\* What it is to be a location.
LEMMA LocationColons ==
  ASSUME NEW text \in Seq(Characters), NEW p \in Locations(text)
  PROVE  /\ p[1] \in 1..Len(text) /\ p[2] \in 1..Len(text)
         /\ p[1] + 1 < p[2] /\ p[2] + 1 < Len(text)
         /\ text[p[1]] = ":" /\ text[p[2]] = ":" /\ text[p[2] + 1] = "s"
         /\ AllDigits(text, p[1] + 1, p[2] - 1)
BY DEF Locations, IsLocation

\* Every line of a log has one of the prefixes.
LEMMA PrefixesOfLog ==
  ASSUME NEW l \in Seq(Lines)
  PROVE  \A i \in DOMAIN l : l[i].prefix \in Prefixes
<1> SUFFICES ASSUME NEW i \in DOMAIN l PROVE l[i].prefix \in Prefixes
  OBVIOUS
<1>1. l[i] \in Lines
  OBVIOUS
<1> QED BY <1>1 DEF Lines

\* One position before another.
LEMMA Between ==
  ASSUME NEW first \in Nat, NEW next \in Nat, first >= 1, next >= first + 1
  PROVE  first \in 1..next - 1
OBVIOUS

\* The head and the tail of a log are a line and a log.
LEMMA LogParts ==
  ASSUME NEW l \in Seq(Lines), l # <<>>
  PROVE  Head(l) \in Lines /\ Tail(l) \in Seq(Lines)
OBVIOUS

(***************************************************************************)
(* The proof.                                                              *)
(***************************************************************************)

LEMMA InitIInv == Init => IInv
<1> SUFFICES ASSUME Init PROVE IInv
  OBVIOUS
<1>1. log \in Seq(Lines)
  BY LogsAssumption DEF Init, Lines
<1>2. \A i \in DOMAIN log : log[i].prefix \in Prefixes
  BY <1>1, PrefixesOfLog
<1>3. TypeOK
  BY <1>2 DEF Init, TypeOK
<1>4. Typed
  BY <1>1 DEF Init, Typed, Searching
<1>5. ColonsPassed /\ LocationIsFirst
  BY DEF Init, ColonsPassed, LocationIsFirst
<1> QED BY <1>3, <1>4, <1>5 DEF IInv

\* A step that goes to the next line, or stops.
LEMMA NextLine ==
  ASSUME IInv, pc' \in {"line", "done"}, UNCHANGED <<flags, positions>>,
         log' \in Seq(Lines), total_errors' \in Nat, total_warnings' \in Nat
  PROVE  IInv'
<1>1. \A i \in DOMAIN log' : log'[i].prefix \in Prefixes
  BY PrefixesOfLog
<1>2. TypeOK'
  BY <1>1 DEF IInv, TypeOK, flags, positions
<1>3. Typed'
  BY DEF IInv, Typed, Searching, positions
<1>4. ColonsPassed' /\ LocationIsFirst'
  BY DEF ColonsPassed, LocationIsFirst
<1> QED BY <1>2, <1>3, <1>4 DEF IInv

\* A step of the search that leaves the line and the totals alone.
LEMMA SameLine ==
  ASSUME IInv, UNCHANGED <<flags, log, message, totals>>,
         pc \in Searching, pc' \in Searching, next_colon_pos' \in Nat
  PROVE  Typed' /\ \A i \in DOMAIN log' : log'[i].prefix \in Prefixes
BY DEF IInv, Typed, TypeOK, Searching

LEMMA CountAsTotals ==
  ASSUME IInv, NEW is_error \in BOOLEAN, CountAs(is_error)
  PROVE  total_errors' \in Nat /\ total_warnings' \in Nat
BY DEF IInv, TypeOK, CountAs

LEMMA AdvanceLog ==
  ASSUME IInv, log # <<>>, Advance
  PROVE  log' \in Seq(Lines) /\ pc' \in {"line", "done"}
BY LogParts DEF IInv, Typed, Advance

LEMMA LookForLocationStep == IInv /\ LookForLocation => IInv'
<1> SUFFICES ASSUME IInv, LookForLocation PROVE IInv'
  OBVIOUS
<1>1. Line \in Lines
  BY LogParts DEF IInv, Typed, Line, LookForLocation
<1>2. message' \in Seq(Characters) /\ Len(message') > 0
      /\ ~IsSpace(message'[Len(message')])
  BY <1>1, Stripped DEF Lines, LookForLocation
<1>3. pc' \in {"first_colon", "global"} /\ next_colon_pos' = 0
      /\ UNCHANGED <<flags, log, totals>> /\ log # <<>> /\ message' # <<>>
  BY DEF LookForLocation
<1>4. Typed' /\ \A i \in DOMAIN log' : log'[i].prefix \in Prefixes
  BY <1>2, <1>3 DEF IInv, Typed, TypeOK, Searching
<1>5. CASE Len(message') <= 4
  <2>1. first_colon_pos' = 0 /\ pc' = "global"
    BY <1>5 DEF LookForLocation
  <2>2. Locations(message') = {}
    <3>1. ASSUME NEW p \in Locations(message') PROVE FALSE
      BY <1>2, <1>5, <3>1, LocationColons
    <3> QED BY <3>1
  <2>3. TypeOK'
    BY <1>2, <1>3, <1>4, <2>1 DEF IInv, TypeOK, flags, totals
  <2>4. ColonsPassed' /\ LocationIsFirst'
    BY <1>3, <2>1, <2>2 DEF ColonsPassed, LocationIsFirst
  <2> QED BY <1>4, <2>3, <2>4 DEF IInv
<1>6. CASE ~(Len(message') <= 4)
  <2>1. first_colon_pos' = find_first_of(message', ":", 1) /\ pc' = "first_colon"
    BY <1>6 DEF LookForLocation
  <2>2. /\ first_colon_pos' \in 0..Len(message')
        /\ first_colon_pos' = 0 => \A i \in 1..Len(message') : message'[i] # ":"
        /\ first_colon_pos' # 0 =>
             /\ message'[first_colon_pos'] = ":"
             /\ \A i \in 1..first_colon_pos' - 1 : message'[i] # ":"
    BY <1>2, <2>1, FindFirstOf
  <2>3. TypeOK'
    BY <1>2, <1>3, <1>4, <2>1, <2>2 DEF IInv, TypeOK, flags, totals
  <2>4. first_colon_pos' = 0 => Locations(message') = {}
    <3>1. ASSUME first_colon_pos' = 0, NEW p \in Locations(message') PROVE FALSE
      BY <1>2, <2>2, <3>1, LocationColons
    <3> QED BY <3>1
  <2>5. first_colon_pos' # 0 => NoneBefore(first_colon_pos)'
    <3> SUFFICES ASSUME first_colon_pos' # 0, NEW p \in Locations(message')
                 PROVE  first_colon_pos' <= p[1]
      BY DEF NoneBefore
    <3>1. p[1] \in 1..Len(message') /\ message'[p[1]] = ":"
      BY <1>2, LocationColons
    <3>2. first_colon_pos' \in Nat
      BY <2>2
    <3>3. ~(p[1] \in 1..first_colon_pos' - 1)
      <4>1. \A i \in 1..first_colon_pos' - 1 : message'[i] # ":"
        BY <2>2
      <4> QED BY <3>1, <4>1
    <3>4. p[1] \in Nat /\ p[1] >= 1
      BY <3>1
    <3> QED BY <3>2, <3>3, <3>4
  <2>6. ColonsPassed' /\ LocationIsFirst'
    BY <2>1, <2>2, <2>4, <2>5 DEF ColonsPassed, LocationIsFirst
  <2> QED BY <1>4, <2>3, <2>6 DEF IInv
<1> QED BY <1>5, <1>6

LEMMA FindNextColonStep == IInv /\ FindNextColon => IInv'
<1> SUFFICES ASSUME IInv, FindNextColon PROVE IInv'
  OBVIOUS
<1>1. /\ message \in Seq(Characters) /\ Len(message) \in Nat
      /\ first_colon_pos \in 1..Len(message) - 3
      /\ message[first_colon_pos] = ":" /\ NoneBefore(first_colon_pos)
      /\ pc = "first_colon"
      /\ UNCHANGED <<flags, log, message, first_colon_pos, totals>>
  BY DEF IInv, Typed, ColonsPassed, FindNextColon, FirstColonCutoff
<1>2. /\ next_colon_pos' \in 0..Len(message)
      /\ next_colon_pos' = 0 =>
           \A i \in first_colon_pos + 1..Len(message) : message[i] # ":"
      /\ next_colon_pos' # 0 =>
           /\ next_colon_pos' >= first_colon_pos + 1
           /\ message[next_colon_pos'] = ":"
           /\ \A i \in first_colon_pos + 1..next_colon_pos' - 1 : message[i] # ":"
  <2>1. first_colon_pos + 1 \in Nat \ {0}
    BY <1>1
  <2> QED BY <1>1, <2>1, FindFirstOf DEF FindNextColon
<1>3. pc' = IF next_colon_pos' \in 1..Len(message) - 1 THEN "next_colon" ELSE "global"
  BY DEF FindNextColon, NextColonCutoff
<1>4. Typed' /\ \A i \in DOMAIN log' : log'[i].prefix \in Prefixes
  BY <1>1, <1>2, <1>3, SameLine DEF Searching
<1>5. TypeOK'
  <2>1. pc' = "next_colon" => /\ first_colon_pos' \in 1..next_colon_pos' - 1
                              /\ next_colon_pos' + 1 <= Len(message')
    <3> SUFFICES ASSUME pc' = "next_colon"
                 PROVE  /\ first_colon_pos' \in 1..next_colon_pos' - 1
                        /\ next_colon_pos' + 1 <= Len(message')
      OBVIOUS
    <3>1. next_colon_pos' \in 1..Len(message) - 1
      BY <1>3
    <3>2. next_colon_pos' # 0
      BY <3>1
    <3>3. next_colon_pos' >= first_colon_pos + 1
      BY <1>2, <3>2
    <3>4. first_colon_pos \in Nat /\ first_colon_pos >= 1 /\ Len(message) \in Nat
          /\ next_colon_pos' \in Nat
      BY <1>1, <3>1
    <3>5. first_colon_pos \in 1..next_colon_pos' - 1
      BY <3>3, <3>4, Between
    <3>6. next_colon_pos' + 1 <= Len(message)
      BY <3>1, <3>4
    <3> QED BY <1>1, <3>5, <3>6
  <2>2. first_colon_pos' \in 0..Len(message')
    BY <1>1
  <2> QED BY <1>1, <1>4, <2>1, <2>2 DEF IInv, TypeOK, flags, totals
<1>6. CASE pc' = "next_colon"
  <2>1. next_colon_pos' # 0
    BY <1>3, <1>6
  <2>2. NoneBefore(first_colon_pos)'
    BY <1>1 DEF NoneBefore
  <2>3. \A i \in first_colon_pos' + 1..next_colon_pos' - 1 : message'[i] # ":"
    BY <1>1, <1>2, <2>1
  <2>4. ColonsPassed'
    BY <1>1, <1>2, <1>6, <2>1, <2>2, <2>3 DEF ColonsPassed
  <2>5. LocationIsFirst'
    BY <1>6 DEF LocationIsFirst
  <2> QED BY <1>4, <1>5, <2>4, <2>5 DEF IInv
<1>7. CASE pc' = "global"
  <2>1. ASSUME NEW p \in Locations(message) PROVE FALSE
    <3>1. /\ p[1] \in 1..Len(message) /\ p[2] \in 1..Len(message)
          /\ p[1] + 1 < p[2] /\ p[2] + 1 < Len(message) /\ message[p[2]] = ":"
      BY <1>1, LocationColons
    <3>2. first_colon_pos <= p[1]
      BY <1>1 DEF NoneBefore
    <3>3. p[2] \in first_colon_pos + 1..Len(message)
      BY <1>1, <3>1, <3>2
    <3>4. next_colon_pos' # 0
      BY <1>2, <3>1, <3>3
    <3>5. next_colon_pos' <= p[2]
      <4>1. ~(p[2] \in first_colon_pos + 1..next_colon_pos' - 1)
        BY <1>2, <3>1, <3>4
      <4> QED BY <1>2, <3>3, <4>1
    <3> QED BY <1>1, <1>2, <1>3, <1>7, <3>1, <3>4, <3>5
  <2>2. Locations(message') = {}
    BY <1>1, <2>1
  <2>3. message' # <<>>
    BY <1>1
  <2>4. ColonsPassed' /\ LocationIsFirst'
    BY <1>7, <2>2, <2>3 DEF ColonsPassed, LocationIsFirst
  <2> QED BY <1>4, <1>5, <2>4 DEF IInv
<1> QED BY <1>3, <1>6, <1>7

LEMMA NoLocationStep == IInv /\ NoLocation => IInv'
<1> SUFFICES ASSUME IInv, NoLocation PROVE IInv'
  OBVIOUS
<1>1. /\ message \in Seq(Characters) /\ Len(message) \in Nat
      /\ first_colon_pos \in 0..Len(message)
      /\ first_colon_pos \notin 1..Len(message) - 3
      /\ pc = "first_colon" /\ pc' = "global"
      /\ UNCHANGED <<flags, log, message, first_colon_pos, next_colon_pos, totals>>
  BY DEF IInv, TypeOK, Typed, NoLocation, FirstColonCutoff, positions
<1>2. Typed' /\ \A i \in DOMAIN log' : log'[i].prefix \in Prefixes
  BY <1>1, SameLine DEF Searching, IInv, Typed
<1>3. TypeOK'
  BY <1>1, <1>2 DEF IInv, TypeOK, flags, totals
<1>4. ASSUME NEW p \in Locations(message) PROVE FALSE
  <2>1. first_colon_pos # 0 /\ NoneBefore(first_colon_pos)
    BY <1>1, <1>4 DEF IInv, ColonsPassed
  <2>2. first_colon_pos <= p[1]
    BY <2>1 DEF NoneBefore
  <2>3. /\ p[1] \in 1..Len(message) /\ p[2] \in 1..Len(message)
        /\ p[1] + 1 < p[2] /\ p[2] + 1 < Len(message)
    BY <1>1, LocationColons
  <2> QED BY <1>1, <2>1, <2>2, <2>3
<1>5. Locations(message') = {} /\ message' # <<>>
  <2>1. Len(message) > 0
    BY <1>1 DEF IInv, Typed, Searching
  <2> QED BY <1>1, <1>4, <2>1
<1>6. ColonsPassed' /\ LocationIsFirst'
  BY <1>1, <1>5 DEF ColonsPassed, LocationIsFirst
<1> QED BY <1>2, <1>3, <1>6 DEF IInv

LEMMA TestPairStep == IInv /\ TestPair => IInv'
<1> SUFFICES ASSUME IInv, TestPair PROVE IInv'
  OBVIOUS
<1>1. /\ message \in Seq(Characters) /\ Len(message) \in Nat
      /\ first_colon_pos \in 1..next_colon_pos - 1
      /\ next_colon_pos \in 2..Len(message) - 1
      /\ message[first_colon_pos] = ":" /\ message[next_colon_pos] = ":"
      /\ \A i \in first_colon_pos + 1..next_colon_pos - 1 : message[i] # ":"
      /\ NoneBefore(first_colon_pos)
      /\ ~IsSpace(message[Len(message)])
      /\ pc = "next_colon"
      /\ UNCHANGED <<flags, log, message, next_colon_pos, totals>>
  BY DEF IInv, TypeOK, Typed, Searching, ColonsPassed, TestPair
<1>2. ASSUME pc' \in {"located", "first_colon"} PROVE
        Typed' /\ \A i \in DOMAIN log' : log'[i].prefix \in Prefixes
  BY <1>1, <1>2, SameLine DEF Searching
<1>3. CASE EnclosesNumber
  <2>1. pc' = "located" /\ UNCHANGED first_colon_pos
    BY <1>3 DEF TestPair
  <2>2. TypeOK'
    BY <1>1, <1>2, <2>1 DEF IInv, TypeOK, flags, totals
  <2>3. next_colon_pos + 1 # Len(message)
    BY <1>1, <1>3 DEF EnclosesNumber, IsSpace
  <2>4. IsLocation(message, first_colon_pos, next_colon_pos)
    BY <1>1, <1>3, <2>3 DEF IsLocation, EnclosesNumber
  <2>5. first_colon_pos \in 1..Len(message) /\ next_colon_pos \in 1..Len(message)
    BY <1>1
  <2>6. <<first_colon_pos, next_colon_pos>> \in Locations(message)
    BY <2>4, <2>5 DEF Locations
  <2>7. LocationIsFirst' /\ ColonsPassed'
    BY <1>1, <2>1, <2>6 DEF LocationIsFirst, ColonsPassed, NoneBefore
  <2> QED BY <1>2, <2>1, <2>2, <2>7 DEF IInv
<1>4. CASE ~EnclosesNumber
  <2>1. pc' = "first_colon" /\ first_colon_pos' = next_colon_pos
    BY <1>4 DEF TestPair
  <2>2. first_colon_pos' \in 0..Len(message')
    BY <1>1, <2>1
  <2>3. TypeOK'
    BY <1>1, <1>2, <2>1, <2>2 DEF IInv, TypeOK, flags, totals
  <2>4. ASSUME NEW p \in Locations(message) PROVE next_colon_pos <= p[1]
    <3>1. /\ p[1] \in 1..Len(message) /\ p[2] \in 1..Len(message)
          /\ p[1] + 1 < p[2] /\ p[2] + 1 < Len(message)
          /\ message[p[1]] = ":" /\ message[p[2]] = ":" /\ message[p[2] + 1] = "s"
          /\ AllDigits(message, p[1] + 1, p[2] - 1)
      BY <1>1, LocationColons
    <3>2. first_colon_pos <= p[1]
      BY <1>1 DEF NoneBefore
    \* The two colons it holds are no location, and a location has no colon
    \* inside its number.
    <3>3. p[1] # first_colon_pos
      <4> SUFFICES ASSUME p[1] = first_colon_pos PROVE FALSE
        OBVIOUS
      <4>1. p[2] >= next_colon_pos
        <5>1. ~(p[2] \in first_colon_pos + 1..next_colon_pos - 1)
          BY <1>1, <3>1
        <5> QED BY <1>1, <3>1, <5>1
      <4>2. \A i \in p[1] + 1..p[2] - 1 : message[i] = "d"
        BY <3>1 DEF AllDigits
      <4>3. p[2] <= next_colon_pos
        <5>1. ~(next_colon_pos \in p[1] + 1..p[2] - 1)
          BY <1>1, <4>2
        <5> QED BY <1>1, <3>1, <5>1
      <4>4. p[2] = next_colon_pos
        BY <1>1, <3>1, <4>1, <4>3
      <4>5. EnclosesNumber
        BY <1>1, <3>1, <4>4 DEF EnclosesNumber
      <4> QED BY <1>4, <4>5
    <3>4. ~(p[1] \in first_colon_pos + 1..next_colon_pos - 1)
      BY <1>1, <3>1
    <3> QED BY <1>1, <3>1, <3>2, <3>3, <3>4
  <2>5. NoneBefore(first_colon_pos)'
    BY <1>1, <2>1, <2>4 DEF NoneBefore
  <2>6. LocationIsFirst' /\ ColonsPassed'
    BY <1>1, <2>1, <2>5 DEF LocationIsFirst, ColonsPassed
  <2> QED BY <1>2, <2>1, <2>3, <2>6 DEF IInv
<1> QED BY <1>3, <1>4

LEMMA Inductive == IInv /\ [Next]_vars => IInv'
<1> SUFFICES ASSUME IInv, [Next]_vars PROVE IInv'
  OBVIOUS
<1>1. CASE SkipLine
  <2>1. log # <<>> /\ Advance /\ UNCHANGED <<flags, positions, totals>>
    BY <1>1 DEF SkipLine
  <2>2. total_errors' \in Nat /\ total_warnings' \in Nat
    BY <2>1 DEF IInv, TypeOK, totals
  <2> QED BY <2>1, <2>2, AdvanceLog, NextLine
<1>2. CASE UnknownLine
  <2>1. log # <<>> /\ Advance /\ UNCHANGED <<flags, positions, totals>>
    BY <1>2 DEF UnknownLine
  <2>2. total_errors' \in Nat /\ total_warnings' \in Nat
    BY <2>1 DEF IInv, TypeOK, totals
  <2> QED BY <2>1, <2>2, AdvanceLog, NextLine
<1>3. CASE GlobalWarningLine
  <2>1. log # <<>> /\ Advance /\ UNCHANGED <<flags, positions>> /\ CountAs(FALSE)
    BY <1>3 DEF GlobalWarningLine
  <2> QED BY <2>1, AdvanceLog, CountAsTotals, NextLine
<1>4. CASE LookForLocation
  BY <1>4, LookForLocationStep
<1>5. CASE FindNextColon
  BY <1>5, FindNextColonStep
<1>6. CASE NoLocation
  BY <1>6, NoLocationStep
<1>7. CASE TestPair
  BY <1>7, TestPairStep
<1>8. CASE LocatedLine
  <2>1. Advance /\ UNCHANGED <<flags, positions>> /\ CountAs(Line.prefix = "ERROR")
    BY <1>8 DEF LocatedLine
  <2>2. log # <<>>
    BY <1>8 DEF LocatedLine, IInv, Typed, Searching
  <2> QED BY <2>1, <2>2, AdvanceLog, CountAsTotals, NextLine
<1>9. CASE GlobalLine
  <2>1. log # <<>> /\ Advance /\ UNCHANGED <<flags, positions>>
    BY <1>9 DEF GlobalLine, IInv, Typed, Searching
  <2>2. UNCHANGED totals \/ CountAs(Line.prefix = "ERROR")
    BY <1>9 DEF GlobalLine
  <2>3. total_errors' \in Nat /\ total_warnings' \in Nat
    BY <2>2, CountAsTotals DEF IInv, TypeOK, totals
  <2> QED BY <2>1, <2>3, AdvanceLog, NextLine
<1>10. CASE EndOfLog
  <2>1. pc' = "done" /\ UNCHANGED <<flags, log, positions, totals>>
    BY <1>10 DEF EndOfLog
  <2>2. log' \in Seq(Lines) /\ total_errors' \in Nat /\ total_warnings' \in Nat
    BY <2>1 DEF IInv, Typed, TypeOK, totals
  <2> QED BY <2>1, <2>2, NextLine
<1>11. CASE UNCHANGED vars
  <2>1. UNCHANGED <<warnings_as_errors, suppress_warnings, log, message,
                    first_colon_pos, next_colon_pos, pc, total_errors, total_warnings>>
    BY <1>11 DEF vars, flags, totals, positions
  <2> QED BY <2>1 DEF IInv, TypeOK, Typed, ColonsPassed, NoneBefore, LocationIsFirst
<1>12. CASE Terminated
  BY <1>11, <1>12 DEF Terminated
<1> QED BY <1>1, <1>2, <1>3, <1>4, <1>5, <1>6, <1>7, <1>8, <1>9, <1>10, <1>11, <1>12
        DEF Next

\* The inductive invariant holds in every reachable state.
THEOREM Invariance == Spec => []IInv
<1> QED BY InitIInv, Inductive, PTL DEF Spec

\* Every position that DeduceLocationSpec reads lies inside the text: the two
\* cutoffs are enough, however short the text is.
THEOREM TypeCorrect == Spec => []TypeOK
<1>1. IInv => TypeOK
  BY DEF IInv
<1> QED BY <1>1, Invariance, PTL

\* DeduceLocationSpec finds the leftmost location of a text, and says that a
\* text has none only when it has none.
THEOREM LeftmostLocation == Spec => []LocationIsFirst
<1>1. IInv => LocationIsFirst
  BY DEF IInv
<1> QED BY <1>1, Invariance, PTL

(***************************************************************************)
(* The totals.                                                             *)
(***************************************************************************)

\* How many of the first k lines count, as errors or as warnings.
UpTo(lines, k, warnings) ==
  Cardinality({i \in 1..k : Counts(lines[i]) /\ (IsWarning(lines[i]) <=> warnings)})

Seen == Len(given) - Len(log)
SoFar == [errors |-> UpTo(given, Seen, FALSE), warnings |-> UpTo(given, Seen, TRUE)]

\* What is left of the log is its end, the totals are those of the lines before,
\* and a line whose location is looked for may count.
CountsSoFar ==
  /\ given \in Seq(Lines) /\ Len(log) <= Len(given)
  /\ \A i \in 1..Len(log) : log[i] = given[Seen + i]
  /\ total_errors = NewErrors(SoFar, warnings_as_errors, suppress_warnings)
  /\ total_warnings = NewWarnings(SoFar, warnings_as_errors, suppress_warnings)
  /\ pc \in Searching => /\ Line.prefix \in {"ERROR", "WARNING"} /\ ~Suppressed(Line)
                         /\ message = strip_whitespace(Line.text) /\ message # <<>>
  /\ pc = "done" => log = <<>>

LEMMA CountNone == \A lines, w : UpTo(lines, 0, w) = 0
<1>1. \A lines, w : {i \in 1..0 : Counts(lines[i]) /\ (IsWarning(lines[i]) <=> w)} = {}
  OBVIOUS
<1>2. QED
  BY <1>1, FS_EmptySet DEF UpTo

\* One more line counts once, or not at all.
LEMMA CountOne ==
  ASSUME NEW lines, NEW k \in Nat, NEW w
  PROVE  /\ UpTo(lines, k, w) \in Nat
         /\ UpTo(lines, k + 1, w) =
              IF Counts(lines[k + 1]) /\ (IsWarning(lines[k + 1]) <=> w)
              THEN UpTo(lines, k, w) + 1 ELSE UpTo(lines, k, w)
<1> DEFINE counted(m) == {i \in 1..m : Counts(lines[i]) /\ (IsWarning(lines[i]) <=> w)}
           one == Counts(lines[k + 1]) /\ (IsWarning(lines[k + 1]) <=> w)
<1>1. IsFiniteSet(1..k)
  BY FS_Interval
<1>2. IsFiniteSet(counted(k)) /\ k + 1 \notin counted(k)
  BY <1>1, FS_Subset
<1>3. 1..k + 1 = (1..k) \cup {k + 1}
  OBVIOUS
<1>4. counted(k + 1) = IF one THEN counted(k) \cup {k + 1} ELSE counted(k)
  BY <1>3
<1> HIDE DEF counted, one
<1>5. Cardinality(counted(k)) \in Nat
  BY <1>2, FS_CardinalityType
<1>6. one => Cardinality(counted(k + 1)) = Cardinality(counted(k)) + 1
  BY <1>2, <1>4, FS_AddElement
<1>7. ~one => Cardinality(counted(k + 1)) = Cardinality(counted(k))
  BY <1>4
<1>8. QED
  BY <1>5, <1>6, <1>7 DEF UpTo, counted, one

\* The line being looked at follows those that were seen.
LEMMA LineSeen ==
  ASSUME Typed, CountsSoFar, log # <<>>
  PROVE  /\ Seen \in Nat /\ Line = given[Seen + 1] /\ Line \in Lines
<1>1. log \in Seq(Lines) /\ given \in Seq(Lines) /\ Len(log) <= Len(given)
  BY DEF Typed, CountsSoFar
<1>2. Len(log) \in Nat /\ Len(given) \in Nat /\ 1 \in 1..Len(log)
  BY <1>1
<1>3. Line = log[1] /\ Line \in Lines
  BY <1>1, <1>2 DEF Line
<1>4. log[1] = given[Seen + 1]
  BY <1>2 DEF CountsSoFar
<1>5. QED
  BY <1>1, <1>2, <1>3, <1>4 DEF Seen

LEMMA SeenNext ==
  ASSUME Typed, CountsSoFar, log # <<>>, log' = Tail(log), given' = given
  PROVE  /\ given' \in Seq(Lines) /\ Len(log') <= Len(given') /\ Seen' = Seen + 1
         /\ \A i \in 1..Len(log') : log'[i] = given'[Seen' + i]
<1>1. log \in Seq(Lines) /\ given \in Seq(Lines) /\ Len(log) <= Len(given)
  BY DEF Typed, CountsSoFar
<1>2. /\ Len(log) \in Nat /\ Len(given) \in Nat
      /\ Len(log') = Len(log) - 1 /\ Len(log') \in Nat
      /\ \A i \in 1..Len(log') : log'[i] = log[i + 1] /\ i + 1 \in 1..Len(log)
  BY <1>1
<1>3. Seen' = Seen + 1 /\ Seen \in Nat
  BY <1>1, <1>2 DEF Seen
<1>4. ASSUME NEW i \in 1..Len(log') PROVE log'[i] = given'[Seen' + i]
  <2>1. log'[i] = given[Seen + (i + 1)]
    BY <1>2 DEF CountsSoFar
  <2>2. Seen + (i + 1) = Seen' + i
    BY <1>2, <1>3
  <2>3. QED
    BY <2>1, <2>2
<1>5. QED
  BY <1>1, <1>2, <1>3, <1>4

\* A line that counts is counted once, as the flags say, and no other.
LEMMA LineCounted ==
  ASSUME Typed, CountsSoFar, log # <<>>, Advance, UNCHANGED <<flags, given>>,
         warnings_as_errors \in BOOLEAN, suppress_warnings \in BOOLEAN,
         \/ UNCHANGED totals /\ (~Counts(Line) \/ Suppressed(Line))
         \/ Counts(Line) /\ ~Suppressed(Line) /\ CountAs(~IsWarning(Line))
  PROVE  CountsSoFar'
<1> DEFINE e == UpTo(given, Seen, FALSE)
           w == UpTo(given, Seen, TRUE)
<1>1. /\ given' \in Seq(Lines) /\ Len(log') <= Len(given') /\ Seen' = Seen + 1
      /\ \A i \in 1..Len(log') : log'[i] = given'[Seen' + i]
      /\ pc' = "line" /\ UNCHANGED <<warnings_as_errors, suppress_warnings, given>>
  BY SeenNext DEF Advance, flags
<1>2. Seen \in Nat /\ Line = given[Seen + 1]
  BY LineSeen
<1>3. /\ e \in Nat /\ w \in Nat
      /\ UpTo(given, Seen + 1, FALSE) =
           IF Counts(Line) /\ (IsWarning(Line) <=> FALSE) THEN e + 1 ELSE e
      /\ UpTo(given, Seen + 1, TRUE) =
           IF Counts(Line) /\ (IsWarning(Line) <=> TRUE) THEN w + 1 ELSE w
  BY <1>2, CountOne
<1>4. /\ SoFar'.errors = UpTo(given, Seen + 1, FALSE)
      /\ SoFar'.warnings = UpTo(given, Seen + 1, TRUE)
  BY <1>1 DEF SoFar
<1>5. /\ total_errors = e + (IF warnings_as_errors /\ ~suppress_warnings THEN w ELSE 0)
      /\ total_warnings = IF warnings_as_errors \/ suppress_warnings THEN 0 ELSE w
  BY DEF CountsSoFar, NewErrors, NewWarnings, SoFar
<1>6. Suppressed(Line) <=> suppress_warnings /\ IsWarning(Line)
  BY DEF Suppressed
<1>7. /\ total_errors' = SoFar'.errors + (IF warnings_as_errors /\ ~suppress_warnings
                                          THEN SoFar'.warnings ELSE 0)
      /\ total_warnings' = IF warnings_as_errors \/ suppress_warnings
                           THEN 0 ELSE SoFar'.warnings
  <2> HIDE DEF e, w
  <2>1. CASE UNCHANGED totals /\ ~Counts(Line)
    BY <1>3, <1>4, <1>5, <2>1 DEF totals
  <2>2. CASE UNCHANGED totals /\ Suppressed(Line)
    BY <1>3, <1>4, <1>5, <1>6, <2>2 DEF totals
  <2>3. CASE Counts(Line) /\ ~Suppressed(Line) /\ CountAs(~IsWarning(Line))
    <3>1. CASE IsWarning(Line)
      <4>1. /\ ~suppress_warnings /\ SoFar'.errors = e /\ SoFar'.warnings = w + 1
        BY <1>3, <1>4, <1>6, <2>3, <3>1
      <4>2. IF warnings_as_errors
            THEN total_errors' = total_errors + 1 /\ UNCHANGED total_warnings
            ELSE total_warnings' = total_warnings + 1 /\ UNCHANGED total_errors
        BY <2>3, <3>1 DEF CountAs
      <4>3. QED
        BY <1>3, <1>5, <4>1, <4>2
    <3>2. CASE ~IsWarning(Line)
      <4>1. /\ SoFar'.errors = e + 1 /\ SoFar'.warnings = w
        BY <1>3, <1>4, <2>3, <3>2
      <4>2. total_errors' = total_errors + 1 /\ UNCHANGED total_warnings
        BY <2>3, <3>2 DEF CountAs
      <4>3. QED
        BY <1>3, <1>5, <4>1, <4>2
    <3>3. QED
      BY <3>1, <3>2
  <2>4. QED
    BY <2>1, <2>2, <2>3
<1>8. /\ total_errors' = NewErrors(SoFar', warnings_as_errors', suppress_warnings')
      /\ total_warnings' = NewWarnings(SoFar', warnings_as_errors', suppress_warnings')
  BY <1>1, <1>7 DEF NewErrors, NewWarnings
<1>9. QED
  BY <1>1, <1>8 DEF CountsSoFar, Searching

LEMMA InitCounts == Init => CountsSoFar
<1> SUFFICES ASSUME Init PROVE CountsSoFar
  OBVIOUS
<1>1. given \in Seq(Lines) /\ log = given
  BY LogsAssumption DEF Init, Lines
<1>2. Len(given) \in Nat /\ Seen = 0
  BY <1>1 DEF Seen
<1>3. SoFar.errors = 0 /\ SoFar.warnings = 0
  BY <1>2, CountNone DEF SoFar
<1>4. /\ total_errors = NewErrors(SoFar, warnings_as_errors, suppress_warnings)
      /\ total_warnings = NewWarnings(SoFar, warnings_as_errors, suppress_warnings)
  BY <1>3 DEF Init, NewErrors, NewWarnings
<1>5. \A i \in 1..Len(log) : log[i] = given[Seen + i]
  BY <1>1, <1>2
<1>6. QED
  BY <1>1, <1>2, <1>4, <1>5 DEF Init, CountsSoFar, Searching

\* Steps that neither go to the next line nor count.
LEMMA SameLineCounts ==
  ASSUME CountsSoFar, UNCHANGED <<flags, log, totals, given>>,
         pc' \in Searching =>
           /\ Line.prefix \in {"ERROR", "WARNING"} /\ ~Suppressed(Line)
           /\ message' = strip_whitespace(Line.text) /\ message' # <<>>,
         pc' = "done" => log = <<>>
  PROVE  CountsSoFar'
<1>1. UNCHANGED <<Line, Seen, SoFar>> /\ (Suppressed(Line)' <=> Suppressed(Line))
  BY DEF Line, Seen, SoFar, Suppressed, flags
<1>2. QED
  BY <1>1 DEF CountsSoFar, totals, flags

LEMMA CountsStep ==
  ASSUME IInv, CountsSoFar, [Next]_vars
  PROVE  CountsSoFar'
<1>1. warnings_as_errors \in BOOLEAN /\ suppress_warnings \in BOOLEAN /\ Typed
  BY DEF IInv, TypeOK
<1>2. log # <<>> => Line \in Lines
  BY <1>1, LineSeen
<1>3. CASE SkipLine
  <2>1. ~Counts(Line) \/ Suppressed(Line)
    BY <1>3 DEF SkipLine, Counts
  <2>2. QED
    BY <1>1, <1>3, <2>1, LineCounted DEF SkipLine
<1>4. CASE UnknownLine
  <2>1. ~Counts(Line)
    BY <1>4 DEF UnknownLine, Counts
  <2>2. QED
    BY <1>1, <1>4, <2>1, LineCounted DEF UnknownLine
<1>5. CASE GlobalWarningLine
  <2>1. Counts(Line) /\ IsWarning(Line)
    BY <1>5 DEF GlobalWarningLine, Counts, IsWarning
  <2>2. CountAs(FALSE) <=> CountAs(~IsWarning(Line))
    BY <2>1 DEF CountAs
  <2>3. QED
    BY <1>1, <1>5, <2>1, <2>2, LineCounted DEF GlobalWarningLine
<1>6. CASE LookForLocation
  BY <1>6, SameLineCounts DEF LookForLocation, Searching
<1>7. CASE FindNextColon \/ NoLocation \/ TestPair
  <2>1. /\ pc \in Searching /\ pc' # "done"
        /\ UNCHANGED <<flags, log, message, totals, given>>
    BY <1>7 DEF FindNextColon, NoLocation, TestPair, Searching, positions
  <2>2. QED
    BY <2>1, SameLineCounts DEF CountsSoFar
\* A line whose location was looked for.
<1>8. ASSUME pc \in Searching
      PROVE  /\ log # <<>> /\ ~Suppressed(Line)
             /\ Counts(Line) <=> (IsSummaryMessage(message) => Locations(message) # {})
             /\ CountAs(Line.prefix = "ERROR") <=> CountAs(~IsWarning(Line))
  <2>1. log # <<>> /\ ~Suppressed(Line)
    BY <1>1, <1>8 DEF Typed, CountsSoFar
  <2>2. /\ Line.prefix \in {"ERROR", "WARNING"}
        /\ message = strip_whitespace(Line.text) /\ message # <<>>
    BY <1>8 DEF CountsSoFar
  <2>3. Counts(Line) <=> (IsSummaryMessage(message) => Locations(message) # {})
    BY <2>2 DEF Counts
  <2>4. (Line.prefix = "ERROR") <=> ~IsWarning(Line)
    BY <2>2 DEF IsWarning
  <2>5. CountAs(Line.prefix = "ERROR") <=> CountAs(~IsWarning(Line))
    BY <2>4 DEF CountAs
  <2>6. QED
    BY <2>1, <2>3, <2>5
<1>9. CASE LocatedLine
  <2>1. pc \in Searching /\ Locations(message) # {}
    BY <1>9 DEF LocatedLine, Searching, IInv, LocationIsFirst
  <2>2. Counts(Line)
    BY <1>8, <2>1
  <2>3. QED
    BY <1>1, <1>8, <1>9, <2>1, <2>2, LineCounted DEF LocatedLine
<1>10. CASE GlobalLine
  <2>1. pc \in Searching /\ Locations(message) = {}
    BY <1>10 DEF GlobalLine, Searching, IInv, LocationIsFirst
  <2>2. CASE IsSummaryMessage(message)
    BY <1>1, <1>8, <1>10, <2>1, <2>2, LineCounted DEF GlobalLine
  <2>3. CASE ~IsSummaryMessage(message)
    BY <1>1, <1>8, <1>10, <2>1, <2>3, LineCounted DEF GlobalLine
  <2>4. QED
    BY <2>2, <2>3
<1>11. CASE EndOfLog
  BY <1>11, SameLineCounts DEF EndOfLog, Searching
<1>12. CASE UNCHANGED vars
  BY <1>12, SameLineCounts DEF vars, CountsSoFar, positions
<1>13. QED
  BY <1>3, <1>4, <1>5, <1>6, <1>7, <1>9, <1>10, <1>11, <1>12 DEF Next, Terminated

\* For logs of any number of lines the totals are those of the lines that count,
\* each of them once, as -w and -Werror say.
THEOREM TotalsCorrect == Spec => []CountsFollowPolicy
<1>1. CountsSoFar => CountsFollowPolicy
  <2> SUFFICES ASSUME CountsSoFar, pc = "done"
               PROVE  /\ total_errors = NewErrors(SoFar, warnings_as_errors, suppress_warnings)
                      /\ total_warnings =
                           NewWarnings(SoFar, warnings_as_errors, suppress_warnings)
                      /\ SoFar = [errors |-> Number(given, FALSE),
                                  warnings |-> Number(given, TRUE)]
    BY DEF CountsFollowPolicy
  <2>1. given \in Seq(Lines) /\ log = <<>>
    BY DEF CountsSoFar
  <2>2. Seen = Len(given) /\ DOMAIN given = 1..Seen
    BY <2>1 DEF Seen
  <2>3. QED
    BY <2>2 DEF CountsSoFar, SoFar, UpTo, Number
<1>2. QED
  BY <1>1, InitCounts, CountsStep, Invariance, PTL DEF Spec

=============================================================================
