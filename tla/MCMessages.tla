----------------------------- MODULE MCMessages -----------------------------
EXTENDS Messages

CONSTANT MaxLength

Texts(chars, k) == UNION {[1..i -> chars] : i \in 0..k}

\* Every text of colons, digits, spaces and letters.
AllLines == [prefix : {"ERROR"}, text : Texts({":", "d", "s", "x"}, MaxLength)]

\* The kinds of lines there are: located, with a name of digits and colons,
\* summaries, summaries with a location, blank, global and ignored ones.
SomeTexts ==
  {<<"x", ":", "d", ":", "s", "x">>, <<"d", ":", "d", ":", "d", ":", "s", "x">>,
   <<":", "d", ":", "s", "d", "s", "C">>, <<"d", "s", "C">>, <<"s", "s", "C">>,
   <<"x", "s", "C">>, <<"d", "C">>, <<"s">>, <<"x">>}

SomeLines == [prefix : Prefixes, text : SomeTexts]

MCLogs == Texts(SomeLines, 2) \cup {<<line>> : line \in AllLines}

=============================================================================
