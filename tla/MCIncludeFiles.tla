--------------------------- MODULE MCIncludeFiles ---------------------------
EXTENDS IncludeFiles

MCParts == {Empty, "-", "<stdin>", "a", "b", "c", "d", "i"}

\* The candidates for b and c: next to each input, in two directories of -I,
\* and next to what is found there.
MCFiles == {<<"b">>, <<"d", "b">>, <<"i", "b">>, <<Empty, "b">>,
            <<"c">>, <<"d", "c">>, <<"i", "c">>}

MCInputLists == {<<<<"d", "a">>, <<"-">>>>, <<<<Empty, "a">>, <<"d", "a">>>>}

B == [type |-> "relative", name |-> <<"b">>]
C == [type |-> "relative", name |-> <<"c">>]
StandardC == [type |-> "standard", name |-> <<"c">>]

\* An input includes b and c, and b includes c.
MCContents ==
  [f \in MCFiles \cup {<<"d", "a">>, <<"<stdin>">>, <<Empty, "a">>} |->
     CASE Last(f) = "b" -> <<C>>
       [] Last(f) = "c" -> <<>>
       [] OTHER -> <<B, StandardC>>]

MCSearchPaths == {<<<<"i">>>>, <<<<Empty>>, <<"i", Empty>>>>}

=============================================================================
