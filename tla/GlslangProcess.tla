--------------------------- MODULE GlslangProcess ---------------------------
(***************************************************************************)
(* What a set of GlslangInitializer instances promises its client: glslang *)
(* runs from before the first compiler is handed out until after the last  *)
(* one is given up, and stops and starts only while there is none.         *)
(***************************************************************************)
CONSTANT Compilers

VARIABLES up,   \* glslang is running
          live  \* the compilers the client owns

vars == <<up, live>>

Init == up = FALSE /\ live = {}

Start == ~up /\ up' = TRUE /\ UNCHANGED live

Open(c) == up /\ c \notin live /\ live' = live \cup {c} /\ UNCHANGED up

Close(c) == c \in live /\ live' = live \ {c} /\ UNCHANGED up

Stop == up /\ live = {} /\ up' = FALSE /\ UNCHANGED live

Next == Start \/ Stop \/ \E c \in Compilers : Open(c) \/ Close(c)

Spec == Init /\ [][Next]_vars

=============================================================================
