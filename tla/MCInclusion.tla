----------------------------- MODULE MCInclusion -----------------------------
EXTENDS Inclusion

\* The client sets no callbacks, both of them, or forgets the releaser.
PairedCallbacks == {[resolver |-> FALSE, releaser |-> FALSE],
                    [resolver |-> TRUE, releaser |-> TRUE],
                    [resolver |-> TRUE, releaser |-> FALSE]}

=============================================================================
