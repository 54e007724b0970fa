---------------------------- MODULE MCCppWrapper ----------------------------
EXTENDS CppWrapper, TLC

\* The objects of one class are interchangeable.
Symmetry ==
  UNION {Permutations(S) : S \in {Options, Results, COptions, CResults,
                                  Includers, Compilers, CCompilers}}

=============================================================================
