\* Three options objects, so that a copy can be moved while its original
\* changes; two compilers and two results.
SPECIFICATION Spec
CONSTANTS
  Options = {o1, o2, o3}
  COptions = {c1, c2}
  Includers = {i1, i2}
  Compilers = {k1, k2}
  CCompilers = {d1, d2}
  Results = {r1, r2}
  CResults = {e1, e2}
  Settings = {default, other}
  Default = default
  Null = Null
  Absent = Absent
SYMMETRY Symmetry
INVARIANTS
  OneOwner
  CallbacksReachOwnIncluder
PROPERTIES
  ImplementsValues
