\* A copy or a move that outlives the options it was made from.
SPECIFICATION Spec
CONSTANTS
  Options = {o1, o2}
  COptions = {c1, c2}
  Includers = {i1}
  Compilers = {k1}
  CCompilers = {d1}
  Results = {r1}
  CResults = {e1}
  Settings = {default}
  Default = default
  Null = Null
  Absent = Absent
INVARIANTS
  CallbacksHaveAnIncluder
