\* Three threads, three compilers: a thread can wait in the constructor while a
\* second one is in the destructor of the last instance and a third compiles.
SPECIFICATION FairSpec
CONSTANTS
  Threads = {t1, t2, t3}
  Compilers = {c1, c2, c3}
  NoThread = NoThread
  NoCompiler = NoCompiler
INVARIANTS
  TypeOK
  ProcessUpWhileOwned
  GlslangCallsExclusive
PROPERTIES
  ImplementsProcess
  LastReleaseFinalizes
  CallsReturn
