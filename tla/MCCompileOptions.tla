--------------------------- MODULE MCCompileOptions ---------------------------
EXTENDS CompileOptions

\* All version numbers of a target; the newest and an unknown
\* version of SPIR-V.
MCTargetVersions == KnownVersions \cup {"0", "unknown"}
MCSpirvVersions == {"1.6", "unknown"}

=============================================================================
