--------------------------- MODULE MCStagePragma ---------------------------
EXTENDS StagePragma

SourceLines ==
  {Blank, Line("code", 0, ""), PoundExtension,
   Line("version", 150, ""), Line("version", 450, ""),
   Line("version", 300, "es"), Line("version", 0, ""),
   Line("line", 7, ""), Line("line", 3, "other"),
   Line("stage", 0, "vertex"), Line("stage", 0, "fragment"),
   Line("stage", 0, "bogus")}

ForcedVersions ==
  {NotForced, VersionProfile(150, ""), VersionProfile(300, "es")}

=============================================================================
