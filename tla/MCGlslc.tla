------------------------------ MODULE MCGlslc ------------------------------
EXTENDS Glslc

Flag(opt) == [opt |-> opt, value |-> NoValue]
Valued(opt, name) == [opt |-> opt, value |-> File(name)]
InputIn(dir, name) == [opt |-> "input", value |-> [dir |-> dir, name |-> name]]

\* Input names that meet: stages, a language, assembly, no
\* extension, standard input, and directories without and with a dot.
InputArgs ==
  {InputIn(<<>>, <<"a", "vert">>), InputIn(<<"sub">>, <<"a", "vert">>),
   InputIn(<<>>, <<"a", "hlsl">>), InputIn(<<>>, <<"a", "rgen">>),
   InputIn(<<"v1", "2">>, <<"a">>),
   InputIn(<<>>, <<"a", "spvasm">>), Valued("input", <<"-">>)}

OptionArgs ==
  {Flag("-c"), Flag("-S"), Flag("-E"), Flag("-M"), Flag("-MD"), Flag("unknown"),
   Flag("--help"), Flag("compile option"),
   Valued("-o", <<"out">>), Valued("-o", <<"-">>),
   Valued("-MF", <<"dep">>), Valued("-MF", <<"-">>),
   Valued("-MT", <<"target">>), Valued("-mfmt=", <<"num">>),
   Valued("-fshader-stage=", <<"frag">>), Valued("-x", <<"glsl">>),
   Flag("-o"), Flag("-x")}

AllArgs == InputArgs \cup OptionArgs

AllParts == {"-", "a", "spv", "spvasm", "d", "infer", "default", "assembly",
             "glsl", "hlsl", "vert", "sub", "rgen", "v1", "2", "out", "dep",
             "target", "num", "frag"}

=============================================================================
