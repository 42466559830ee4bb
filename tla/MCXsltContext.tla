--------------------------- MODULE MCXsltContext ---------------------------
EXTENDS XsltContext, XsltCompile, TLC

(* Two levels; each has a rule for the one node, the first also a named one.*)
MCModules ==
  "main" :> <<ImportDecl("b"),
              TemplateDecl("m1", "", <<>>, <<Operand("name", {"n"})>>),
              TemplateDecl("m2", "t", <<>>, <<Operand("any", {"n"})>>)>>
  @@ "b" :> <<TemplateDecl("b1", "", <<>>, <<Operand("name", {"n", "o"})>>)>>
MCCompiled  == Compile(MCModules, "main").templates   \* TLC evaluates it once
MCTemplates == MCCompiled
=============================================================================
