------------------------------- MODULE MCRouting -------------------------------
(***************************************************************************)
(* Routing with a handful of templates, two of them under a prefix, and    *)
(* every path of up to five characters.                                     *)
(***************************************************************************)
EXTENDS Routing

X == "{x}"
Y == "{y}"

MCParamNames == {X, Y}

MCPrefixes == {<<>>, <<"/", "a">>}

MCTemplates ==
  {<<"/">>, <<"/", "b">>, <<"/", X>>, <<"/", X, "/", "b">>, <<"/", "b", X>>,
   <<"/", Y, "/", X>>, <<"/", X, "/", Y, "/", X>>}

ASSUME TemplatesWellFormed

MCPaths ==
  {<<"/">> \o s : s \in UNION {[1 .. n -> {"/", "a", "b"}] : n \in 0 .. 4}}

================================================================================
