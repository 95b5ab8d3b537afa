--------------------------- MODULE MC_OttlRewrite ---------------------------
(* Two known contexts, one unknown lowercase identifier and one field name; *)
(* statements start with the editor ("x") and hold one or two paths of one  *)
(* or two identifiers, so context-less paths, paths with an unknown context *)
(* and paths with a valid one occur alone and side by side.                 *)
EXTENDS OttlRewrite

MCContextNames == {"span", "resource"}
MCIdents == {"span", "resource", "foo", "f"}

MCPaths == {<<a>> : a \in MCIdents} \cup {<<a, ".", b>> : a, b \in MCIdents}

MCStatements ==
  {<<"x">> \o p \o <<"x">> : p \in MCPaths} \cup
  {<<"x">> \o p \o <<"x">> \o q : p, q \in MCPaths}

MCMaxLen == 12
=============================================================================
