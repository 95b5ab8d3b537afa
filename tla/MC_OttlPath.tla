---------------------------- MODULE MC_OttlPath ----------------------------
(* Model-checking instance of OttlPath: two valid contexts, one foreign    *)
(* one, and every grammar path of one or two fields over two field names, *)
(* each field with or without keys.                                        *)
EXTENDS OttlPath

MCContextNames == {"span", "resource"}

MCFields == {"attributes", "name"}

MCField == [name : MCFields, keys : BOOLEAN]

MCGrammarPaths ==
  [context : {"", "span", "foo"}, fields : {<<f>> : f \in MCField}
                                          \cup {<<f, g>> : f, g \in MCField}]
=============================================================================
