---------------------------- MODULE MC_OttlArgs ----------------------------
(* Model-checking instance of OttlArgs: five functions whose argument      *)
(* records exercise every branch of buildArgs (get-setters, a []string,   *)
(* an Optional FunctionGetter, a SliceGetter and an Optional LiteralGetter *)
(* of StringGetter), a function with no argument record, one whose      *)
(* factory returns its record by value, and every call of at most three   *)
(* arguments drawn from a pool of positional and named arguments.         *)
EXTENDS OttlArgs

V(t)      == [tag |-> t, sym |-> "", elems |-> <<>>]
Sym(s)    == [tag |-> "Enum", sym |-> s, elems |-> <<>>]
List(es)  == [tag |-> "List", sym |-> "", elems |-> es]

Pos(v)        == [name |-> "", value |-> v, funcName |-> ""]
Named(n, v)   == [name |-> n, value |-> v, funcName |-> ""]
FuncRef(f)    == [name |-> "", value |-> V("None"), funcName |-> f]

F(n, k)         == [name |-> n, kind |-> k, inner |-> "", optional |-> FALSE]
FI(n, k, i)     == [name |-> n, kind |-> k, inner |-> i, optional |-> FALSE]
Opt(fd)         == [fd EXCEPT !.optional = TRUE]

MCFunctions == {"set", "keep_keys", "replace_pattern", "concat", "SHA256", "now", "by_value"}
MCNilArgFunctions == {"now"}
\* A factory whose CreateDefaultArguments returns its record by value.
MCValueArgFunctions == {"by_value"}
MCCallees == MCFunctions \cup {"undefined"}

MCSignature ==
  [f \in MCFunctions |->
     CASE f = "set" -> <<F("Target", "GetSetter"), F("Value", "Getter")>>
       [] f = "keep_keys" -> <<F("Target", "PMapGetSetter"), FI("Keys", "Slice", "string")>>
       [] f = "replace_pattern" ->
            <<F("Target", "GetSetter"), F("Pattern", "string"), Opt(F("Function", "FunctionGetter"))>>
       [] f = "concat" ->
            <<FI("Vals", "SliceGetter", "Getter"), Opt(FI("Delimiter", "LiteralGetter", "StringGetter"))>>
       [] f = "SHA256" -> <<F("Value", "StringGetter")>>
       [] f = "now" -> <<>>
       [] f = "by_value" -> <<F("Value", "Getter")>>]

MCArgPool ==
  { Pos(V("String")), Pos(V("Path")), Pos(V("BadPath")), Pos(Sym("SHA256")),
    Pos(Sym("UNKNOWN")), Pos(List(<<V("String"), V("String")>>)),
    Pos(List(<<V("Path"), V("String")>>)), Pos(List(<<>>)), FuncRef("SHA256"),
    Named("target", V("Path")), Named("function", Sym("SHA256")),
    Named("delimiter", V("String")), Named("pattern", V("String")) }

MCArgLists == {<<>>} \cup {<<a>> : a \in MCArgPool}
              \cup {<<a, b>> : a, b \in MCArgPool}
              \cup {<<a, b, c>> : a, b, c \in MCArgPool}

MCToCamel == [n \in {"target", "function", "delimiter", "pattern"} |->
                CASE n = "target" -> "Target" [] n = "function" -> "Function"
                  [] n = "delimiter" -> "Delimiter" [] n = "pattern" -> "Pattern"]

MCEnums == {"SHA256"}

MCLiteralShells == {"StringGetter", "IntGetter", "FloatGetter", "BoolGetter", "PMapGetter"}
=============================================================================
