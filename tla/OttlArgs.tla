------------------------------ MODULE OttlArgs ------------------------------
(***************************************************************************)
(* The typed argument binder of the OTTL parser (pkg/ottl/functions.go:   *)
(* newFunctionCall, buildArgs, buildArg, buildSliceArg, buildSlice,       *)
(* buildStandardGetterSetter, createStandardSliceGetter, Optional).       *)
(*                                                                         *)
(* An editor or converter call names a registered function; the factory's *)
(* default argument record is a sequence of typed fields, each maybe      *)
(* wrapped in Optional.  buildArgs checks argument order and arity, then  *)
(* binds the call's arguments one at a time, positional ones by index and *)
(* named ones by strcase.ToCamel(name), coercing each value to the        *)
(* field's declared shape.  Only then is CreateFunction called.            *)
(*                                                                         *)
(* A grammar value is a record [tag, sym, elems]; a list's elements are   *)
(* values without elements.  The generic getter built for a value         *)
(* (newGetter, not in this source) and the enum parser are modelled from  *)
(* the spec: literals are literal getters, a path or converter is not, a  *)
(* list is literal when all its elements are.                             *)
(***************************************************************************)
EXTENDS Integers, Sequences, FiniteSets

CONSTANTS
  Functions,         \* names registered in the parser's function map
  NilArgFunctions,   \* those whose CreateDefaultArguments returns nil
  ValueArgFunctions, \* those whose CreateDefaultArguments returns a non-pointer
  Signature,         \* Signature[f]: the fields of f's argument record
  Callees,           \* function names an editor may be written with
  ArgLists,          \* the argument lists the grammar can produce
  ToCamel,           \* strcase.ToCamel on the argument names used
  Enums,             \* the symbols the context's EnumParser resolves
  LiteralShells      \* getter kinds whose standard shell is a literalGetter

ASSUME NilArgFunctions \cup ValueArgFunctions \subseteq Functions
ASSUME NilArgFunctions \cap ValueArgFunctions = {}

VARIABLES
  fn,       \* the editor's function name
  args,     \* ed.Arguments
  stage,    \* "idle" | "check" | "bind" | "create" | "done"
  pos,      \* index of the next argument buildArgs binds
  fields,   \* per field: [set, from, literal]
  outcome   \* "none" | "ok" | an error kind

vars == <<fn, args, stage, pos, fields, outcome>>

SetterKinds == {"Setter", "GetSetter", "PMapGetSetter"}
GetterKinds == {"Getter", "StringGetter", "StringLikeGetter", "FloatGetter",
                "FloatLikeGetter", "IntGetter", "IntLikeGetter", "BoolGetter",
                "BoolLikeGetter", "DurationGetter", "TimeGetter", "PMapGetter",
                "PSliceGetter", "ByteSliceLikeGetter"}
LeafKinds   == {"string", "uint8", "float64", "int64"}
LiteralTags == {"String", "Bytes", "Bool", "Int", "Float", "Enum"}

Sig == Signature[fn]
Unset == [set |-> FALSE, from |-> 0, literal |-> FALSE]

\* A built argument: failed, or a value that may be a literal and a setter.
Fail == [ok |-> FALSE, literal |-> FALSE, setter |-> FALSE]
Built(lit, st) == [ok |-> TRUE, literal |-> lit, setter |-> st]

(***************************************************************************)
(* newGetter (spec-modelled): literals and known enums are literal        *)
(* getters, a path a (non-literal) get-setter, a converter or math         *)
(* expression a non-literal getter, a list literal when all of its         *)
(* elements are; a path that does not resolve fails.                       *)
(***************************************************************************)
ElemGetter(e) ==
  CASE e.tag = "Enum"                  -> IF e.sym \in Enums THEN Built(TRUE, FALSE) ELSE Fail
    [] e.tag \in LiteralTags            -> Built(TRUE, FALSE)
    [] e.tag = "Path"                   -> Built(FALSE, TRUE)
    [] e.tag \in {"Converter", "Math"}  -> Built(FALSE, FALSE)
    [] OTHER                            -> Fail

NewGetter(v) ==
  IF v.tag = "List"
  THEN IF \A i \in DOMAIN v.elems : ElemGetter(v.elems[i]).ok
       THEN Built(\A i \in DOMAIN v.elems : ElemGetter(v.elems[i]).literal, FALSE)
       ELSE Fail
  ELSE ElemGetter(v)

\* buildStandardGetterSetter: wrap a generic getter in the requested shell;
\* a shell that is not a literalGetter hides the literal.
BuildStandardGetterSetter(name, g) ==
  CASE name \in {"Setter", "GetSetter", "Getter"} -> g
    [] name = "PMapGetSetter"                      -> IF g.setter THEN g ELSE Fail
    [] name \in GetterKinds ->
         Built(g.literal /\ name \in LiteralShells, FALSE)
    [] OTHER                                       -> Fail

\* buildArg with the setter family taking any value (no "must be a path").
BuildArgNoPathCheck(v, name) ==
  CASE name = "Enum"    -> IF v.tag = "Enum" /\ v.sym \in Enums THEN Built(TRUE, FALSE) ELSE Fail
    [] name = "string"  -> IF v.tag = "String" THEN Built(TRUE, FALSE) ELSE Fail
    [] name = "float64" -> IF v.tag = "Float" THEN Built(TRUE, FALSE) ELSE Fail
    [] name = "int64"   -> IF v.tag = "Int" THEN Built(TRUE, FALSE) ELSE Fail
    [] name = "bool"    -> IF v.tag = "Bool" THEN Built(TRUE, FALSE) ELSE Fail
    [] OTHER            -> LET g == NewGetter(v) IN
                           IF g.ok THEN BuildStandardGetterSetter(name, g) ELSE Fail

(***************************************************************************)
(* buildArg: scalars must be the matching literal, the setter family a    *)
(* path; everything else is a generic getter in its typed shell.           *)
(***************************************************************************)
BuildArg(v, name) ==
  CASE name = "Enum"    -> IF v.tag = "Enum" /\ v.sym \in Enums THEN Built(TRUE, FALSE) ELSE Fail
    [] name = "string"  -> IF v.tag = "String" THEN Built(TRUE, FALSE) ELSE Fail
    [] name = "float64" -> IF v.tag = "Float" THEN Built(TRUE, FALSE) ELSE Fail
    [] name = "int64"   -> IF v.tag = "Int" THEN Built(TRUE, FALSE) ELSE Fail
    [] name = "bool"    -> IF v.tag = "Bool" THEN Built(TRUE, FALSE) ELSE Fail
    [] name \in SetterKinds ->
         IF v.tag = "Path" THEN BuildStandardGetterSetter(name, ElemGetter(v)) ELSE Fail
    [] OTHER            -> LET g == NewGetter(v) IN
                           IF g.ok THEN BuildStandardGetterSetter(name, g) ELSE Fail

\* buildSlice: a list literal whose every element builds as the item type.
BuildSlice(v, elem) ==
  IF v.tag = "List" /\ \A i \in DOMAIN v.elems : BuildArg(v.elems[i], elem).ok
  THEN Built(\A i \in DOMAIN v.elems : BuildArg(v.elems[i], elem).literal, FALSE)
  ELSE Fail

\* buildSliceArg: the element types a []T argument may have.
SliceElemKinds == {"string", "float64", "int64", "Getter", "PMapGetter",
                   "PSliceGetter", "StringGetter", "StringLikeGetter",
                   "FloatGetter", "FloatLikeGetter", "IntGetter",
                   "IntLikeGetter", "DurationGetter", "TimeGetter"}

BuildSliceArg(v, elem) ==
  CASE elem = "uint8"          -> IF v.tag = "Bytes" THEN Built(TRUE, FALSE) ELSE Fail
    [] elem \in SliceElemKinds -> BuildSlice(v, elem)
    [] OTHER                   -> Fail

\* createStandardSliceGetter marking every list literal.
CreateStandardSliceGetterAllLiteral(v, item) ==
  IF v.tag = "List"
  THEN IF BuildSliceArg(v, item).ok THEN Built(TRUE, FALSE) ELSE Fail
  ELSE LET g == NewGetter(v) IN IF g.ok THEN Built(g.literal, FALSE) ELSE Fail

(***************************************************************************)
(* createStandardSliceGetter at bind time: leaf item types make a literal *)
(* slice; a non-empty list of getters is literal when every built element *)
(* is; any other value is literal when its getter is.                      *)
(***************************************************************************)
CreateStandardSliceGetter(v, item) ==
  IF v.tag = "List"
  THEN LET s == BuildSliceArg(v, item) IN
       IF ~s.ok THEN Fail
       ELSE Built(IF item \in LeafKinds THEN TRUE
                  ELSE /\ v.elems # <<>>
                       /\ \A i \in DOMAIN v.elems : BuildArg(v.elems[i], item).literal,
                  FALSE)
  ELSE LET g == NewGetter(v) IN IF g.ok THEN Built(g.literal, FALSE) ELSE Fail

(***************************************************************************)
(* The switch of buildArgs on the (unwrapped) field type.                  *)
(***************************************************************************)
BindValue(field, arg) ==
  CASE field.kind = "FunctionGetter" ->
         LET name == IF arg.value.tag = "Enum" THEN arg.value.sym ELSE arg.funcName IN
         IF name \in Functions THEN Built(FALSE, FALSE) ELSE Fail
    [] field.kind = "SliceGetter" -> CreateStandardSliceGetter(arg.value, field.inner)
    [] field.kind = "LiteralGetter" ->
         LET b == BuildArg(arg.value, field.inner) IN
         IF b.ok /\ field.inner \in LiteralShells THEN b ELSE Fail
    [] field.kind = "Slice" -> BuildSliceArg(arg.value, field.inner)
    [] OTHER -> BuildArg(arg.value, field.kind)

\* The field an argument binds to: its position, or the field named
\* ToCamel(name); 0 when there is no such parameter.
Target(k) ==
  IF args[k].name = "" THEN k
  ELSE LET m == {f \in DOMAIN Sig : Sig[f].name = ToCamel[args[k].name]} IN
       IF m = {} THEN 0 ELSE CHOOSE f \in m : TRUE

RequiredCount(sig) == Cardinality({f \in DOMAIN sig : ~sig[f].optional})

\* No unnamed argument follows a named one.
OrderOK(as) ==
  \A i, j \in DOMAIN as : i < j /\ as[i].name # "" => as[j].name # ""
-----------------------------------------------------------------------------
\* newFunctionCall allocating the record of the previously called function.
NewFunctionCallStaleRecord ==
  /\ stage = "idle"
  /\ \E f \in Callees, as \in ArgLists :
       /\ fn' = f /\ args' = as /\ pos' = 1
       /\ IF f \in Functions \ NilArgFunctions
          THEN stage' = "check" /\ outcome' = "none" /\ fields' = [i \in DOMAIN Sig |-> Unset]
          ELSE stage' = "done" /\ outcome' = "undefinedFunction" /\ fields' = <<>>

(***************************************************************************)
(* newFunctionCall: look the function up; a nil default argument record  *)
(* means the function takes no arguments and buildArgs is skipped; a      *)
(* record that is not a pointer cannot be filled by reflection and is     *)
(* refused before any argument is looked at.                              *)
(***************************************************************************)
NewFunctionCall ==
  /\ stage = "idle"
  /\ \E f \in Callees, as \in ArgLists :
       /\ fn' = f
       /\ args' = as
       /\ pos' = 1
       /\ CASE f \notin Functions ->
                 /\ stage' = "done" /\ outcome' = "undefinedFunction"
                 /\ fields' = <<>>
            [] f \in NilArgFunctions ->
                 /\ stage' = "create" /\ outcome' = "none" /\ fields' = <<>>
            [] f \in ValueArgFunctions ->
                 /\ stage' = "done" /\ outcome' = "nonPointerArguments"
                 /\ fields' = <<>>
            [] OTHER ->
                 /\ stage' = "check" /\ outcome' = "none"
                 /\ fields' = [i \in DOMAIN Signature[f] |-> Unset]

\* buildArgs' two checks before any argument is bound.
CheckArgs ==
  /\ stage = "check"
  /\ CASE ~OrderOK(args) ->
            stage' = "done" /\ outcome' = "unnamedAfterNamed"
       [] Len(args) < RequiredCount(Sig) \/ Len(args) > Len(Sig) ->
            stage' = "done" /\ outcome' = "incorrectNumberOfArguments"
       [] OTHER -> stage' = "bind" /\ UNCHANGED outcome
  /\ UNCHANGED <<fn, args, pos, fields>>

\* field.Set, or Optional.setWrappedValue which records presence.
Assign(fs, f, k, b) ==
  [fs EXCEPT ![f] = [set |-> TRUE, from |-> k, literal |-> b.literal]]

\* One iteration of buildArgs' binding loop, for argument pos.
BindArg ==
  /\ stage = "bind"
  /\ pos <= Len(args)
  /\ LET f == Target(pos) IN
     IF f = 0
     THEN stage' = "done" /\ outcome' = "noSuchParameter" /\ UNCHANGED <<pos, fields>>
     ELSE LET b == BindValue(Sig[f], args[pos]) IN
          IF ~b.ok
          THEN stage' = "done" /\ outcome' = "invalidArgument" /\ UNCHANGED <<pos, fields>>
          ELSE /\ fields' = Assign(fields, f, pos, b)
               /\ pos' = pos + 1
               /\ UNCHANGED <<stage, outcome>>
  /\ UNCHANGED <<fn, args>>

ArgsBound ==
  /\ stage = "bind"
  /\ pos > Len(args)
  /\ stage' = "create"
  /\ UNCHANGED <<fn, args, pos, fields, outcome>>

\* f.CreateFunction with the filled record; the factory may refuse it.
CreateFunction(ok) ==
  /\ stage = "create"
  /\ stage' = "done"
  /\ outcome' = IF ok THEN "ok" ELSE "createFailed"
  /\ UNCHANGED <<fn, args, pos, fields>>

NoCall == CHOOSE f \in Functions : f \notin NilArgFunctions \cup ValueArgFunctions

\* The parser goes on to the next call; nothing of this one is kept.
NextCall ==
  /\ stage = "done"
  /\ fn' = NoCall /\ args' = <<>> /\ stage' = "idle" /\ pos' = 1
  /\ fields' = <<>> /\ outcome' = "none"

Init ==
  /\ fn = NoCall /\ args = <<>> /\ stage = "idle" /\ pos = 1
  /\ fields = <<>> /\ outcome = "none"

Next ==
  \/ NewFunctionCall
  \/ CheckArgs
  \/ BindArg
  \/ ArgsBound
  \/ \E ok \in BOOLEAN : CreateFunction(ok)
  \/ NextCall

Spec == Init /\ [][Next]_vars

-----------------------------------------------------------------------------
Elem  == [tag : STRING, sym : STRING, elems : {<<>>}]
Value == [tag : STRING, sym : STRING, elems : Seq(Elem)]

TypeOK ==
  /\ fn \in Functions \cup Callees
  /\ args \in Seq([name : STRING, value : Value, funcName : STRING])
  /\ stage \in {"idle", "check", "bind", "create", "done"}
  /\ pos \in 1..(Len(args) + 1)
  /\ fields \in [DOMAIN (IF stage = "idle" \/ fn \notin Functions \ ValueArgFunctions THEN <<>> ELSE Sig) ->
                  [set : BOOLEAN, from : 0..Len(args), literal : BOOLEAN]]
  /\ outcome \in {"none", "ok", "undefinedFunction", "unnamedAfterNamed",
                   "incorrectNumberOfArguments", "noSuchParameter",
                   "invalidArgument", "createFailed", "nonPointerArguments"}

(***************************************************************************)
(* The argument shapes of the spec's binding table (section 4.4), as a    *)
(* reference for the code's dispatch.                                      *)
(***************************************************************************)
SpecValue(v) ==
  LET ok(e) == e.tag \in LiteralTags \cup {"Path", "Converter", "Math"}
                 /\ (e.tag = "Enum" => e.sym \in Enums)
  IN IF v.tag = "List" THEN \A i \in DOMAIN v.elems : ok(v.elems[i]) ELSE ok(v)

LeafTag == [string |-> "String", int64 |-> "Int", float64 |-> "Float",
            bool |-> "Bool", uint8 |-> "Bytes"]

SpecShape(kind, v) ==
  CASE kind = "Enum"         -> v.tag = "Enum" /\ v.sym \in Enums
    [] kind \in DOMAIN LeafTag -> v.tag = LeafTag[kind]
    [] kind \in SetterKinds   -> v.tag = "Path"
    [] kind \in GetterKinds   -> SpecValue(v)
    [] OTHER                  -> FALSE

SpecAccepts(field, arg) ==
  LET v == arg.value IN
  CASE field.kind = "FunctionGetter" ->
         \/ v.tag = "Enum" /\ v.sym \in Functions
         \/ v.tag # "Enum" /\ arg.funcName \in Functions
    [] field.kind = "LiteralGetter" ->
         field.inner \in LiteralShells /\ SpecShape(field.inner, v)
    [] field.kind = "Slice" ->
         IF field.inner = "uint8" THEN v.tag = "Bytes"
         ELSE v.tag = "List" /\ \A i \in DOMAIN v.elems : SpecShape(field.inner, v.elems[i])
    [] field.kind = "SliceGetter" ->
         IF v.tag = "List"
         THEN \A i \in DOMAIN v.elems : SpecShape(field.inner, v.elems[i])
         ELSE SpecValue(v)
    [] OTHER -> SpecShape(field.kind, v)

\* Spec: a slice getter is literal when its item type is a leaf or every
\* element of the list (or the value itself) is a compile-time constant.
SpecSliceLiteral(v, item) ==
  IF v.tag = "List"
  THEN item \in LeafKinds \/ \A i \in DOMAIN v.elems : v.elems[i].tag \in LiteralTags
  ELSE v.tag \in LiteralTags

Binding == stage \in {"bind", "create", "done"}
Bound(f) == fields[f].set

\* Every field buildArgs filled, positional or named, holds a value the
\* spec's table accepts for the field's declared (unwrapped) type.
BoundValuesConform ==
  Binding => \A f \in DOMAIN fields :
               Bound(f) => SpecAccepts(Sig[f], args[fields[f].from])

\* A SliceGetter argument is only marked literal when the spec calls it a
\* compile-time constant: no path or converter hides in a "literal" list.
SliceLiteralSound ==
  Binding => \A f \in DOMAIN fields :
    Bound(f) /\ Sig[f].kind = "SliceGetter" =>
      (fields[f].literal => SpecSliceLiteral(args[fields[f].from].value, Sig[f].inner))

\* A call that binds successfully has every required field of the argument
\* record filled (section 4.8: no partially bound expression is returned).
RequiredFieldsBound ==
  outcome = "ok" => \A f \in DOMAIN fields : ~Sig[f].optional => Bound(f)

\* A LiteralGetter field is only bound to a compile-time constant (section
\* 4.4: the binder fails unless the built getter "is a compile-time
\* constant"; section 7: NotLiteral).  buildArgs' LiteralGetter case checks
\* the getter's type against literalGetter, not its isLiteral().
LiteralGetterIsConstant ==
  Binding => \A f \in DOMAIN fields :
    Bound(f) /\ Sig[f].kind = "LiteralGetter" => fields[f].literal

\* A call that binds successfully used every argument it was written with.
EveryArgumentBound ==
  outcome = "ok" => \A k \in DOMAIN args : \E f \in DOMAIN fields : fields[f].from = k
=============================================================================
