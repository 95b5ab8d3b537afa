------------------------------ MODULE OttlPath ------------------------------
(***************************************************************************)
(* Path materialisation and the path-completeness check of the OTTL       *)
(* parser (pkg/ottl/functions.go: newPath, parsePathContext, basePath's    *)
(* Next/Keys/isComplete and parsePath).                                    *)
(*                                                                         *)
(* The parser turns a grammar path (an optional context and a list of      *)
(* fields, each with or without keys) into a linked chain of basePath     *)
(* segments and hands the head to the context's PathExpressionParser.     *)
(* That resolver is user code: it may call Next() on any segment it holds *)
(* and Keys() on any segment it holds, in any order, and then return a    *)
(* getter or an error.  Next() marks the following segment fetched, Keys()*)
(* marks the segment's keys fetched.  After a successful return parsePath *)
(* runs isComplete over the chain, which must reject every path whose     *)
(* sections or keys the resolver left unread.                              *)
(*                                                                         *)
(* Keys are abstracted to "this field has keys"; a key's own path or       *)
(* converter is built by newKeys, whose failure is a nondeterministic      *)
(* error of newPath.                                                       *)
(***************************************************************************)
EXTENDS Integers, Sequences, SequencesExt

CONSTANTS
  ContextNames,   \* the contexts a parser built WithPathContextNames accepts
  GrammarPaths    \* the grammar paths the statement parser can produce

\* The grammar path record: context is "" when the path was written without one.
ASSUME \A p \in GrammarPaths :
         /\ p.context \in STRING
         /\ \A i \in DOMAIN p.fields : p.fields[i].keys \in BOOLEAN

VARIABLES
  pathContextNames, \* p.pathContextNames of the parser, fixed at construction
  src,              \* the grammar path being bound (input of newPath)
  chain,            \* the basePath segments, head first
  phase,            \* "idle" | "resolving" (pathParser running) | "done"
  result            \* the outcome of buildGetSetterFromPath for src

vars == <<pathContextNames, src, chain, phase, result>>

NoPath == [context |-> "", fields |-> <<>>]
Ok     == [kind |-> "ok", seg |-> 0]
None   == [kind |-> "none", seg |-> 0]
Err(k) == [kind |-> k, seg |-> 0]

\* ParsePathContext with the legacy demotion losing the written context.
ParsePathContextDropped(p) ==
  LET has == pathContextNames # {} IN
  IF p.context # "" /\ has /\ p.context \notin pathContextNames
  THEN [err |-> "invalidContext", ctx |-> "", fields |-> p.fields]
  ELSE IF p.context = "" /\ has
  THEN [err |-> "missingContext", ctx |-> "", fields |-> <<>>]
  ELSE [err |-> "", ctx |-> IF has THEN p.context ELSE "", fields |-> p.fields]

\* ParsePathContext without the check that the context is a known one.
ParsePathContextUnchecked(p) ==
  IF p.context = "" /\ pathContextNames # {}
  THEN [err |-> "missingContext", ctx |-> "", fields |-> <<>>]
  ELSE [err |-> "", ctx |-> p.context, fields |-> p.fields]

(***************************************************************************)
(* parsePathContext: the segment context and the fields the chain is made  *)
(* of, or an error.  Without context names a written context is demoted   *)
(* to the first ordinary (key-less) segment.                               *)
(***************************************************************************)
ParsePathContext(p) ==
  LET has == pathContextNames # {} IN
  IF p.context # ""
  THEN IF ~has
       THEN [err |-> "", ctx |-> "",
             fields |-> <<[name |-> p.context, keys |-> FALSE]>> \o p.fields]
       ELSE IF p.context \notin pathContextNames
            THEN [err |-> "invalidContext", ctx |-> "", fields |-> p.fields]
            ELSE [err |-> "", ctx |-> p.context, fields |-> p.fields]
  ELSE IF has
       THEN [err |-> "missingContext", ctx |-> "", fields |-> <<>>]
       ELSE [err |-> "", ctx |-> "", fields |-> p.fields]

\* newPath's chain: one segment per field, only the head preset fetched.
NewChain(ctx, fields) ==
  [i \in DOMAIN fields |->
     [context |-> ctx, name |-> fields[i].name, keys |-> fields[i].keys,
      fetched |-> i = 1, fetchedKeys |-> FALSE]]

(***************************************************************************)
(* newPath: zero fields is an error; otherwise the context is resolved and *)
(* the chain is built from the last field backwards, newKeys failing for  *)
(* a keyed field when a key's own path or converter does not bind.         *)
(***************************************************************************)
NewPath(p, keysFail) ==
  /\ phase = "idle"
  /\ src' = p
  /\ LET pc == ParsePathContext(p) IN
     CASE p.fields = <<>> ->
            /\ result' = Err("zeroFields") /\ phase' = "done" /\ chain' = <<>>
       [] pc.err # "" ->
            /\ result' = Err(pc.err) /\ phase' = "done" /\ chain' = <<>>
       [] keysFail /\ \E i \in DOMAIN pc.fields : pc.fields[i].keys ->
            /\ result' = Err("keyError") /\ phase' = "done" /\ chain' = <<>>
       [] OTHER ->
            /\ chain' = NewChain(pc.ctx, pc.fields)
            /\ phase' = "resolving"
            /\ UNCHANGED result
  /\ UNCHANGED pathContextNames

\* basePath.Next on a segment the resolver holds marks its successor fetched.
NextSegment(i) ==
  /\ phase = "resolving"
  /\ i < Len(chain)
  /\ chain[i].fetched
  /\ ~chain[i + 1].fetched
  /\ chain' = [chain EXCEPT ![i + 1].fetched = TRUE]
  /\ UNCHANGED <<pathContextNames, src, phase, result>>

\* basePath.Keys on a held segment with keys marks its keys fetched (with
\* nil keys it returns nil and changes nothing).
Keys(i) ==
  /\ phase = "resolving"
  /\ chain[i].fetched
  /\ chain[i].keys
  /\ ~chain[i].fetchedKeys
  /\ chain' = [chain EXCEPT ![i].fetchedKeys = TRUE]
  /\ UNCHANGED <<pathContextNames, src, phase, result>>

(***************************************************************************)
(* isComplete, from segment i to the tail: the first segment not fetched, *)
(* else the first keyed segment whose keys were not fetched, is reported. *)
(***************************************************************************)
RECURSIVE IsCompleteSwapped(_, _)
IsCompleteSwapped(c, i) ==
  IF c[i].keys /\ ~c[i].fetchedKeys THEN [kind |-> "extraKeyIndexing", seg |-> i]
  ELSE IF ~c[i].fetched THEN [kind |-> "extraPathSection", seg |-> i]
  ELSE IF i = Len(c) THEN Ok ELSE IsCompleteSwapped(c, i + 1)

RECURSIVE IsCompleteNoKeys(_, _)
IsCompleteNoKeys(c, i) ==
  IF ~c[i].fetched THEN [kind |-> "extraPathSection", seg |-> i]
  ELSE IF i = Len(c) THEN Ok ELSE IsCompleteNoKeys(c, i + 1)

RECURSIVE IsComplete(_, _)
IsComplete(c, i) ==
  IF ~c[i].fetched THEN [kind |-> "extraPathSection", seg |-> i]
  ELSE IF c[i].keys /\ ~c[i].fetchedKeys THEN [kind |-> "extraKeyIndexing", seg |-> i]
  ELSE IF i = Len(c) THEN Ok ELSE IsComplete(c, i + 1)

(***************************************************************************)
(* parsePath: the resolver returns an error, or a getter after which the  *)
(* chain must be complete.                                                 *)
(***************************************************************************)
ParsePath(resolverOk) ==
  /\ phase = "resolving"
  /\ result' = IF resolverOk THEN IsComplete(chain, 1) ELSE Err("resolverError")
  /\ phase' = "done"
  /\ UNCHANGED <<pathContextNames, src, chain>>

\* The parser goes on to the next path of the statement.
NextPath ==
  /\ phase = "done"
  /\ phase' = "idle"
  /\ chain' = <<>>
  /\ result' = None
  /\ UNCHANGED <<pathContextNames, src>>

Init ==
  /\ pathContextNames \in {{}, ContextNames}
  /\ src = NoPath
  /\ chain = <<>>
  /\ phase = "idle"
  /\ result = None

Next ==
  \/ \E p \in GrammarPaths, f \in BOOLEAN : NewPath(p, f)
  \/ \E i \in DOMAIN chain : NextSegment(i) \/ Keys(i)
  \/ \E ok \in BOOLEAN : ParsePath(ok)
  \/ NextPath

Spec == Init /\ [][Next]_vars

-----------------------------------------------------------------------------
Segment == [context : pathContextNames \cup {""}, name : STRING,
            keys : BOOLEAN, fetched : BOOLEAN, fetchedKeys : BOOLEAN]

TypeOK ==
  /\ pathContextNames \in {{}, ContextNames}
  /\ src \in GrammarPaths \cup {NoPath}
  /\ chain \in Seq(Segment)
  /\ phase \in {"idle", "resolving", "done"}
  /\ result.kind \in {"none", "ok", "zeroFields", "invalidContext",
                      "missingContext", "keyError", "resolverError",
                      "extraPathSection", "extraKeyIndexing"}

Consumed(c, i) == c[i].fetched /\ (c[i].keys => c[i].fetchedKeys)

\* A path the parser accepts had every section and every key list read by
\* the context's resolver (isComplete after pathParser in parsePath).
AcceptedOnlyIfConsumed ==
  result.kind = "ok" => \A i \in DOMAIN chain : Consumed(chain, i)

\* A completeness error names the first segment, head first, that the
\* resolver left unconsumed, and says "extra path section" exactly when the
\* section itself was never reached and "keys not used" otherwise.
ErrorNamesFirstUnconsumed ==
  result.kind \in {"extraPathSection", "extraKeyIndexing"} =>
    LET j == result.seg IN
    /\ j \in DOMAIN chain
    /\ ~Consumed(chain, j)
    /\ \A i \in 1..(j - 1) : Consumed(chain, i)
    /\ (result.kind = "extraPathSection") = ~chain[j].fetched

\* The resolver is offered exactly the sections written in the statement:
\* with context names, every segment carries the path's (valid) context;
\* without, the written context is the first segment and none is lost.
ChainSpellsPath ==
  phase = "resolving" =>
    /\ [i \in DOMAIN chain |-> chain[i].name] =
         IF pathContextNames = {} /\ src.context # ""
         THEN <<src.context>> \o [i \in DOMAIN src.fields |-> src.fields[i].name]
         ELSE [i \in DOMAIN src.fields |-> src.fields[i].name]
    /\ \A i \in DOMAIN chain :
         chain[i].context = IF pathContextNames = {} THEN "" ELSE src.context
    /\ pathContextNames # {} => src.context \in pathContextNames
=============================================================================
