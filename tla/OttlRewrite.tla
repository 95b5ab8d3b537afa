----------------------------- MODULE OttlRewrite -----------------------------
(***************************************************************************)
(* The path-context rewriter (pkg/ottl/paths.go:                           *)
(* AppendStatementPathsContext, getParsedStatementPaths and               *)
(* writeStatementWithPathsContext).                                        *)
(*                                                                         *)
(* A statement's text is a sequence of tokens, each one byte wide in the  *)
(* model: identifiers, "." and "x" standing for any text that is not part *)
(* of a path.  The statement parser (not in this source, modelled from    *)
(* the spec's grammar) finds the paths: maximal runs IDENT ("." IDENT)*,  *)
(* whose first identifier is the context when a "." follows it.  The      *)
(* grammar visitor reports them in source order with their offsets.       *)
(* A configuration tool may rewrite a statement several times; the text   *)
(* is the state.                                                           *)
(***************************************************************************)
EXTENDS Integers, Sequences, SequencesExt

CONSTANTS
  ContextNames,  \* the parser's pathContextNames
  Idents,        \* identifier tokens (context names among them)
  Statements,    \* the statement texts the configuration may hold
  MaxLen         \* bound on the text length (each rewrite adds two tokens)

ASSUME ContextNames \subseteq Idents /\ "." \notin Idents /\ "x" \notin Idents

VARIABLES
  text,     \* the statement as the caller currently holds it
  lastCtx,  \* the context of the last successful rewrite, or ""
  err       \* whether the last call returned an error

vars == <<text, lastCtx, err>>

IsIdent(s, i) == i \in DOMAIN s /\ s[i] \in Idents

\* A path starts at an identifier that does not follow a ".".
PathStart(s, i) == IsIdent(s, i) /\ (i = 1 \/ s[i - 1] # ".")

\* The grammar path at i: its context is the first identifier when a "."
\* and another identifier follow, and its offset is 0-based.
PathAt(s, i) ==
  [context |-> IF i + 2 <= Len(s) /\ s[i + 1] = "." /\ IsIdent(s, i + 2)
               THEN s[i] ELSE "",
   offset  |-> i - 1]

\* getParsedStatementPaths: the paths in the order the visitor meets them.
ParsedStatementPaths(s) ==
  LET starts == SelectSeq([i \in DOMAIN s |-> i], LAMBDA i : PathStart(s, i))
  IN [k \in DOMAIN starts |-> PathAt(s, starts[k])]

Prefix(c) == <<c, ".">>

\* The offsets of the paths whose context is not a known one.
MissingContextOffsetsAll(s) ==
  LET ps == ParsedStatementPaths(s) IN [k \in DOMAIN ps |-> ps[k].offset]

MissingContextOffsetsEmptyOnly(s) ==
  LET ps == SelectSeq(ParsedStatementPaths(s), LAMBDA p : p.context = "")
  IN [k \in DOMAIN ps |-> ps[k].offset]

MissingContextOffsets(s) ==
  LET ps == SelectSeq(ParsedStatementPaths(s),
                      LAMBDA p : p.context \notin ContextNames)
  IN [k \in DOMAIN ps |-> ps[k].offset]

(***************************************************************************)
(* writeStatementWithPathsContext: copy statement[left:offset], write the *)
(* prefix, move left to offset; after the last offset copy the rest.       *)
(***************************************************************************)
RECURSIVE WriteFromStuck(_, _, _, _)
WriteFromStuck(c, s, offs, left) ==
  LET o == Head(offs) IN
  SubSeq(s, left + 1, o) \o Prefix(c) \o
    (IF Len(offs) = 1 THEN SubSeq(s, o + 1, Len(s))
     ELSE WriteFromStuck(c, s, Tail(offs), left))

RECURSIVE WriteFrom(_, _, _, _)
WriteFrom(c, s, offs, left) ==
  LET o == Head(offs) IN
  SubSeq(s, left + 1, o) \o Prefix(c) \o
    (IF Len(offs) = 1 THEN SubSeq(s, o + 1, Len(s))
     ELSE WriteFrom(c, s, Tail(offs), o))

WriteStatementWithPathsContext(c, s, offs) ==
  IF offs = <<>> THEN s ELSE WriteFrom(c, s, offs, 0)

\* AppendStatementPathsContext's result for a context known to the parser.
Rewrite(c, s) == WriteStatementWithPathsContext(c, s, MissingContextOffsets(s))

\* AppendStatementPathsContext without the check of the requested context.
AppendStatementPathsContextUnchecked(c) ==
  /\ Len(Rewrite(c, text)) <= MaxLen
  /\ text' = Rewrite(c, text)
  /\ lastCtx' = c
  /\ err' = FALSE

(***************************************************************************)
(* AppendStatementPathsContext: an unknown context returns the statement  *)
(* and an error; otherwise every context-less path gets the prefix.        *)
(***************************************************************************)
AppendStatementPathsContext(c) ==
  IF c \notin ContextNames
  THEN /\ err' = TRUE
       /\ UNCHANGED <<text, lastCtx>>
  ELSE /\ Len(Rewrite(c, text)) <= MaxLen
       /\ text' = Rewrite(c, text)
       /\ lastCtx' = c
       /\ err' = FALSE

\* The configuration is replaced by another statement.
Load(s) ==
  /\ text' = s
  /\ lastCtx' = ""
  /\ err' = FALSE

Init ==
  /\ text \in Statements
  /\ lastCtx = ""
  /\ err = FALSE

Next ==
  \/ \E c \in Idents : AppendStatementPathsContext(c)
  \/ \E s \in Statements : Load(s)

Spec == Init /\ [][Next]_vars

-----------------------------------------------------------------------------
TypeOK ==
  /\ text \in Seq(Idents \cup {".", "x"})
  /\ Len(text) <= MaxLen
  /\ lastCtx \in ContextNames \cup {""}
  /\ err \in BOOLEAN

\* The spec's reading of the rewrite: the prefix goes in front of each
\* offset and every other byte is kept, in order.
InsertBefore(c, s, offs) ==
  FlattenSeq([i \in DOMAIN s |->
                (IF i - 1 \in ToSet(offs) THEN Prefix(c) ELSE <<>>) \o <<s[i]>>])

\* Every successful rewrite only inserts "ctx." in front of the offending
\* paths and preserves all other bytes (the slicing loop of
\* writeStatementWithPathsContext against the spec's definition).
BytesPreserved ==
  [][lastCtx' # "" /\ ~err' /\ text' # text =>
       text' = InsertBefore(lastCtx', text, MissingContextOffsets(text))]_vars

\* After a successful rewrite every path of the statement has a valid
\* context: the rewritten statement parses in the new-style parser.
AllPathsHaveContext ==
  lastCtx # "" =>
    \A k \in DOMAIN ParsedStatementPaths(text) :
      ParsedStatementPaths(text)[k].context \in ContextNames

\* Rewriting again with the same context changes nothing (spec section 8,
\* "context injection idempotence").
RewriteIdempotent ==
  lastCtx # "" => Rewrite(lastCtx, text) = text
=============================================================================
