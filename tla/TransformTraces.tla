--------------------------- MODULE TransformTraces ---------------------------
(***************************************************************************)
(* The transform processor's trace path (processor/transformprocessor/    *)
(* internal/traces/processor.go: NewProcessor and ProcessTraces).          *)
(*                                                                         *)
(* NewProcessor parses every ContextStatements entry, collecting all       *)
(* parse errors, and builds a processor only when there are none.  Each   *)
(* parsed context has a type (the span or the span-event consumer).        *)
(* The pipeline may call ProcessTraces from several goroutines at once;   *)
(* each call makes its own cache map, runs the contexts in order on its   *)
(* batch, gives every context the cache kept for its type, and returns at *)
(* the first context that fails.  A context's ConsumeTraces (in the        *)
(* common package, not in this source) only touches the call's batch and  *)
(* cache, so it is one step here; it may fail.                             *)
(***************************************************************************)
EXTENDS Integers, Sequences, SequencesExt, TLC

CONSTANTS
  N,       \* number of ContextStatements entries in the configuration
  Types,   \* the consumer types a context can have
  Calls    \* goroutines that may be inside ProcessTraces at the same time

Ctx == 1..N

VARIABLES
  created,  \* "none" before NewProcessor, then "ok" or "failed"
  parseErrs,\* the contexts whose parse errors NewProcessor returned
  ctype,    \* ctype[i]: the type of context i (reflect.TypeOf(c).String())
  status,   \* status[c]: "idle" | "running" | "done" for call c
  next,     \* next[c]: the context call c runs next
  cache,    \* cache[c]: call c's contextCache, key -> the writes held in it
  applied,  \* applied[c]: the contexts that have run on call c's batch
  seen,     \* seen[c][i]: the cache contents context i found in call c
  errs,     \* errs[c]: the contexts whose ConsumeTraces failed in call c
  failed    \* failed[c]: whether call c returned an error

vars == <<created, parseErrs, ctype, status, next, cache, applied, seen, errs,
          failed>>

NotRun == <<0>>  \* seen[c][i] for a context that has not run in the call

\* contextCache before any context has asked for a cache.
EmptyCache == [t \in {} |-> <<>>]

(***************************************************************************)
(* NewProcessor: every entry is parsed (the loop does not stop at an       *)
(* error), the errors are combined, and a processor exists only when none *)
(* failed.                                                                 *)
(***************************************************************************)
NewProcessor ==
  /\ created = "none"
  /\ \E failing \in SUBSET Ctx, types \in [Ctx -> Types] :
       /\ ctype' = types
       /\ parseErrs' = failing
       /\ created' = IF failing = {} THEN "ok" ELSE "failed"
  /\ UNCHANGED <<status, next, cache, applied, seen, errs, failed>>

\* ProcessTraces entered with a new batch and without a cache map reset.
StartKeepCache(c) ==
  /\ created = "ok"
  /\ status[c] # "running"
  /\ status' = [status EXCEPT ![c] = "running"]
  /\ next' = [next EXCEPT ![c] = 1]
  /\ applied' = [applied EXCEPT ![c] = <<>>]
  /\ seen' = [seen EXCEPT ![c] = [i \in Ctx |-> NotRun]]
  /\ errs' = [errs EXCEPT ![c] = {}]
  /\ failed' = [failed EXCEPT ![c] = FALSE]
  /\ UNCHANGED <<created, parseErrs, ctype, cache>>

\* ProcessTraces entered with a new batch: contextCache is made afresh.
Start(c) ==
  /\ created = "ok"
  /\ status[c] # "running"
  /\ status' = [status EXCEPT ![c] = "running"]
  /\ next' = [next EXCEPT ![c] = 1]
  /\ cache' = [cache EXCEPT ![c] = EmptyCache]
  /\ applied' = [applied EXCEPT ![c] = <<>>]
  /\ seen' = [seen EXCEPT ![c] = [i \in Ctx |-> NotRun]]
  /\ errs' = [errs EXCEPT ![c] = {}]
  /\ failed' = [failed EXCEPT ![c] = FALSE]
  /\ UNCHANGED <<created, parseErrs, ctype>>

\* A cache keyed by the context instance rather than its type.
CacheKeyByContext(i) == "context" \o ToString(i)

\* The cache a context is given: the one of its type.
CacheKey(i) == ctype[i]

\* The lookup in contextCache that makes a new map for a key not seen yet.
GetOrCreate(cc, k) == IF k \in DOMAIN cc THEN cc ELSE cc @@ (k :> <<>>)

(***************************************************************************)
(* One loop iteration: the context reads and writes the cache of its key  *)
(* and transforms the batch; an error ends the call at once.               *)
(***************************************************************************)
ConsumeNoReturn(c, ok) ==
  /\ status[c] = "running"
  /\ next[c] <= N
  /\ LET i == next[c]
         k == CacheKey(i)
         m == GetOrCreate(cache[c], k) IN
     /\ seen' = [seen EXCEPT ![c][i] = m[k]]
     /\ cache' = [cache EXCEPT ![c] = [m EXCEPT ![k] = @ \o <<i>>]]
     /\ applied' = [applied EXCEPT ![c] = @ \o <<i>>]
     /\ next' = [next EXCEPT ![c] = i + 1]
     /\ errs' = [errs EXCEPT ![c] = IF ok THEN @ ELSE @ \cup {i}]
     /\ failed' = [failed EXCEPT ![c] = @ \/ ~ok]
     /\ status' = [status EXCEPT ![c] = IF i = N THEN "done" ELSE "running"]
  /\ UNCHANGED <<created, parseErrs, ctype>>

Consume(c, ok) ==
  /\ status[c] = "running"
  /\ next[c] <= N
  /\ LET i == next[c]
         k == CacheKey(i)
         m == GetOrCreate(cache[c], k) IN
     /\ seen' = [seen EXCEPT ![c][i] = m[k]]
     /\ cache' = [cache EXCEPT ![c] = [m EXCEPT ![k] = @ \o <<i>>]]
     /\ applied' = [applied EXCEPT ![c] = @ \o <<i>>]
     /\ next' = [next EXCEPT ![c] = i + 1]
     /\ errs' = [errs EXCEPT ![c] = IF ok THEN @ ELSE @ \cup {i}]
     /\ failed' = [failed EXCEPT ![c] = ~ok]
     /\ status' = [status EXCEPT ![c] = IF ~ok \/ i = N THEN "done" ELSE "running"]
  /\ UNCHANGED <<created, parseErrs, ctype>>

Init ==
  /\ created = "none"
  /\ parseErrs = {}
  /\ ctype = [i \in Ctx |-> CHOOSE t \in Types : TRUE]
  /\ status = [c \in Calls |-> "idle"]
  /\ next = [c \in Calls |-> 1]
  /\ cache = [c \in Calls |-> EmptyCache]
  /\ applied = [c \in Calls |-> <<>>]
  /\ seen = [c \in Calls |-> [i \in Ctx |-> NotRun]]
  /\ errs = [c \in Calls |-> {}]
  /\ failed = [c \in Calls |-> FALSE]

\* A configuration that does not parse leaves no processor to call.
Rejected ==
  /\ created = "failed"
  /\ UNCHANGED vars

Next ==
  \/ NewProcessor
  \/ \E c \in Calls : Start(c)
  \/ \E c \in Calls, ok \in BOOLEAN : Consume(c, ok)
  \/ Rejected

Spec == Init /\ [][Next]_vars

-----------------------------------------------------------------------------
TypeOK ==
  /\ created \in {"none", "ok", "failed"}
  /\ parseErrs \subseteq Ctx
  /\ ctype \in [Ctx -> Types]
  /\ status \in [Calls -> {"idle", "running", "done"}]
  /\ next \in [Calls -> 1..(N + 1)]
  /\ \A c \in Calls : DOMAIN cache[c] \subseteq Types
  /\ \A c \in Calls : \A t \in DOMAIN cache[c] : cache[c][t] \in Seq(Ctx)
  /\ applied \in [Calls -> Seq(Ctx)]
  /\ seen \in [Calls -> [Ctx -> Seq(Ctx) \cup {NotRun}]]
  /\ errs \in [Calls -> SUBSET Ctx]
  /\ failed \in [Calls -> BOOLEAN]

SameTypeBefore(i) == SelectSeq([j \in 1..(i - 1) |-> j], LAMBDA j : ctype[j] = ctype[i])

\* Every context finds in its cache exactly what the earlier contexts of
\* its own type wrote during the same ProcessTraces call: the per-type
\* cache is shared across those contexts, and nothing of another type,
\* another batch or another concurrent call is visible.
CacheScopedToCallAndType ==
  \A c \in Calls, i \in Ctx :
    seen[c][i] # NotRun => seen[c][i] = SameTypeBefore(i)

\* A call that returns has run the contexts in configuration order, each
\* once, and has stopped at the first that failed: the batch it hands back
\* with an error carries the work of exactly the contexts before it.
StopsAtFirstError ==
  \A c \in Calls :
    status[c] = "done" =>
      /\ applied[c] = [j \in 1..Len(applied[c]) |-> j]
      /\ failed[c] <=> errs[c] # {}
      /\ errs[c] \subseteq {Len(applied[c])}
      /\ ~failed[c] => Len(applied[c]) = N

=============================================================================
