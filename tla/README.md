# TLA+ models of the OTTL front end and its companions

This directory holds TLA+ models of the code under `src/`: the OTTL parser/binder
(`pkg/ottl`), the transform processor's trace path, and the localized-time
formatter. It also has the TLC configurations that check those models.
`PROJECT.json` lists the components, the runs, the mutants that show each
property can fail, the map from every modelled definition to the source lines
it translates, the findings, and the hazards.

## The system and how its parts interact

| Part | Source | State and operations |
|---|---|---|
| Path model | `pkg/ottl/functions.go` 78-316 | `newPath` turns a grammar path (optional context, fields with or without keys) into a linked chain of `basePath` segments. Only the head is marked `fetched`. The context's `PathExpressionParser` (user code) then calls `Next()` and `Keys()` in any order. `parsePath` finally runs `isComplete`, which rejects any section or key list left unread. `parsePathContext` either validates the context against `pathContextNames` or, when there are none, demotes it to the first field. |
| Argument binder | `pkg/ottl/functions.go` 318-1064 | `newFunctionCall` looks up the factory. A nil `CreateDefaultArguments` means no arguments. `buildArgs` checks argument order and arity, maps each argument to a field (by position or by `ToCamel(name)`), builds a value by the field's type, and sets the field, unwrapping `Optional`. The builders are `FunctionGetter`, `SliceGetter` (`createStandardSliceGetter`), `LiteralGetter`, plain slices (`buildSliceArg`), scalars, setters and typed getters (`buildArg`, `buildStandardGetterSetter`). |
| Context rewriter | `pkg/ottl/paths.go` | `AppendStatementPathsContext` parses a statement and collects the offsets of paths whose context is unknown. `writeStatementWithPathsContext` splices `ctx.` in at those offsets. |
| Trace processor | `processor/transformprocessor/internal/traces/processor.go` | `NewProcessor` parses every `ContextStatements` entry, combining all errors. `ProcessTraces` runs the contexts in order on a batch. Each call has a fresh cache per context type, and the call returns at the first error. Calls may run concurrently. |
| Localized time | `internal/coreinternal/timeutils/internal/localizedtime` | `Format` walks the layout and the value side by side. It translates localized month, weekday and day-period names through the locale tables (`lookup`, `writeLayoutValue`), handles `_2` / `__2` / `_2006` (`nextNonSpaceValue`), and otherwise copies one value byte per layout byte with `WriteRune`. `Parse` feeds the result to `time.Parse`. `NewLocale` (`locale.go`) picks the CLDR table of a language or fails with `ErrUnsupportedLocale`. |
| CI tools | `cmd/ottlplayground/ci-tools/main.go` | `get-unregistered-versions` reads `versions.json` and prints the releases newer than v0.110.0 it does not list, oldest first. `register-wasm` opens the file (creating it), parses it, returns if the version is listed, otherwise appends it, sorts newest first and writes the file back with `os.WriteFile` (truncate, then write). `validate-registered-versions` fails on a missing or unparseable file, accepts an empty one, and reports every listed version whose artifact is absent from `web/public`. CI jobs run these without a lock. |
| Syslog config | `exporter/syslogexporter/config.go` | Not modelled (see below). |

The parser binds the paths and calls of a statement. The rewriter prepares
statements for a parser with context names. The processor runs statements the
parser has bound. The statement grammar, `newGetter` and the contexts'
`ConsumeTraces` are not in `src/`. Where the model needs them, they are
modelled from `spec.md` and marked `spec_modelled` in the map.

## Modules

- **`OttlPath`** (`MC_OttlPath`): a path is bound, then resolved.
  - Variables: `pathContextNames`, the grammar path `src`, the segment `chain` with its `fetched`/`fetchedKeys` flags, `phase` and `result`.
  - Actions: `NewPath` (including the zero-fields error, the context errors and a key-build failure), `NextSegment` and `Keys` (the resolver's reads, in any order), `ParsePath` (the resolver returns an error or a getter, then `isComplete`), and `NextPath`.
  - `Init` chooses between a parser without context names and one with them, so both the legacy and the new behaviour are explored.
- **`OttlArgs`** (`MC_OttlArgs`): one call is bound at a time.
  - `NewFunctionCall` looks the function up: an unknown name fails, a factory whose `CreateDefaultArguments` returns nil goes straight to `create`, and one that returns its record by value (not a pointer, the constant `ValueArgFunctions`) fails with `nonPointerArguments` before any argument is looked at.
  - Stages: `idle`, then `check` (order and arity), then `bind` (one argument per `BindArg` step), then `create` (`CreateFunction` may fail), then `done`.
  - Builder functions are operators named after the Go functions: `BuildArg`, `BuildSliceArg`, `BuildSlice`, `BuildStandardGetterSetter`, `CreateStandardSliceGetter` and `BindValue` (the `switch` of `buildArgs`).
  - Each field records whether it is set, from which argument, and whether its value is literal.
  - The module also holds a reference definition of spec §4.4's type table (`SpecAccepts`, `SpecSliceLiteral`), which the bound values are checked against.
- **`OttlRewrite`** (`MC_OttlRewrite`): the state is the statement text a configuration holds.
  - `AppendStatementPathsContext(c)` rewrites it, or returns an error for an unknown `c`. `Load` replaces it with another statement.
  - Texts are token sequences: identifiers, `.` and `x` (any non-path text), each one byte wide.
  - `ParsedStatementPaths` is the grammar's path recognition. `WriteFrom` is the slicing loop, as a recursion.
- **`TransformTraces`** (`MC_TransformTraces`):
  - `NewProcessor` chooses which entries fail to parse and each context's type.
  - Each concurrent call then does `Start` (a fresh `contextCache`) and one `Consume` per context.
  - `Consume` does `GetOrCreate` on the cache of `CacheKey(i)` (the type), records what the context found there, adds its write, and returns at an error.
- **`LocalizedTime`** (`MC_LocalizedTime`): one `Format` call.
  - Variables: `lo`, `vo` and `out` are `layoutOffset`, `valueOffset` and the builder.
  - One loop iteration is one step: `TranslateName` (the `J`, `M` and `P`/`p` arms), `Underscore` (the `_` arm, falling back to a byte copy), `Literal` (any other byte), then `Finish`.
  - Strings are byte sequences. An ASCII byte is a one-character string; a byte >= 0x80 is a symbol whose value the constant `HighByte` gives. `RuneBytes` is `WriteRune(rune(b))`: a byte >= 0x80 becomes the two bytes of its UTF-8 encoding, and `CopyByte` advances `vo` by the size written, as `valueOffset += writtenSize` does. `NextNonSpaceValue` appends `string(value[i])`, which is also two bytes for a byte >= 0x80, and stops only when the length equals `max` exactly, as the code's `len(val) == max` does.
  - `Finish` is the final `WriteString` with its guard `len(value) >= valueOffset`. Without the guard, `value[valueOffset:]` would panic at `valueOffset = len(value)+1`. The mutant `FinishUnguarded` models this as the status `panic`, and `FormatTerminates`, which asks that Format *return* a string or an error, catches it.
  - `Init` models the caller: `NewLocale` of a case's language, which for an unknown language ends in `unsupportedLocale` before `Format` runs.
  - `ParseStd` is Go's `time.Parse` restricted to the layout elements used. It is the reference the output is checked against. `parsed`, what `Parse` returns, is `ParseStd` on the finished output.

- **`CiTools`** (`MC_CiTools`): `versions.json` shared by concurrent CI jobs.
  - `file` is the file: missing, empty, cut short (`partial`, does not parse) or a version list. A release `v0.N.0` is the number `N`.
  - Each job lists with `GetUnregistered`, then registers the listed versions one by one: `ReadForRegister` (open, read, parse, the already-registered check, append and sort into `snap`), `Truncate` and `Write` (the two halves of `os.WriteFile`). `Done` ends one registration. The job's loop over the listed versions (the next version, or back to idle) is the CI driver's, which is not in `src/`. `main.go` only gives one registration per command, and prints an error and exits 0 (:58-63).
  - `Crash` kills a job at any point. Between `os.WriteFile`'s truncate and the end of its write, it leaves the file as the truncate left it (empty, if no other job wrote since) or cut short.
  - `ListFails` is get-unregistered-versions when the GitHub request fails or answers with a status other than 200: it lists nothing.
  - `Validate` is `validate-registered-versions`: its `verdict` is `notFound`, `ok`, `parseError` or `artifactMissing`. The constant `Built` is the set of versions whose wasm file the build left in `web/public`; the build is not in this source.

## Runs

| Run | Checks | Shows |
|---|---|---|
| `path` (pass) | `TypeOK`, `AcceptedOnlyIfConsumed`, `ErrorNamesFirstUnconsumed`, `ChainSpellsPath` | For every order of resolver reads, parsePath accepts only fully consumed paths. A completeness error names the first unconsumed segment with the right kind. The resolver sees exactly the written sections, in both parser modes. |
| `args` (pass) | `TypeOK`, `BoundValuesConform`, `SliceLiteralSound` | Every bound value has a shape the spec's type table allows. A slice getter marked literal holds only literals. |
| `args_required` (violation) | `RequiredFieldsBound` | `concat(delimiter="x")` passes the arity check and is created with the required `Vals` unset. |
| `args_ignored_args` (violation) | `EveryArgumentBound` | `now("x")`: arguments to a function with nil default arguments are dropped without an error. |
| `args_literal_getter` (violation) | `LiteralGetterIsConstant` | `concat([], [path, "x"])`: the `LiteralGetter` delimiter binds to a getter that is not a compile-time constant. `buildArgs` checks only that the getter's type implements `literalGetter`, against spec §4.4. |
| `rewrite` (pass) | `TypeOK`, `AllPathsHaveContext`, `RewriteIdempotent`, `BytesPreserved` | After any sequence of rewrites, every path has a valid context and another rewrite changes nothing. Each rewrite equals the spec's "insert the prefix before each offset" on the original text. |
| `traces` (pass) | `TypeOK`, `CacheScopedToCallAndType`, `StopsAtFirstError` | With two concurrent calls, a context sees exactly what earlier contexts of its type wrote in the same call. A call runs the contexts in order and stops at the first failure. The batch returned with an error carries the work of exactly the contexts before the failing one. |
| `localized` (pass) | `TypeOK`, `RoundTripAligned`, `FormatTerminates` | Format always returns, also on a value whose last byte is non-ASCII, where the two-byte `WriteRune` copy leaves `valueOffset` at `len(value)+1` (`TypeOK` bounds it there), and the final slice's guard is needed. When no plain `2` day precedes a name or period, its output parses to the date the value was written for. |
| `localized_underscore` (violation) | `RoundTrip` | With layout `"_2 _2"`, the second check of the `_` arm reads `" _2"` as `"__2"`, so `" 5  5"` becomes `"55"`, which `time.Parse` rejects. Cases: `MCUnderscoreCases`, the day 5 or 12 written twice. |
| `ci_registry` (pass) | `TypeOK`, `FileSortedUnique`, `RegistryConverges` | With two jobs racing, up to two crashes and failing GitHub requests, a parseable `versions.json` lists each version once, newest first, even when a job registers a version another job already added after its stale listing. Once the jobs stop overlapping, later runs repair every lost update and every file a crash emptied between the truncate and the write: the registry settles on all compilable releases, unless a crash mid-write left a file nothing can parse. Without that premise the property fails: two jobs that keep overlapping can lose an update on every round. |
| `localized_roundtrip` (violation) | `RoundTrip` | `"12 enero"` with layout `"2 January"` becomes `"12January"`, which `time.Parse` rejects. |
| `localized_multibyte` (violation) | `RoundTrip` | `"enero 5日"` with layout `"January 2日"`: the literal path writes each byte of 日 with `WriteRune`, which re-encodes a byte >= 0x80 as two bytes and then skips a value byte, so the output is `"January 5"` followed by the four bytes C3 A6 C2 A5: 0xE6 and 0xA5 re-encoded, 0x97 skipped, and nothing for the third layout byte because `valueOffset` (11) is already past the value's end (10). `time.Parse` rejects it. |

Each property of a pass run has a mutant in `PROJECT.json`: a plausible bug in
the mapped definition that TLC must catch under the run's configuration.

## Bounds and why they are enough

- **`MC_OttlPath`**
  - Contexts: `span` and `resource` are known; `foo` is unknown; a path may also have no context.
  - Paths have 1-2 fields, each with or without keys.
  - This covers the demotion, both context errors, and every position where a section or key list can be left unread.
  - Result: 1,130 states.
- **`MC_OttlArgs`**
  - Six functions mirror the spec's scenarios (`set`, `keep_keys`, `replace_pattern` with an optional `FunctionGetter`, `concat` with a `SliceGetter` and an optional `LiteralGetter`, `SHA256`, and `now` with nil arguments). A seventh, `by_value`, has a factory that returns its record by value. There is also one undefined name.
  - Argument lists have 0-3 entries over a pool of 13 positional and named values: literals, paths, enums, lists (empty, all-literal, with a path) and a function reference.
  - Three arguments exceed every signature, so the arity errors, named/positional mixing and every builder branch are reached.
  - Result: 38,269 states.
- **`MC_OttlRewrite`**
  - Statements hold one or two paths of one or two identifiers over {`span`, `resource`, `foo`, `f`}.
  - This covers context-less paths, paths with an unknown context, paths with a valid context, and paths whose single identifier is a context name.
  - `MaxLen` = 12 is never reached by the code, which inserts at most two prefixes once. It only bounds mutants.
- **`MC_TransformTraces`**
  - Three contexts over two types, so a type can recur with another in between.
  - Two concurrent calls, each restarting for the next batch. This is what separates "per call" from "per processor" and "per type" from "per context". The calls are symmetric and the run checks only invariants, so `CallSymmetry` is used.
  - Result: 345 states.
- **`MC_LocalizedTime`**
  - Seven layouts with the day as `2` or `_2`, before and after long and short months, a weekday, and `PM`.
  - Days 5 and 12 (one and two digits), two months, AM/PM.
  - A Spanish table (short names ending in `.`, periods containing spaces), a locale without periods, and a locale whose second month name `ma` is a prefix of its first, `mayo`. That last locale exercises the longest-match rule of `lookup`: the `LookupLastMatch` mutant, which lets a later, shorter match win, breaks `RoundTripAligned`.
  - Well-formed values, English values (layout mismatch) and truncated values (the value runs out before the layout), plus one case with an unsupported language.
  - `HighByte` holds the bytes of 日 and the bytes their re-encoding produces (it must be closed under it, an `ASSUME` checks this), so `MC_LocalizedTime_multibyte.cfg` can run the layout `"January 2日"`. The pass run's cases (`MCPassCases`) include that case too, under the kind `nonAscii`, which `RoundTripAligned` does not judge. That case takes `valueOffset` to `len(value)+1`.
  - Result: 2,393 states.

- **`MC_CiTools`**
  - Releases 109-112 with `MinVersion` 110, so the boundary release and one below it are present.
  - Two jobs, so one can list, the other register, and the first then register a version that is already there. Up to two crashes, so a crash can hit the truncate window and the write. The jobs are symmetric, but the run checks a liveness property, for which TLC's symmetry reduction is unsound, so no symmetry set is given.
  - `Built` = {111}: v0.112.0 can be registered without an artifact, so validation reaches every verdict.
  - Result: 185,065 states, about a minute.

## Fairness

`LocalizedTime` states `WF_vars(Next)`. Format is a sequential function call,
so each enabled loop iteration does run, and the model has no other actors.

`CiTools` (`FairSpec`) states weak fairness for each job's `GetUnregistered`,
`ReadForRegister`, `Truncate` and `Write`. A CI job that has not died runs its
command to the end. The playground's CI runs get-unregistered-versions again
and again, and GitHub eventually answers. This last part is an assumption
about the CI environment, not something `main.go` guarantees. `Crash`,
`ListFails` and `Validate` are not fair: they need never happen.

The other modules check safety only. Their resolvers, callers and pipelines
are free to stop, and the code promises nothing about them.
`MC_LocalizedTime` disables deadlock checking because a single call ends.

## Not modelled, and why

- **Evaluation-time getters** (`Get`, `GetLiteral`): the models stop at binding. The typed getters these methods delegate to are not in `src/`. `SliceGetter.getLiteral` tests a `literal` field that nothing sets, but no bound value reaches it. A `LiteralGetter` over `*SliceGetter` has an unnamed pointer type, which `buildArg` rejects as an unsupported argument type. `createStandardSliceGetter` only calls `getLiteral` on the getters `newGetter` builds.
- **Paging of the GitHub release list**: only the first page of releases is read. The model's release list is a constant that fits in one page. Releases published over time, which paging would need, are not modelled. This is listed as a hazard.
- **`newKeys`' own binding of key expressions**: abstracted to "has keys", plus a nondeterministic failure.
- **Syslog `Config.Validate`**: a stateless, straight-line check of independent fields. It has no state, interleaving or sequence of calls for a model checker to explore.
- **`ParseInLocation`**: it differs from `Parse` only in the location given to `time.ParseInLocation`, which the dates checked here do not involve.
- **The empty-list literal flag** (`functions.go:990`): `createStandardSliceGetter` does not mark `concat([])` literal, although spec §8 calls a list of only literals literal. It is listed as a hazard; the run that showed it gave its slot to `localized_multibyte`.
- **The other CI tool commands**: `get-version`, `generate-constants` and `generate-processors-update` parse `go.mod` and generate code without shared state. The GitHub HTTP call is replaced by the constant `Releases`.
- **Lost registrations**: the model reaches a lost update (two jobs writing over each other), a file emptied or cut short by a crash, and `Validate` accepting that emptied file. Nothing in the code or the spec claims they cannot happen, so they are listed as hazards, not asserted.
- **Generated test helpers**: they have no system behaviour.

## Plan for later sittings

1. An abstract specification of binding: a call binds iff every argument is accepted by spec §4.4. `OttlArgs` cannot refine it as the code stands: `now([])` and the `LiteralGetter` check are counterexamples. It could be checked on the calls outside those two findings, which would also test the builders' completeness (the binder never rejects a call the spec accepts).
2. Releases published over time in `CiTools`, with the first page of the list, so the paging hazard of `main.go` can be checked against `RegistryConverges`.
