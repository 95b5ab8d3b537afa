------------------------------- MODULE CiTools -------------------------------
(***************************************************************************)
(* The version registry of the OTTL playground's CI tools                  *)
(* (cmd/ottlplayground/ci-tools/main.go): get-unregistered-versions lists  *)
(* the collector-contrib releases newer than v0.110.0 that versions.json   *)
(* does not list yet, and register-wasm adds one version to versions.json *)
(* (read, check, append, sort newest first, write back);                   *)
(* validate-registered-versions checks that every listed version's wasm   *)
(* artifact is present under web/public.                                   *)
(*                                                                         *)
(* versions.json is shared by the CI jobs that run the tool.  os.WriteFile *)
(* truncates the file before it writes, so a job that dies in between     *)
(* leaves it empty, and one that dies while writing leaves it cut short.  *)
(* A release v0.N.0 is the number N; semver.Compare on them is < and >.    *)
(***************************************************************************)
EXTENDS Integers, Sequences, SequencesExt, FiniteSets

CONSTANTS
  Releases,    \* the release names the GitHub API returns
  MinVersion,  \* "v0.110.0": releases up to it do not compile
  Jobs,        \* CI jobs that may run the tool at the same time
  MaxCrashes,  \* bound on the jobs that die mid-run
  Built        \* the versions whose wasm artifact the build left in web/public

VARIABLES
  file,     \* versions.json: [kind, versions], kind "missing", "empty",
            \* "partial" (cut short) or "json" (a version list)
  pc,       \* pc[j]: "idle" | "register" | "truncate" | "write"
  todo,     \* todo[j]: the versions job j still has to register
  snap,     \* snap[j]: the version list job j is about to write
  listed,   \* listed[j]: what job j's last get-unregistered-versions printed
  crashes,  \* jobs that died so far
  verdict   \* verdict[j]: what job j's last validate-registered-versions returned

vars == <<file, pc, todo, snap, listed, crashes, verdict>>

File(k) == [kind |-> k, versions |-> <<>>]
Json(vs) == [kind |-> "json", versions |-> vs]
IsList(f) == f.kind = "json"

\* Parsing without the len(bytes) == 0 case: json.Unmarshal of an empty
\* file is an error.
ParsedEmptyFails(f) ==
  [ok |-> f.kind \notin {"partial", "empty"}, versions |-> f.versions]

\* The "versions" entries of a file, or a parse error.
Parsed(f) ==
  [ok |-> f.kind # "partial", versions |-> f.versions]

\* slices.SortFunc with a comparator that puts a before b.
SortBy(s, before(_, _)) ==
  LET RECURSIVE Ins(_, _)
      Ins(x, t) == IF t = <<>> \/ before(x, Head(t)) \/ x = Head(t)
                   THEN <<x>> \o t ELSE <<Head(t)>> \o Ins(x, Tail(t))
  IN FoldLeft(LAMBDA acc, x : Ins(x, acc), <<>>, s)

\* semver.Compare(b, a): the newest version first.
SortVersions(s) == SortBy(s, LAMBDA a, b : a > b)

\* getNonRegisteredCollectorContribReleases: the releases newer than
\* v0.110.0 that are not registered, oldest first.
UnregisteredFrom(registered) ==
  SortBy(SetToSeq({r \in Releases : r \notin registered /\ r > MinVersion}),
         LAMBDA a, b : a < b)

(***************************************************************************)
(* get-unregistered-versions: a missing or empty file registers nothing;  *)
(* a file that does not parse makes the command fail.                      *)
(***************************************************************************)
GetUnregistered(j) ==
  /\ pc[j] = "idle"
  /\ LET p == Parsed(file) IN
     IF ~p.ok
     THEN /\ listed' = [listed EXCEPT ![j] = <<>>]
          /\ UNCHANGED <<pc, todo>>
     ELSE /\ listed' = [listed EXCEPT ![j] = UnregisteredFrom(ToSet(p.versions))]
          /\ todo' = [todo EXCEPT ![j] = listed'[j]]
          /\ pc' = [pc EXCEPT ![j] = IF listed'[j] = <<>> THEN "idle" ELSE "register"]
  /\ UNCHANGED <<file, snap, crashes, verdict>>

\* get-unregistered-versions whose GitHub request fails or answers with a
\* status other than 200: the command prints the error and lists nothing.
ListFails(j) ==
  /\ pc[j] = "idle"
  /\ listed' = [listed EXCEPT ![j] = <<>>]
  /\ UNCHANGED <<file, pc, todo, snap, crashes, verdict>>

\* A registration that returns nil, going back to the loop unconditionally.
DoneNoEnd(j) ==
  /\ todo' = [todo EXCEPT ![j] = Tail(@)]
  /\ pc' = [pc EXCEPT ![j] = "register"]

\* A registration that returns nil; the job goes on with the next listed
\* version, or is done.
Done(j) ==
  /\ todo' = [todo EXCEPT ![j] = Tail(@)]
  /\ pc' = [pc EXCEPT ![j] = IF Tail(todo[j]) = <<>> THEN "idle" ELSE "register"]

\* registerWebAssemblyVersion without the already-registered check.
ReadForRegisterNoCheck(j) ==
  /\ pc[j] = "register"
  /\ LET v == Head(todo[j])
         p == Parsed(file) IN
     IF ~p.ok
     THEN /\ todo' = [todo EXCEPT ![j] = <<>>]
          /\ pc' = [pc EXCEPT ![j] = "idle"]
          /\ UNCHANGED <<file, snap>>
     ELSE /\ snap' = [snap EXCEPT ![j] = SortVersions(p.versions \o <<v>>)]
          /\ pc' = [pc EXCEPT ![j] = "truncate"]
          /\ file' = IF file.kind = "missing" THEN File("empty") ELSE file
          /\ UNCHANGED todo
  /\ UNCHANGED <<listed, crashes, verdict>>

(***************************************************************************)
(* registerWebAssemblyVersion up to the write: open (creating the file),  *)
(* read, parse; an already listed version is done; otherwise append it    *)
(* and sort newest first.  An error ends the job's loop.                   *)
(***************************************************************************)
ReadForRegister(j) ==
  /\ pc[j] = "register"
  /\ LET v == Head(todo[j])
         p == Parsed(file) IN
     CASE ~p.ok ->
            /\ todo' = [todo EXCEPT ![j] = <<>>]
            /\ pc' = [pc EXCEPT ![j] = "idle"]
            /\ UNCHANGED snap
       [] v \in ToSet(p.versions) ->
            /\ Done(j)
            /\ UNCHANGED snap
       [] OTHER ->
            /\ snap' = [snap EXCEPT ![j] = SortVersions(p.versions \o <<v>>)]
            /\ pc' = [pc EXCEPT ![j] = "truncate"]
            /\ UNCHANGED todo
  /\ file' = IF file.kind = "missing" THEN File("empty") ELSE file
  /\ UNCHANGED <<listed, crashes, verdict>>

\* os.WriteFile: the open with O_TRUNC, then the write of the whole list.
Truncate(j) ==
  /\ pc[j] = "truncate"
  /\ file' = File("empty")
  /\ pc' = [pc EXCEPT ![j] = "write"]
  /\ UNCHANGED <<todo, snap, listed, crashes, verdict>>

Write(j) ==
  /\ pc[j] = "write"
  /\ file' = Json(snap[j])
  /\ Done(j)
  /\ UNCHANGED <<snap, listed, crashes, verdict>>

\* The job dies.  Dying inside os.WriteFile after O_TRUNC leaves the file
\* as the truncate left it (empty, unless another job wrote since) when no
\* byte was written yet, or cut short when part of the list was.
Crash(j) ==
  /\ pc[j] # "idle"
  /\ crashes < MaxCrashes
  /\ file' \in IF pc[j] = "write" THEN {file, File("partial")} ELSE {file}
  /\ pc' = [pc EXCEPT ![j] = "idle"]
  /\ todo' = [todo EXCEPT ![j] = <<>>]
  /\ crashes' = crashes + 1
  /\ UNCHANGED <<snap, listed, verdict>>

(***************************************************************************)
(* validate-registered-versions: a missing file is an error, an empty one *)
(* passes, one that does not parse is an error; otherwise every listed     *)
(* version whose artifact is not in web/public is reported.                *)
(***************************************************************************)
Validate(j) ==
  /\ pc[j] = "idle"
  /\ verdict' = [verdict EXCEPT ![j] =
       CASE file.kind = "missing" -> "notFound"
         [] file.kind = "empty" -> "ok"
         [] ~Parsed(file).ok -> "parseError"
         [] ToSet(file.versions) \subseteq Built -> "ok"
         [] OTHER -> "artifactMissing"]
  /\ UNCHANGED <<file, pc, todo, snap, listed, crashes>>

Init ==
  /\ file = File("missing")
  /\ pc = [j \in Jobs |-> "idle"]
  /\ todo = [j \in Jobs |-> <<>>]
  /\ snap = [j \in Jobs |-> <<>>]
  /\ listed = [j \in Jobs |-> <<>>]
  /\ crashes = 0
  /\ verdict = [j \in Jobs |-> "none"]

Next ==
  \E j \in Jobs :
    \/ GetUnregistered(j)
    \/ ListFails(j)
    \/ ReadForRegister(j)
    \/ Truncate(j)
    \/ Write(j)
    \/ Crash(j)
    \/ Validate(j)

Spec == Init /\ [][Next]_vars

(***************************************************************************)
(* A job that has not died runs its command to the end: each of its steps *)
(* stays enabled until taken.  The playground's CI runs                    *)
(* get-unregistered-versions again and again (it is the job that feeds    *)
(* register-wasm), and GitHub eventually answers a request, so an idle    *)
(* job eventually lists.  Crashes, failed requests and validations need   *)
(* not happen.                                                             *)
(***************************************************************************)
Fairness ==
  \A j \in Jobs :
    /\ WF_vars(GetUnregistered(j))
    /\ WF_vars(ReadForRegister(j))
    /\ WF_vars(Truncate(j))
    /\ WF_vars(Write(j))

FairSpec == Spec /\ Fairness
-----------------------------------------------------------------------------
TypeOK ==
  /\ file.kind \in {"missing", "empty", "partial", "json"}
  /\ file.versions \in Seq(Releases)
  /\ pc \in [Jobs -> {"idle", "register", "truncate", "write"}]
  /\ todo \in [Jobs -> Seq(Releases)]
  /\ \A j \in Jobs : pc[j] # "idle" => todo[j] # <<>>
  /\ snap \in [Jobs -> Seq(Releases)]
  /\ listed \in [Jobs -> Seq(Releases)]
  /\ crashes \in 0..MaxCrashes
  /\ verdict \in [Jobs -> {"none", "notFound", "ok", "parseError", "artifactMissing"}]

StrictlyDescending(s) == \A i \in 1..(Len(s) - 1) : s[i] > s[i + 1]

\* However the jobs interleave and wherever they die, versions.json, when
\* it holds a list, lists each version once, newest first: a version
\* listed by a stale get-unregistered-versions call is not added again.
FileSortedUnique ==
  IsList(file) => StrictlyDescending(file.versions)

\* The releases that compile: newer than v0.110.0.
Compilable == {r \in Releases : r > MinVersion}

\* Two jobs are inside register-wasm's loop at once.
Overlap == \E j, k \in Jobs : j # k /\ pc[j] # "idle" /\ pc[k] # "idle"

\* Once the jobs stop overlapping, later runs repair whatever the races
\* and crashes did (a version lost to a concurrent write, a file emptied
\* by a crash): versions.json ends up listing every compilable release
\* once, newest first, and stays so, unless a job died while writing and
\* left a file that no later run can parse.  While jobs overlap, a lost
\* update can recur forever, since nothing serialises the writes.
RegistryConverges ==
  <>[]~Overlap =>
    <>[](\/ file = Json(SortVersions(SetToSeq(Compilable)))
         \/ file.kind = "partial")
=============================================================================
