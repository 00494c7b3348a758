----------------------------- MODULE BundleBuild -----------------------------
(***************************************************************************)
(* Concurrent calls of Build (rag/indexbundle/build.go) and BuildStream    *)
(* (rag/indexbundle/build_stream.go) on one output root: each writes the   *)
(* artifacts of its bundle into a partial directory, renames it to the     *)
(* identity of the bundle, and syncs the root; or finds the bundle there,  *)
(* verifies it and reuses it.  Calls fail, processes die, the machine      *)
(* loses power, and bundles rot on disk.                                   *)
(*                                                                         *)
(* A directory is the set of artifacts in it, and of those the ones whose  *)
(* entry is durable.  BundleStore is the promise this module implements.   *)
(***************************************************************************)
EXTENDS Integers, Sequences, FiniteSets

CONSTANTS
  Builders,
  BundleIds,
  Paths,          \* corpus paths
  IdOf,           \* IdOf[b]: the identity of the content b was given
  PathOf,         \* PathOf[b]: its CorpusPath
  Mode,           \* Mode[b]: "build" or "stream"
  Trim,           \* Trim[p]: strings.TrimSpace
  MaxAttempts,    \* bound: calls per builder
  MaxFaults,      \* bound: failing steps
  MaxAccidents    \* bound: crashes, losses of power, damaged bundles

NoDir == [files |-> {}, durable |-> {}, path |-> "", intact |-> FALSE]

Artifacts == {"staging", "payloads", "content", "lexical", "vectors", "manifest"}

\* What a bundle consists of.
Bundle == Artifacts \ {"staging"}

Directory ==
  [files : SUBSET Artifacts, durable : SUBSET Artifacts, path : Paths, intact : BOOLEAN]

ASSUME InputAssumption ==
  /\ IdOf \in [Builders -> BundleIds] /\ PathOf \in [Builders -> Paths]
  /\ Mode \in [Builders -> {"build", "stream"}] /\ Trim \in [Paths -> Paths]
ASSUME BoundAssumption ==
  MaxAttempts \in Nat /\ MaxFaults \in Nat /\ MaxAccidents \in Nat

VARIABLES
  step,        \* step[b]: the next step of the running call, or "idle"
  outcome,     \* outcome[b]: what the last call returned
  attempt,     \* attempt[b]: the calls so far
  temporary,   \* temporary[b]: the partial directory of the running call
  final,       \* final[i]: the directory named after bundle i
  synced,      \* the bundles whose entry in the root is durable
  partials,    \* the partial directories in the root, by builder and attempt
  abandoned,   \* those a crash or a failing RemoveAll left behind
  faults, accidents

vars == <<step, outcome, attempt, temporary, final, synced, partials, abandoned,
          faults, accidents>>

StreamStepsKeepingStaging ==
  <<"MkdirTemp", "staging", "Stat", "payloads", "content", "lexical", "vectors",
    "manifest", "SyncTemporary", "Rename", "SyncRoot", "Measure">>

\* The steps of BuildStream after its input is validated.
StreamSteps ==
  <<"MkdirTemp", "staging", "Stat", "payloads", "content", "lexical", "vectors",
    "RemoveStaging", "manifest", "SyncTemporary", "Rename", "SyncRoot", "Measure">>

\* The steps of Build, which knows the identity before it creates a directory.
BuildSteps ==
  <<"Stat", "MkdirTemp", "payloads", "content", "lexical", "vectors",
    "manifest", "SyncTemporary", "Rename", "SyncRoot", "Measure">>

Steps(b) == IF Mode[b] = "stream" THEN StreamSteps ELSE BuildSteps

\* The step after s; the last one leads to "idle".
Following(b, s) ==
  LET program == Steps(b)
      i == CHOOSE n \in 1 .. Len(program) : program[n] = s IN
  IF i = Len(program) THEN "idle" ELSE program[i + 1]

StepNames ==
  Artifacts \cup {"idle", "MkdirTemp", "Stat", "RemoveStaging", "SyncTemporary",
                  "Rename", "SyncRoot", "Measure", "Verify", "MeasureReused"}

Init ==
  /\ step = [b \in Builders |-> "idle"]
  /\ outcome = [b \in Builders |-> "none"]
  /\ attempt = [b \in Builders |-> 0]
  /\ temporary = [b \in Builders |-> NoDir]
  /\ final = [i \in BundleIds |-> NoDir]
  /\ synced = {}
  /\ partials = {}
  /\ abandoned = {}
  /\ faults = 0 /\ accidents = 0

-----------------------------------------------------------------------------
(* One call.                                                               *)

TemporaryNameFixed(b) == <<b, 0>>

\* MkdirTemp chooses a name that is not in use.
TemporaryName(b) == <<b, attempt[b]>>

Continue(b) == step' = [step EXCEPT ![b] = Following(b, step[b])]

\* The call is made, and its input is valid.
Start(b) ==
  /\ step[b] = "idle" /\ attempt[b] < MaxAttempts
  /\ step' = [step EXCEPT ![b] = Steps(b)[1]]
  /\ attempt' = [attempt EXCEPT ![b] = @ + 1]
  /\ outcome' = [outcome EXCEPT ![b] = "none"]
  /\ UNCHANGED <<temporary, final, synced, partials, abandoned, faults, accidents>>

MkdirTemp(b) ==
  /\ step[b] = "MkdirTemp"
  /\ temporary' = [temporary EXCEPT ![b] =
       [files |-> {}, durable |-> {}, path |-> PathOf[b], intact |-> TRUE]]
  /\ partials' = partials \cup {TemporaryName(b)}
  /\ Continue(b)
  /\ UNCHANGED <<outcome, attempt, final, synced, abandoned, faults, accidents>>

\* Stat finds the bundle and turns to its verification, or does not.
Stat(b) ==
  /\ step[b] = "Stat"
  /\ IF final[IdOf[b]] = NoDir
     THEN Continue(b)
     ELSE step' = [step EXCEPT ![b] = "Verify"]
  /\ UNCHANGED <<outcome, attempt, temporary, final, synced, partials, abandoned,
                 faults, accidents>>

SyncsNothingAfterVectors(b) == {"payloads", "content", "vectors"}

\* The steps that sync the partial directory: the content and vector builders
\* and every AtomicWrite do, writeJSONArray and the bleve builder do not.
SyncsTemporary(b) ==
  {"content", "vectors", "manifest", "SyncTemporary"}
    \cup (IF Mode[b] = "build" THEN {"payloads"} ELSE {})

\* Writing an artifact, removing the staging database, syncing the directory.
Write(b) ==
  LET s == step[b]  d == temporary[b]
      files == IF s = "RemoveStaging" THEN d.files \ {"staging"}
               ELSE d.files \cup ({s} \cap Artifacts) IN
  /\ s \in Artifacts \cup {"RemoveStaging", "SyncTemporary"}
  /\ temporary' = [temporary EXCEPT ![b] =
       [d EXCEPT !.files = files,
                 !.durable = IF s \in SyncsTemporary(b) THEN files ELSE @]]
  /\ Continue(b)
  /\ UNCHANGED <<outcome, attempt, final, synced, partials, abandoned, faults, accidents>>

\* A rename onto a directory that is not empty fails.
DestinationFree(b) == final[IdOf[b]] = NoDir

Rename(b) ==
  /\ step[b] = "Rename" /\ DestinationFree(b)
  /\ final' = [final EXCEPT ![IdOf[b]] = temporary[b]]
  /\ temporary' = [temporary EXCEPT ![b] = NoDir]
  /\ partials' = partials \ {TemporaryName(b)}
  /\ Continue(b)
  /\ UNCHANGED <<outcome, attempt, synced, abandoned, faults, accidents>>

SyncRoot(b) ==
  /\ step[b] = "SyncRoot"
  /\ synced' = {i \in BundleIds : final[i] # NoDir}
  /\ Continue(b)
  /\ UNCHANGED <<outcome, attempt, temporary, final, partials, abandoned, faults, accidents>>

ExpectedPathTrimmed(b) == Trim[PathOf[b]]

\* The path the bundle must carry: Verify trims the path BuildStream expects.
ExpectedPath(b) == IF Mode[b] = "stream" THEN Trim[PathOf[b]] ELSE PathOf[b]

\* Verification reads every artifact and recomputes every digest.
Verified(b) ==
  LET d == final[IdOf[b]] IN
  /\ d.intact /\ Bundle \subseteq d.files
  /\ d.path = ExpectedPath(b)

Verify(b) ==
  /\ step[b] = "Verify" /\ Verified(b)
  /\ step' = [step EXCEPT ![b] = "MeasureReused"]
  /\ UNCHANGED <<outcome, attempt, temporary, final, synced, partials, abandoned,
                 faults, accidents>>

CleanupNever(b, failed) ==
  /\ faults' = faults + failed
  /\ UNCHANGED <<partials, abandoned>>

\* The deferred removal of the partial directory, if it was not published; an
\* error of RemoveAll is ignored.
Cleanup(b, failed) ==
  \/ /\ partials' = partials \ {TemporaryName(b)}
     /\ faults' = faults + failed
     /\ UNCHANGED abandoned
  \/ /\ TemporaryName(b) \in partials /\ faults + failed < MaxFaults
     /\ abandoned' = abandoned \cup {TemporaryName(b)}
     /\ faults' = faults + failed + 1
     /\ UNCHANGED partials

Return(b, result, failed) ==
  /\ step' = [step EXCEPT ![b] = "idle"]
  /\ outcome' = [outcome EXCEPT ![b] = result]
  /\ temporary' = [temporary EXCEPT ![b] = NoDir]
  /\ Cleanup(b, failed)
  /\ UNCHANGED <<attempt, final, synced, accidents>>

MeasureResult(b) ==
  \/ step[b] = "Measure" /\ Return(b, "fresh", 0)
  \/ step[b] = "MeasureReused" /\ Return(b, "reused", 0)

\* The bundle that is there is not valid, or not of this corpus path.
VerifyFails(b) == step[b] = "Verify" /\ ~Verified(b) /\ Return(b, "error", 0)

\* Another call published the bundle after this one found it absent.
RenameFails(b) == step[b] = "Rename" /\ ~DestinationFree(b) /\ Return(b, "error", 0)

\* Any step may fail: I/O, a cancelled context, an error of the producer.
Fail(b) == step[b] # "idle" /\ faults < MaxFaults /\ Return(b, "error", 1)

-----------------------------------------------------------------------------
(* What happens to processes, machines and disks.                          *)

\* The process of b is killed.
Crash(b) ==
  /\ step[b] # "idle" /\ accidents < MaxAccidents
  /\ accidents' = accidents + 1
  /\ step' = [step EXCEPT ![b] = "idle"]
  /\ outcome' = [outcome EXCEPT ![b] = "none"]
  /\ temporary' = [temporary EXCEPT ![b] = NoDir]
  /\ abandoned' = abandoned \cup ({TemporaryName(b)} \cap partials)
  /\ UNCHANGED <<attempt, final, synced, partials, faults>>

\* A stored bundle is altered behind the program's back.
Damage(i) ==
  /\ final[i] # NoDir /\ final[i].intact /\ accidents < MaxAccidents
  /\ accidents' = accidents + 1
  /\ final' = [final EXCEPT ![i].intact = FALSE]
  /\ UNCHANGED <<step, outcome, attempt, temporary, synced, partials, abandoned, faults>>

\* The artifacts of stored bundles whose entries are not as they are on disk.
Volatile ==
  {e \in BundleIds \X Artifacts :
     ~(e[2] \in final[e[1]].files <=> e[2] \in final[e[1]].durable)}

\* Everything stops.  A rename that was not synced may be undone (its partial
\* directory counts as abandoned and is not followed), and an entry that was not
\* synced may be as it was before.
LosePower ==
  /\ accidents < MaxAccidents
  /\ accidents' = accidents + 1
  /\ \E undone \in SUBSET {i \in BundleIds : final[i] # NoDir /\ i \notin synced},
        lost \in SUBSET Volatile :
       final' = [i \in BundleIds |->
         IF i \in undone THEN NoDir
         ELSE LET d == final[i]
                  left == {a \in Artifacts : ~(a \in d.files <=> <<i, a>> \in lost)} IN
              [d EXCEPT !.files = left, !.durable = left]]
  /\ step' = [b \in Builders |-> "idle"]
  /\ outcome' = [b \in Builders |-> "none"]
  /\ temporary' = [b \in Builders |-> NoDir]
  /\ abandoned' = partials
  /\ UNCHANGED <<attempt, synced, partials, faults>>

Proceed(b) ==
  \/ MkdirTemp(b) \/ Stat(b) \/ Write(b) \/ Rename(b) \/ SyncRoot(b)
  \/ Verify(b) \/ MeasureResult(b) \/ VerifyFails(b) \/ RenameFails(b)

Next ==
  \/ \E b \in Builders : Start(b) \/ Proceed(b) \/ Fail(b) \/ Crash(b)
  \/ \E i \in BundleIds : Damage(i)
  \/ LosePower

Spec == Init /\ [][Next]_vars

-----------------------------------------------------------------------------
(* Properties.                                                             *)

\* Steps, outcomes, directories and counters have their types and bounds.
TypeOK ==
  /\ step \in [Builders -> StepNames]
  /\ outcome \in [Builders -> {"none", "fresh", "reused", "error"}]
  /\ attempt \in [Builders -> 0 .. MaxAttempts]
  /\ temporary \in [Builders -> Directory \cup {NoDir}]
  /\ final \in [BundleIds -> Directory \cup {NoDir}]
  /\ synced \subseteq BundleIds
  /\ partials \subseteq Builders \X (1 .. MaxAttempts)
  /\ abandoned \subseteq Builders \X (1 .. MaxAttempts)
  /\ faults \in 0 .. MaxFaults /\ accidents \in 0 .. MaxAccidents

\* What is found under the name of a bundle, unless it was damaged since, is the
\* whole bundle and nothing else, after a loss of power too: no failure, crash or
\* race of builders publishes part of one or leaves the staging database in it.
PublishedComplete ==
  \A i \in BundleIds : final[i].intact => final[i].files = Bundle

\* A partial directory in the output root belongs to a running call, unless a
\* crash or a failing removal left it behind.
LeftoversAccounted ==
  \A e \in partials \ abandoned : step[e[1]] # "idle" /\ e[2] = attempt[e[1]]

\* A call never refuses a whole, undamaged bundle of its own content that was
\* stored under the very corpus path it was given.
IdenticalBuildReuses ==
  [][\A b \in Builders :
       /\ VerifyFails(b)
       /\ final[IdOf[b]].intact /\ Bundle \subseteq final[IdOf[b]].files
       => final[IdOf[b]].path # PathOf[b]]_vars

\* The answer of a call as BundleStore sees it.
Answer(b) ==
  CASE step[b] = "idle"                   -> outcome[b]
    [] step[b] \in {"SyncRoot", "Measure"} -> "published"
    [] step[b] = "MeasureReused"          -> "verified"
    [] OTHER                              -> "working"

Store == INSTANCE BundleStore WITH
  bundle  <- [i \in BundleIds |->
                IF final[i] = NoDir THEN "absent"
                ELSE IF ~final[i].intact THEN "damaged"
                ELSE IF final[i].files = Bundle THEN final[i].path ELSE "torn"],
  settled <- synced,
  answer  <- [b \in Builders |-> Answer(b)],
  Accepts <- [b \in Builders |-> {ExpectedPath(b)}]

\* Build and BuildStream implement the bundle store: bundles appear whole and at
\* once and stay so (none is ever "torn", a value the store does not have), are
\* reused only after verification for the right path, and what was answered as
\* fresh survives a loss of power.
StoreImplemented == Store!StoreSpec

=============================================================================
