# A TLA+ development for ragkit

ragkit is a Go library for retrieval-augmented generation. It builds immutable
index bundles on disk from documents, chunks, representations and vectors; it
caches the expensive calls to providers; and it answers questions over a bundle
with evidence and citations that are checked. This directory holds TLA+ models of
the parts of it whose correctness depends on state, order or failure, the TLC
configurations that check them, and TLAPS proofs.

1. [The system](#1-the-system)
2. [The modules](#2-the-modules)
3. [What the runs check](#3-what-the-runs-check)
4. [What is proved](#4-what-is-proved)
5. [What the models leave out](#5-what-the-models-leave-out)
6. [Plan](#6-plan)

`tlc -workers 2 -config X.cfg M` runs a configuration; `tlapm` on each of the modules
named `...Proofs` and on `CollectionTheorems.tla` checks the proofs. `PROJECT.json` maps each
definition to the lines of the code it models and lists, under `hazards`, what is hard to
test in this code and which property is about it.

## 1. The system

Two flows go through the library. **Building**: a producer hands batches to
`indexbundle.BuildStream` (or a whole corpus to `indexbundle.Build`), vectors come
from the cached embedder, representations perhaps from the generation cache, and a
directory named after the digest of the content appears in the output root.
**Answering**: `indexbundle.Open` verifies and opens the bundle; its searchers and its
content store, a reranker and a generator are the components of
`answering.Service`.

| component | state | operations | hard behaviour | correct when |
|---|---|---|---|---|
| staging kernel `rag/indexbundle/staging_kernel.go` | SQLite tables; counters and phase in memory; seal | `AddDocuments` ... `AddVectors`, `seal`, joins and payload reads, `close` | a batch fails in its middle or at commit; any order of calls; callbacks between seal and payloads | counters equal the rows, ordinals are dense, lineage holds, what is written is what was digested |
| publication `build.go`, `build_stream.go`, `internal/fsutil` | directories under the output root | create partial directory, write, sync, rename, verify and reuse, clean up | concurrent builders, failing steps, crashes, losses of power | only whole bundles appear, they never change, fresh results are durable, equal input is reused |
| verification `verify.go`, `verify_stream.go`, `verification_relation.go` | scratch SQLite relation | `Verify`, `LoadVerifiedDocuments` | batch rotation, cleanup on every path | accepts exactly whole, unaltered bundles; leaks no scratch file |
| opening `open.go`, `types.go` | handles of the indexes and stores | `Open`, `Bundle.Close` | failure half way, `Close` racing lookups | nothing stays open after an error |
| cached embedder `embedding/cached_embedder.go` | shared cache, totals, usage accumulator | `Embed`, `Snapshot` | several calls, several workers each, billing on failure | success means aligned vectors; billed usage is kept; cached work is free |
| corpus embedding `embedding/cached.go` | the cache | `Cached` | batches, partial failure | as above, for a corpus |
| generation and reranking caches `generation/*.go`, `reranking/cached.go` | caches, last outcome, budgets | `Generate`, `Rerank`, flow adapter | concurrent calls, retry, caching before validation | usage and outcome belong to the call that asks |
| answering service `answering/*.go` | none between turns; one turn's evidence, labels, observations | `Answer`; `Retrieve`, `Prepare`, `Interpret` | every component fails or lies; a batch keeps and alters `Prepared`; an observer that cannot record | evidence is stored content, citations name what the model was shown, no unrecorded stage is presented |
| retrieval `retrieval/*.go`, `rag/ordering.go` | none | `Collapse`, `RRF`, `Hydrate`, filters | ties, duplicates | fusion respects the channels |
| content stores `content/*` | a SQLite file; a handle | `Build`, `Inspect`, `LoadChunks`, `Close` | builders of one destination, failing steps, batching, loads that race `Close` | published whole; every chunk asked for, in order, or an error |
| vector and lexical indexes | a SQLite file, a Bleve directory | `Build`, `Inspect`, `Search` | as above; partial batches, pages, ties at the limit of a bounded heap, filters behind a limit | published whole; inspection notices what was altered; the best `k` that are eligible, in order |
| inspection and statistics `inspect.go`, `stats.go` | none | `Inspect`, `Measure` | chunks listed in any order | every number can be checked against the chunks |
| representations `representations/*.go` | call counts | batched generation, repair | call ceiling, missing items | every chunk is represented once, within the budget |
| chunking `chunking/*.go` | none | windows, sections | window arithmetic | progress, coverage |
| Go chunks, flow policy, evaluation, datasets, provider adapters, infrastructure | none | pure functions, I/O | - | - |

How they interact: `BuildStream` owns a staging kernel and lends it to the producer
as `Stager`; it calls `ObserveStage` back between its steps. Builders of one root
share nothing but the file system. `Embed` calls share a cache, a limiter and the
totals. The service calls its components one after the other and hands every
stage to an observer, whose error ends the turn.

## 2. The modules

| module | models | EXTENDS / INSTANCE |
|---|---|---|
| `StagingKernel` | admission, seal and payloads of a streamed build | |
| `StagingKernelProofs` | theorems about it | `StagingKernel`, `TLAPS` |
| `BundleStore` | abstract: what an output root promises | |
| `BundleBuild` | `Build` and `BuildStream` calls on one root | instance of `BundleStore` |
| `BundleBuildProofs` | theorems about both, and that the one implements the other | `BundleBuild`, `TLAPS` |
| `Opening` | verifying, opening and closing a bundle | |
| `Lookups` | loading chunks from an open bundle that may be closed | `Opening` |
| `OpeningProofs` | theorems about both | `Lookups`, `TLAPS` |
| `Orderings` | sets and lists in order: what sorts, `ORDER BY` and loops with a condition yield | |
| `Backends` | building, publishing and inspecting content, vector and lexical stores | `Orderings` |
| `Searching` | searching what was published, through filters | `Backends` |
| `BackendsProofs` | theorems about both | `Searching`, `CollectionTheorems` |
| `ProviderCaches` | `CachedEmbedder.Embed`, corpus `Cached`, `CachedGenerator.Generate`, `CachedReranker.Rerank` | |
| `CollectionTheorems` | sums over finite sets, listings of sets in order, what is kept of a list | `Orderings`, `TLAPS` |
| `ProviderCachesProofs` | theorems about the caches | `ProviderCaches`, `CollectionTheorems` |
| `GeneratedRepresentations` | builders of generated representations over one `FlowBatcher` | |
| `Answering` | one turn of the service | `Orderings` |
| `AnsweringProofs` | theorems about it | `Answering`, `CollectionTheorems` |
| `Chunking` | the three chunkers | |
| `ChunkingProofs` | theorems about them | `Chunking`, `TLAPS` |
| `Statistics` | what is measured of the chunks | `Chunking` |
| `MC...` | values for TLC | the module of that name |

### StagingKernel

`phase`, `count` and `rows` are the kernel's phase, its four counters and the four
tables. A call of `AddDocuments`, `AddChunks`, `AddRepresentations` or `AddVectors`
that passes `requireBatch` opens the transaction `tx` (`BeginBatch`); each further
item is a step (`AddRow`), since the transaction is where a batch fails half way:
`RollbackBatch` is any rejected item, cancelled context or failing statement,
`CommitBatch` adds the pending rows, the counters and the phase together.
`Seal` checks `Sealable` and plans counts, joins and relation; `WritePayload`
reads the relation again for each payload; `Observe` callbacks may call the
`Stager` at any point in between, which the phase must refuse. A refused call
changes nothing and is no step. Digests are abstracted to the relation they are
taken of: two equal relations have one digest, and different ones differ.

### BundleStore and BundleBuild

A directory is the set of artifacts in it, which of those have a durable entry, the
corpus path in its manifest, and whether it was altered since. `step` is the program
counter of a running call; the order of steps is `StreamSteps` and `BuildSteps`,
read off the two functions. They differ where the code does: `BuildStream` creates
its partial directory and stages before it knows the identity, so on the reuse
path there is a partial directory to remove; `Build` knows the identity first.
`SyncsTemporary` says which writers sync the directory they write in.
`Fail` is an error at any step, `Crash` the death of one process, `Damage` an
altered bundle, `LosePower` a loss of everything that was not synced: the rename may
be undone, and an entry that was not synced may be missing.

`BundleStore` is the promise: bundles appear whole, are never replaced, are reused
only for a caller's own corpus path, and last once a build has answered that they
are fresh. `Store == INSTANCE BundleStore WITH bundle <- ...` is the refinement
mapping; `StoreImplemented` is the abstract specification as a property.

### Opening

`Verify` streams the stored chunks and representations through a scratch relation:
`file`, `db` and `tx` say whether its file, database and transaction are there, `batch`
holds the rows of the transaction and `committed` those of the ones before.
`AddChunk` and `AddRepresentation` are one row each and end with `Rotate`, which
commits and reopens the transaction every `BatchSize` rows; `FinishChunks` and
`FinishRepresentations` compare what was read with the manifest. Each backend is then
opened, inspected and closed (`OpenToInspect`, `Inspect`), and opened again for serving
(`OpenBackend`). `Refuse` is an early return with an error, `Fail` a failing operation
of any step, and `Cleanup` the deferred `closeAndRemove`. `Close`, `CloseHandle`,
`Closed` and `Return` are `Bundle.Close` under its `sync.Once`. A digest is the data it
is taken of. `LoadsVerifiedData` is the second reader of the code
(`loadVerifiedStoredData`), which has everything in memory; the model states that both
accept the same bundles.

### Lookups

A goroutine loads a list of chunks in batches (`NextBatch`, `EndBatch`), one query for each chunk
(`QueryRow`), while the goroutines of `Opening` close the bundle. The content store checks its
handle once for a batch and reads the pointer again for each query, and `Close` closes the
database and clears that pointer without a lock: after the check a reader finds a closed database
(an error) or no pointer (a panic), and the model lets it find either. `late` is a history
variable: somebody had returned from `Close` before the load began.

### Backends

The three builders have one shape, and `Steps` is their order: a temporary sibling of the destination
is created, opened and filled from producers, closed, and renamed if nothing is at the destination.
Where they differ the model does: content rows are inserted in one transaction for each table with
parents and unique keys looked up in the database (`AdmissibleChunk`), entries come in strictly
increasing order with vectors of one width (`AdmissibleEntry`), Bleve records are committed by batches
that replace records of the same identifier (`Commit`, `BatchFull`, `Committed`), SQLite files replace
a file at the destination if one has appeared there meanwhile and a Bleve directory does not
(`Renames`), and the index builders open what they have published (`Open`). `taken` is what was counted
and digested, `stored` what is committed, `identity` what is recorded of it; a store is right
when all three agree. `Return` is an error return with its deferred calls, `Fail` any failing
operation, `Crash` the death of the process, `Alter` a row that is lost or changed after
publication. `BeginInspection` and `ReadPage` are the inspections, the Bleve one by pages from an
offset. `Planned` is the digest the code computes of the same data in memory.

### Searching

`Scan` is one row of the vector index against the heap of the best hits, in any order of rows;
`SearchEngine` is Bleve, which is told the whole order before it cuts. `Filtered` is the loop of both
filters of `rag/retrieval`, which differ in what they ask the index for (`Depth`).
`SearchIsExact` compares the result with the definition the index in memory computes: everything
sorted by `HitRanksBefore`.

### ProviderCaches

Four ways to buy provider work through a cache, which share their shape and differ in
what they validate, total and return: `Kind(c)` tells them apart. Each input of a call
goes through `Lookup`, `Admit`, `Work`, `Store`, one step each, so that calls and workers
interleave between a cache miss and the store that follows. A corpus admits up to
`BatchSize` inputs together, which the provider answers for together and may be asked
again for (`Retry`); the others admit one. A vector is its number of dimensions: that is
all the validation distinguishes. `Answers` lets the provider fail, return malformed
vectors, and bill for either; vectors are validated before they are stored, the text of a
generator and the ranking of a reranker are not. `Notify` is the callback of
`CachedGenerator`, which writes the last outcome before `Return` merges the report; `CachedEmbedder` writes its own when its call returns
(`LastMerged`).
`paid` and `known` are history variables: what the provider billed, and what was cached
when the call was made. The pool belongs to another module of the family (`flowkit`)
that is not in this repository; it is modelled from what the code and its tests rely on
(lookup before admission, equal inputs of one call as one unit of work, nothing shared between
calls, no new work after a failure) and its part is marked external.

### GeneratedRepresentations

A builder asks for one text for each chunk, each document, or each group of chunks of a
document (`FirstItems`); a batched builder then repairs what the answers left out with
requests for single chunks (`Return`, when `Missing` is not empty). Requests are records,
and equal records are equal cache keys, so what shares the cache is decided by what the
code puts into the request. `UsableEntries` and `ParseBatchedResponse` are the parsing of an
answer: entries for chunks that are not there, blank, or second for a chunk are dropped, and
the first array with a usable entry counts. `Count` is what the batcher adds to its totals
at the end of a request, failed or not. `answers`, `billed`, `calls` and `free` are
history variables.

### Answering

`todo` holds the stages of the strategy that are still to come; a stage starts with
an observation (`StartStage`), does its work, and ends with another (`Finish`, or
`FailStage`, where the code ignores an error of the observer because it has an
error already). The six strategies of the service differ in `Strategy` and
`WithVariants`. Searchers, reranker, augmenter, generator and batch return anything from
`HitLists`, `EvidenceLists`, `Replies` and `Restaged`, valid or not.
`Answer` runs through; a staged turn calls `Retrieve`, `Prepare` and `Interpret`
and the batch in between may hand the `Prepared` value back reordered,
shortened, doubled, relabelled or with altered texts.
A sorted sequence is what it is sorted by (`InOrder` of `Orderings`): the one listing of a set in which each
pair is in order.

### Chunking

A document is its lines, with the place where each starts and what makes it a heading or a
fence, its length, and the places where sentences end. `ScanLine` is one turn of the loop over
lines with its fence; `EndScan` makes sections of the headings it found; `HoldSection` and
`MergeSection` are one turn of the loop that merges small sections; `WholeSection` and
`Window` are the chunks of a section, where `WindowEnd` and `SnapToSentence` cut a window back to
a sentence and `Stalls` is the check for progress. The fixed chunker starts with one section that is
the whole document.

### Statistics

`MeasureChunks` and `JoinDocuments` are functions of a list of chunks, which the module applies to what
the chunkers have made, as a bundle of two documents listed one after the other, in turn, and
from the end. `ChunksOf` and `PredecessorEnds` find the chunk before a chunk by document and ordinal,
wherever it is listed.

## 3. What the runs check

| run | states | what it shows |
|---|---|---|
| `staging` (`MCStagingKernel.cfg`) | 15 130 | Whatever order of batches, good, bad, duplicate, orphaned, empty or too long, with cancellation and rollback: counters equal rows (`CountsMatchRows`), ordinals are 0, 1, ... (`DenseOrdinals`), every row has its parent (`Lineage`), a sealed relation joins completely and has one vector for each representation although only their numbers are compared (`SealedRelationComplete`), payloads are read from what was planned (`PayloadsMatchPlan`), a table is frozen once a later one has rows (`EarlierTablesFrozen`). |
| `publication` (`MCBundleBuild.cfg`) | 360 750 | Three builders of one identity, two calls each, one failing step and one accident: `PublishedComplete`, `LeftoversAccounted`, `IdenticalBuildReuses`, and `StoreImplemented`, of which it is part that no bundle is ever replaced, that what was answered fresh survives a loss of power, and that a reused bundle is whole and has the caller's path. |
| `padded_stream` (`MCPaddedStream.cfg`) | violation | `IdenticalBuildReuses` fails for a `BuildStream` call whose corpus path has blanks around it; see below. |
| `opening` (`MCOpening.cfg`) | 145 112 | Bundles that are right, or wrong in one respect, with up to two failing operations, two callers of `Close` and a load of chunks: the streaming verification accepts exactly what the reader in memory accepts, wherever the boundaries of its transactions fall (`ReadersAgree`); no scratch file, database or backend stays open after an error (`NothingLeaks`); whoever returns from `Close` finds everything closed and gets the first error (`ClosedForAll`); a load returns every chunk in the order of the request or nothing, and never succeeds once somebody has returned from `Close` (`LookupsWholeOrFail`); every caller of `Close` returns (`CloseReturns`, liveness). |
| `caches` (`MCProviderCaches.cfg`) | 602 254 | Two calls of any two of the four kinds, two workers each: what is returned or stored is aligned with what was asked and has one width (`SuccessAligned`), what was stored is free (`StoredInputsAreFree`), and totals, reports and the last outcome follow the calls and what they were billed (`ReportsTrackCalls`). |
| `cache_usage` (`MCCacheUsage.cfg`) | violation | `BilledUsageIsReturned` fails; see below. |
| `generated` (`MCGeneratedRepresentations.cfg`) | 166 036 | Two builders of any two styles over one cache: the cache holds the answers to its keys, every representation is what the model said of that chunk in answer to that prompt, in order, and a chunk is missing only if the model had nothing to say of it (`RepresentationsFaithful`); totals equal the bills, a batched build stays below its call ceiling, and repairs with the default lead are free after a per-chunk build (`CallsAccounted`). |
| `generated_repairs` (`MCGeneratedRepairs.cfg`) | violation | `RepairsAreCacheHits` fails when the per-chunk build had another lead; see below. |
| `answering` (`MCAnswering.cfg`) | 190 373 | Six turns, one of each strategy, three of them through a batch: evidence is stored content and the context leaves out no chunk that fits (`EvidenceReachesContext`), `FusionRespectsChannels`, `CitationsGrounded`, and stages are observed in pairs and query generation degrades to the question (`StagesAccounted`). |
| `backends` (`MCBackends.cfg`) | 1 064 914 | Two calls build stores of one kind at one destination, one from any of 78 streams, good and bad, with one failing operation and one crash or alteration: what is published is all that one call was given and replaces another's only if both found the destination free (`PublishedWhole`); no temporary and no handle stays behind, and what is renamed is closed (`TemporariesAccounted`); an inspection computes the planned digest just when nothing was altered (`InspectionDecides`); a search returns the best eligible hits whatever the order of the scan and the ties at its end (`SearchIsExact`). |
| `chunking` (`MCChunking.cfg`) | 308 846 | Every document of up to four of seven lines, with chunkers of each kind at and beyond the limits: sections start at the headings outside fences (`HeadingsSplit`), sections below the minimum are merged (`SmallSectionsMerge`), chunks cover the document in order with the overlap asked for and every window advances (`Coverage`), windows end at the last sentence that is not too early (`SnapsToSentence`), and what is measured of the chunks is true however they are listed: the signal for a missing overlap is on the chunks that start a section and on no other, overlaps account for all a document's chunks have beyond its length, histogram and percentiles are of the chunks that are there (`MeasuresTrue`). |
| `chunking_whole` (`MCChunkingWhole.cfg`) | violation | `SectionsKeptWhole` fails; see below. |

Every property of a passing run has a mutant in `PROJECT.json`: a plausible slip in a
definition (a dropped guard, an offset, a missing cleanup) that makes TLC find
that property violated.

**Bounds, and why they are enough.**
Staging: two rows per table suffice for a gap, a duplicate, an orphan and a row that
is admitted before the one that fails; `BatchSize` 2 makes three items too many.
Publication: a race needs two builders; the third has another path; a second
attempt meets what the first left; one fault and one accident combine each failure with
each point of each other call. Accidents do not accumulate: two losses of power or
a damaged bundle after a crash are not explored. Provider caches: two calls with two
workers are the smallest instance in which workers of one call and of two calls race for the
same input; `Budget` 3 is below what two calls can ask for, `BatchSize` 2 is one batch of two or two
of one. The calls are alike and the invariants do not name them, so symmetry in `Calls` is sound;
so it is in `Builders` of `GeneratedRepresentations`. Opening: up to three of four chunks and two of
five representations, with `BatchSize` 2, put each key and its duplicate on the same side and on
both sides of a boundary; two faults are a failing step and a failing removal. Generated
representations: three chunks of two documents, two with equal texts, in groups of one and of two,
with one failing call; a batched builder of questions is not run beside another batched
one. Chunking: four lines are a fence, a heading in it, its end and a heading after it; overlaps are 0, below
the maximum, at it and beyond it; the default thresholds of the statistics are scaled
down with the chunk sizes. Lookups: three chunks, requests of up to three with `MaxBatch` 2, so that the last
batch is short. Backends: streams of up to four rows with batches and pages of two end within a page, at its end and
behind it; one of the calls is given every input, the other one good input of the same kind; there is one
inspection or one search, begun at any point after a publication. Answering: three stored chunks and one unknown; chunk
2 is as long as two others and the context holds three runes, so a chunk can be left
out with room for a later one; weights and `RRFConstant` are small so that scores tie.

**Deadlock** is not checked in any run: a build, a request and a turn end.

**Fairness.** Only `opening` assumes fairness: weak fairness of `CloseHandle`, `Closed` and
`Return`, since a goroutine that is in `Close` runs on and those that wait for the `sync.Once` are woken
when it is done. Nothing is assumed of `Open` itself or of a caller who has not called
`Close`. In the other modelled parts nothing waits for another actor except for the worker
pools, which are external; their properties are safety properties.

### Findings

*A padded corpus path* (`padded_stream`). `BuildStream` writes the corpus path as
given into the manifest, `Verify` trims the path it expects (`verify.go:30`), and a
second, identical call fails on the bundle the first one built. `Build` compares the
raw path and reuses it. `types.go:78` and `types.go:92-93` describe both as the same
contract.

*Billed usage dropped* (`cache_usage`). `components.go:51-52` asks embedders to keep
all billed usage on error. When cached and fresh vectors disagree in their
dimensions, the final check of `Embed` returns an empty result
(`cached_embedder.go:136-146`); the totals do have it (`ReportsTrackCalls`). The other
three callers keep the usage of every error.

*A fitting section cut in two* (`chunking_whole`). `markdown_heading.go:12-13` and its test
say that a section that fits the maximum is kept whole. Small sections are merged before the
sections are measured (`markdown_heading.go:67`), and a section that fits is windowed when the
merged one does not.

*Repairs that are not cache hits* (`generated_repairs`). `generated.go:350-352` and
`batched.go:16-19` say that a repair is a cache hit for whatever a per-chunk run has
generated. A repair always shows 500 runes of the document (`batched.go:211`), a per-chunk run
shows `ContextualSpec.LeadRunes`; with any other lead the requests differ and the repair is
paid for.

The comment on `SignalAtLimit` (`stats.go:19-20`) says that the size limit ended the chunk and the structure of
the document did not; the code asks for the size alone, so a section that is kept whole and is as
long as the limit has the signal too. `MeasuresTrue` therefore says nothing of that signal.

Two asymmetries are no violation of a stated rule, and the models have them as they are: a
contract stage whose `Prepared` value is invalid ends with its start recorded and
no failure (`answering/service.go:449-455`), so `StagesAccounted` lets the last
observation of a failed turn stay open; and usage of query generation is not returned when a later
retrieval stage fails.

## 4. What is proved

### StagingKernelProofs

Proved for every set of identifiers, batch limit, set of offered
batches, with and without embedding:

| theorem | states |
|---|---|
| `TypeCorrect` | `Spec => []TypeOK` |
| `CountersExact` | `Spec => []CountsMatchRows` |
| `OrdinalsDense` | `Spec => []DenseOrdinals` |
| `LineageHolds` | `Spec => []Lineage` |
| `SealComplete` | `Spec => []SealedRelationComplete` |
| `PayloadsPlanned` | `Spec => []PayloadsMatchPlan` |
| `TablesFreeze` | `Spec => EarlierTablesFrozen` |

`Invariance` (`Spec => []IInv`) is behind all of them. None of the invariants is inductive
alone: that counters equal rows after a commit depends on what the open transaction
has inserted so far, and that depends on identifiers and ordinals being distinct. The
strengthening is `IInv == TypeOK /\ TableInv /\ TxInv /\ PhaseInv /\ PlanInv /\
PayloadsMatchPlan`. Its core is one predicate, `WellFormed(t, S, n)`: the rows `S`
of table `t` are finite, `n` in number, with ordinals below `n` that do not repeat,
and with parents and unique keys. `TableInv` says it of the committed rows with the counter;
`TxInv` says it of the committed and pending rows together, with the counter the commit
will leave. A rollback returns to the first, a commit moves to the second, and neither needs to
look at single rows. `PhaseInv` says that tables after the phase are empty, that
tables before it are not, and that a transaction touches no table before the phase,
which gives `EarlierTablesFrozen`. `PlanInv` says that the plan describes the
relation while it is there. `SealComplete` is the one with a counting argument: vectors are
keyed by representation, each has its representation in the table (lemma
`SameIds`), and the numbers are equal, hence so are the sets.

The proof assumes the named `ASSUME`s of `StagingKernel` only (`BatchSize` is a positive
number, offered batches are sequences of items, `NoPlan` is no plan).

### ChunkingProofs

Proved for every document and every chunker configuration the code accepts:

| theorem | states |
|---|---|
| `TypeCorrect` | `Spec => []TypeOK` |
| `HeadingsFound` | `Spec => []HeadingsSplit` |
| `SmallMerged` | `Spec => []SmallSectionsMerge` |
| `Covered` | `Spec => []Coverage` |
| `SentencesKept` | `Spec => []SnapsToSentence` |

`Invariance` (`Spec => []IInv`) is behind all of them, with
`IInv == TypeOK /\ WellFormed /\ ScanInv /\ SectionInv /\ MergeInv /\ ChunkInv`.
`Coverage` alone is not inductive: that the next window starts inside the last chunk, or right
after it, depends on where the section began and on how far a window may be cut back.
The argument is about tilings: the sections that are found tile the lines read so far
(`ScanInv`), so do the merged and the unmerged ones together (`SectionInv`, `MergeInv`), and within
a section the last chunk and the place of the next window determine each other (predicate
`AtWindow`, part of `ChunkInv`). A window advances because its end lies beyond its start by more than
the overlap, whether it was cut back to a sentence or not (`Stalls`), so the next start is beyond this
one.

Three more invariants rest on this one. `HeadingInv` says of every line the scan has reached what
`HeadingsSplit` says of the last: there is a set of the lines that opened a fence (`ReadBefore`), all
of them but the open one have been closed, and the open one is the `fence` of the scan; each kind of line
(inside a fence, opening one, neither) extends the set by itself or not at all. `GroupInv` says which sections
wait in the merge: those from some `j` on, all small, the one before `j` not small, and nothing is merged only if
`j` is the first (`Waiting`); the boundaries kept so far are then those of `Kept`, and a section that is
not small adds the one at `j`. `SnapsToSentence` is inductive once no chunk exists before the split;
that a cut is where it should be is a lemma about `SnapToSentence` alone (`SnapCutsWell`), which needs that a
bounded set of positions has a largest one.

The assumptions are `DocumentAssumption` and `ChunkerAssumption` of `Chunking`. The first holds that lines are in
order and that no heading is the beginning of a fence, as `#` is neither of its markers.

### BundleBuildProofs

Proved for any number of builders, bundles, calls, failing steps, crashes and losses of power:

| theorem | states |
|---|---|
| `BuildTypeOK` | `Spec => []TypeOK` |
| `BuildPublishesComplete` | `Spec => []PublishedComplete` |
| `BuildLeftoversAccounted` | `Spec => []LeftoversAccounted` |
| `TrimmedBuildReuses` | `PathsTrimmed` implies `Spec => IdenticalBuildReuses` |
| `BuildImplementsStore` | `PathsNamed` implies `Spec => StoreImplemented` |
| `BuildAnswersStand` | `PathsNamed` implies `Spec => []Store!AnswersStand` |

What is at a bundle's path is what its call wrote before the rename, so none of this follows from a state
of the root alone. `IInv == TypeOK /\ StepInv /\ PartialInv /\ FinalInv /\ SyncedInv /\ LeftoversAccounted`
says for each step of each kind of call which artifacts are in its partial directory (`Written`), and that
just before the rename all of them are durable (`PartialInv`); then a loss of power after the rename can take
the name away but tears nothing (`FinalInv`), and a call that has synced the root has settled its bundle
(`SyncedInv`). The order of the steps of the two functions enters in two lemmas (`StreamOrder`,
`BuildOrder`), and a step that moved ahead of another would make them false.

`BuildImplementsStore` is the refinement: the initial state maps to the store's, and each action maps to the
promised step or to none: a rename to a publication, a verified bundle to a reuse, a return to an answer, an
accident to an accident.

`BuildAnswersStand` carries over what the abstract store promises. Of the store itself the lemma
`StoreAnswersStand` proves `StoreSpec => []AnswersStand` for any number of calls, bundles and corpus paths: a
bundle that was answered fresh never vanishes, and one that was published or reused is there under a path the
caller accepts unless it has been damaged. That invariant is inductive with the domains of the functions
(`StoreInv`); the step that matters is `LosePower`, which takes away unsettled bundles only and every answer
with them.

Two hypotheses are not `ASSUME`s of the model. `PathsTrimmed` (a `BuildStream` call has no blanks around its
corpus path) is what `IdenticalBuildReuses` needs: without it run `padded_stream` finds the violation.
`PathsNamed` says that no corpus path is the string `"absent"`, with which the store marks a bundle that is
not there: it restricts how paths are named in the model, not the code.

### OpeningProofs

Proved for every bundle, right or wrong, every `BatchSize`, any number of failing operations, of goroutines
that close the bundle and of readers that load from it:

| theorem | states |
|---|---|
| `OpeningTypeOK` | `LookupSpec => []TypeOK` |
| `ReadersAlwaysAgree` | `LookupSpec => []ReadersAgree` |
| `OpeningLeaksNothing` | `LookupSpec => []NothingLeaks` |
| `BundleClosedForAll` | `LookupSpec => []ClosedForAll` |
| `LookupsAlwaysWhole` | `LookupSpec => []LookupsWholeOrFail` |

The invariant is `LookupInv == OpenInv /\ ReadersInv`. That the streaming reader accepts what the reader in
memory accepts depends on where it stands: `ReadInv` says that the rows of the scratch relation, those of the
open transaction and those committed before together, are the rows read so far and that all of them were
valid, so that the place of a transaction's boundary drops out; a refusal is then matched by a defect that the
other reader sees, and the end of the stream by the absence of one. `ScratchInv` ties file, database and
transaction to the steps, `BackendInv` the handles to the position in the list of backends, `CauseInv` an
error to what must be closed, and `CloseInv` describes the `sync.Once`: who runs `Close` has closed the handles
before its position and holds the first error among them (`FirstFailing`), and whoever returns finds it done.
`ReadersInv` says of each load that what it has is the beginning of what it asked for, in order, and that an
error or a panic has its reason. The proofs rest on the `ASSUME`s of `Opening` and `Lookups` alone.

### BackendsProofs

Proved for any number of calls at one destination, any inputs, every batch and page size, any number of
failing operations, crashes and alterations, and every query, filter and limit:

| theorem | states |
|---|---|
| `BuildTyped` | `ServedSpec => []TypeOK` |
| `StoresPublishedWhole` | `ServedSpec => []PublishedWhole` |
| `BuildTemporariesAccounted` | `ServedSpec => []TemporariesAccounted` |
| `StoresInspectionDecides` | `ServedSpec => []InspectionDecides` |
| `SearchesAreExact` | `ServedSpec => []SearchIsExact` |

That a publication is whole says nothing of the call that is about to publish it, so none of the properties is
inductive. `BuildInv` is, and each part of it answers for a hazard of the builders:

* `TakenInv(c)`: what a call has taken from its producers is the beginning of what it is given, has keys of its
  own, and is what is committed followed by what is pending. A batch that replaced a record would break that;
  since all keys are distinct a commit only appends (`CommitAppends`). How full the open Bleve batch is follows
  from the count of the rows (`LeftOver`, `BatchCounts`): after `q` full batches the count is `q` times their size
  and what is pending.
* `ReadyInv(c)`: between the close and the rename everything has been taken, there is something of it, and the
  recorded identity is of just that (`AboutToPublish`).
* `StoresInv`: where in its steps a call has its temporary and its handle, and that each temporary left behind
  was paid for by a fault or an accident.
* `PublishedInv`: a publication has what its call was given, or that with the last row of one table lost or
  changed; a call about to rename has found nothing there or is `beside` one that had.
* `ReaderInv`: an inspection has read the beginning of what its publication lists, so the boundaries of the pages
  drop out (`PageContinues`).

`InspectionDecides` is then a fact about `Canonical`: a well-formed store is listed as it was planned in memory,
sorted or not (`PlannedIsCanonical`, from `ByIdSorted`: rows whose identifiers rise are sorted), and the listing of
an altered one is shorter, or has the identifier 0 that no input has (`AlterationShows`).

For the searches, `SearchInv` adds that what was asked is a publication (its rows have identifiers of their own,
altered or not: `EntriesDistinct`) and `HeapInv`: the heap holds as many of the hits scanned as were asked for,
and any other of them is behind all of it. Since the order of hits has no ties (`HitsRank`), the worst of the heap
exists (`WorstIsLast`) and one comparison with it decides about the next row (`OfferKeeps`), in whatever order the
rows come. At the end the heap, and likewise the cut that Bleve makes, is `Top` of all hits that match
(`ScannedTop`, `CutTop`), and `TopIsExact` is what ranking it, filtering and cutting it comes to, for the three
filters: without one the depth is the limit, the one by kind asks for everything, the one by role looks at a
fixed number.

The proofs rest on the `ASSUME`s of `Backends` and `Searching`. `InputAssumption` says which tables an
input of each kind has and keeps the identifier 0 for alterations, `FilterAssumption` that a filter by role looks at
one hit at least, as its constructor sees to.

### CollectionTheorems

`SumOf` is a sum over a finite set by a recursive function, and what it computes for every set is proved by
induction on its subsets (`SubsetInduction`), stated for a set instead of a predicate, so that it needs no
theorem with an operator for a parameter. The lemmas: a sum exists and is unique (`SumDefined`, `SumsAgree`), any
member can be taken out first (`SumOfOthers`), functions that agree have the same sum (`SumSame`), and
`SumAdds`: a new member adds its value. `SumOfZeros`, `SumOfOne` and `SumGrows` are what `AnsweringProofs` needs
of scores: nothing adds up to nothing, one term is the sum of itself, and where no term shrinks and one
grows the sum grows.

By the same induction a finite set has a last member in a strict total order (`LastExists`) and a listing
(`ListExists`). `InOrderLists` says that `InOrder`, by which the models define what a sort leaves, is that listing;
`KeptRows` says of `Kept`, by which they define what a loop picks, that it has just the rows at the places
given, in their order.

### ProviderCachesProofs

Proved for any number of calls, inputs and workers, every batch size and budget, and whatever the providers
answer and bill:

| theorem | states |
|---|---|
| `CachesTypeOK` | `Spec => []TypeOK` |
| `SuccessesAligned` | `Spec => []SuccessAligned` |
| `StoredAlwaysFree` | `Spec => []StoredInputsAreFree` |
| `ReportsAlwaysTrack` | `Spec => []ReportsTrackCalls` |

`IInv` has a part for what is shared (`SharedType`), three for each call, and two for the totals. `CallInv(c)`
is about the time between a worker's lookup and its store: what a call has counted as found or stored is in
the cache, the values it received have the one width it has seen, an input that was cached when the call began is never
worked on, and usage is what was billed to that call whatever the others do meanwhile. `ResultInv(c)` freezes
that when the call returns, although the cache goes on to change. `LastInv` says that the last
outcome is the last one merged once no `Generate` is under way, and `SumInv` that a report's usage is the sum
over the calls of its kind that have returned; a return adds one term (`SumAdds`). Since every action is
of one call, each preservation proof shows what it does to its own call and takes the rest from
one lemma about the others (`OthersStand`): what a call relies on in the cache is never taken away.

### AnsweringProofs

Proved for every set of configurations (so every strategy, with and without augmenter, direct and through a
batch), every content store, every limit, weight and rank constant, any number of reformulations, and
whatever searchers, reranker, augmenter, generator and observer return (a batch hands back what `Restaged`
allows, of which the proofs use the type alone):

| theorem | states |
|---|---|
| `Invariant` | `Spec => []IInv` |
| `TypeCorrect` | `Spec => []TypeOK` |
| `EvidenceGrounded` | `Spec => []EvidenceReachesContext` |
| `FusionAgrees` | `Spec => []FusionRespectsChannels` |
| `AnswersGrounded` | `Spec => []CitationsGrounded` |
| `ObservationsTrue` | `Spec => []StagesAccounted` |

None of the properties is inductive: each depends on which stages a turn has been through, which only the
stages still to come can tell. So `IInv` begins with `PlanInv`. Each stage has a `Place` in a turn,
and what is to come is `Planned`: the places rise, a stage that the strategy `Needed` is not left out, and the
end is the contract. `Passed(place)` and `Ahead(place)` then say of a state what it has been through, and the
searches to come and those made are `Searches` together. The other parts say what a state has by then:

* `ChannelInv`, `FusedInv`: channels have a chunk once. That the fusion agrees with them needs arithmetic: a
  better rank has a greater share (`BetterIsMore`), shares are added up (`BeatsScores`), the order by
  score and identifier has no ties (`FusionOrders`), and a finite set has a listing in such an order
  (`InOrderLists`).
* `EvidenceInv`: the evidence is stored chunks throughout (`Grounds`), and comes from the best of the fusion
  unless an augmenter replaces it.
* `ShownInv`: what the model is shown is the context of the evidence, from preparation on. `ContextTaken` turns the
  recursion of `ApplyContextPolicy` into what the property says: which places of the evidence were taken, and
  why the others were not (`TakesNext`, one item; `PolicyTakes`, all of them).
* `LogInv`: the observations are pairs, read together with `started`; `refused` only in a failed turn.
* `PreparedInv` is no more than a type, since a batch may have changed context and labels. `CitationsGrounded` is inductive
  all the same: the contract checks the labels against the context of the evidence and takes the texts from the
  store (`AuthoritativeItems`, `AnswerCites`), and `ShownInv` says that this context is what was shown.

The proofs rest on the `ASSUME`s of `Answering`. That weights are positive is what `ValidateRequest` requires of
them, `Scale` is the bound that makes shares exact.

### Only model-checked

* Liveness: `CloseReturns` (fairness and `ENABLED` are out of the prover's reach).
* `MeasuresTrue` of `Statistics`, and `RepresentationsFaithful` and `CallsAccounted` of
  `GeneratedRepresentations`: they are about what folds and sorts with an operator of their own compute
  (percentiles, groups, parsed answers), whose meaning for every input is an induction over data.

## 5. What the models leave out

* Texts are identifiers, digests are the data they are taken of, vectors are their
  dimensions, and directory contents are artifact names. Formatting, logging, timings and
  costs are left out, except billed usage.
* RRF scores are added exactly (shares are scaled to integers); the code adds floating-point
  numbers, whose rounding can order ties of three or more shares differently.
* The rank of a hit is its position. Validation of hits other than that (kinds, scores) is the Boolean "valid".
* An observer is always there in `Answering`; the service without one is the same
  turn in which no observation fails.
* An augmenter's result replaces the whole retrieval result (`service.go:367`). In `Answering` it replaces the
  evidence, which is validated and all that later stages read; `channels`, `fused` and `degraded` remain those of
  the service, so `FusionRespectsChannels` and the channel counts of `StagesAccounted` speak of the service's
  own searches and fusion, not of these fields of an augmented result.
* A batch may alter the context and the labels of a `Prepared` value, its text included. That it hands back
  another `Retrieval`, `Request` or citation style is left out, and `CitationsGrounded` does not speak of it.
* Durability is that of directory entries. File contents are synced before their
  entries by the writers that sync at all.
* A producer calls the `Stager` from one goroutine at a time, as its contract says.
* Searches of the indexes that run while a bundle is closed are left to the two libraries, which lock; lookups of
  chunks, which do not, are in `Lookups`. Snapshots that read several totals one by one are not modelled.
* In `Backends` identifiers are numbers ordered as their strings are. Errors of an inspection or a search
  other than those of the data are left out, since neither changes anything; so is loss of power, which is the
  matter of `BundleBuild`. Models of several names in one vector index are left out: no builder writes them.
* The HNSW index is an approximation by a third-party library, and scores of any index are numbers.
* Furniture patterns and excerpts are a matter of texts; the corpus file an inspection reads for titles changes
  no number.
* An entry of a provider cache that cannot be read is not modelled; a store that fails is.
* A model's answer for a group is a sequence of arrays of entries; how an array is found in the
  text of the answer is left out.
* Not modelled, with the reason in `PROJECT.json`: pure digests and reports,
  scoring, Go source extraction, evaluation, dataset loading, provider projections.

## 6. Plan

Done: staging (model, runs, proofs), publication (model, abstract store with its theorem, refinement, all
proved), opening, closing and lookups (model, run, proofs of the safety properties), provider caches (model,
runs, proofs), answering (model, run, proofs), chunking (model, runs, proofs), backends and
searches (models, run, proofs), generated representations and statistics (models and runs).

To be modelled, in this order:

1. An abstract specification of a provider cache (what was stored is free, what was billed is
   accounted for) that `ProviderCaches` and the batcher of `GeneratedRepresentations` both implement.
2. The composition of `Backends` and `BundleBuild`, in which a backend is one artifact.
3. `CachedEmbedder.Snapshot` beside running calls, and the corpus file of an inspection.

To be proved:

1. `GeneratedRepresentations`: the first two parts of `CallsAccounted`, with the sums of `CollectionTheorems`.
