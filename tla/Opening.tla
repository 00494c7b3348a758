------------------------------- MODULE Opening -------------------------------
(***************************************************************************)
(* Verifying, opening and closing a bundle (rag/indexbundle).  Verify      *)
(* streams the stored chunks and representations through a scratch         *)
(* relation on disk whose transaction is committed and reopened every      *)
(* BatchSize rows, then opens each backend in turn to inspect it.  Open    *)
(* verifies, opens the backends for serving and hands them to a Bundle,    *)
(* which several goroutines may close.                                     *)
(*                                                                         *)
(* A digest is the data it is taken of.                                    *)
(***************************************************************************)
EXTENDS Integers, Sequences, FiniteSets

CONSTANTS
  Bundles,    \* what may be stored
  BatchSize,  \* verificationBatchSize
  Closers,    \* goroutines that close the bundle
  MaxFaults   \* bound on the operations that fail

Backends == {"content", "lexical", "vector"}

\* `valid` says that the fields of the row agree with each other.
Chunk == [id : STRING, document : STRING, ordinal : Nat, digest : STRING, valid : BOOLEAN]
Representation == [id : STRING, chunk : STRING, kind : STRING, digest : STRING, valid : BOOLEAN]

\* `id` is the bundle ID; `vector` says whether there is a vector index and
\* `representations` is its digest of them; `sound` are the backends whose content
\* is that of the manifest and `embedder` whether the caller's embedder matches.
Bundle == [chunks : Seq(Chunk), representations : Seq(Representation),
           manifest : [chunkCount : Nat, representationCount : Nat, documents : Nat,
                       chunks : Seq(Chunk), representations : Seq(Representation),
                       kinds : SUBSET STRING, vector : BOOLEAN,
                       id : [chunks : Seq(Chunk), representations : Seq(Representation),
                             kinds : SUBSET STRING]],
           sound : SUBSET Backends, embedder : BOOLEAN]

ASSUME BundlesAssumption == Bundles \subseteq Bundle
ASSUME BatchSizeAssumption == BatchSize \in Nat \ {0}
ASSUME MaxFaultsAssumption == MaxFaults \in Nat

VARIABLES
  bundle,
  step,       \* the next step of Open, or "returned"
  position,   \* the next row or backend
  cause,      \* why Open fails, or "none"
  file, db, tx,       \* the scratch file, its database and transaction are there
  committed, batch,   \* rows of the relation, and those of the transaction
  handles,    \* the backends that are open
  once, failing, closeErr, closers,  \* Bundle.Close
  faults

relation == <<file, db, tx, committed, batch>>
closing == <<once, failing, closeErr, closers>>
vars == <<bundle, step, position, cause, relation, handles, closing, faults>>

manifest == bundle.manifest

Init ==
  /\ bundle \in Bundles
  /\ step = "manifest" /\ position = 1 /\ cause = "none"
  /\ file = FALSE /\ db = FALSE /\ tx = FALSE /\ committed = {} /\ batch = {}
  /\ handles = {}
  /\ once = "new" /\ failing = {} /\ closeErr = "none"
  /\ closers = [c \in Closers |-> "idle"]
  /\ faults = 0

Goto(s) == step' = s /\ position' = 1 /\ UNCHANGED <<bundle, cause>>

\* Verify and Open return an error after what is deferred.
Refuse(why) == step' = "cleanup" /\ cause' = why /\ UNCHANGED <<bundle, position>>

-----------------------------------------------------------------------------
(* The scratch relation.                                                   *)

LoadManifest ==
  /\ step = "manifest" /\ Goto("create")
  /\ UNCHANGED <<relation, handles, closing, faults>>

CreateFile ==
  /\ step = "create" /\ Goto("initialize")
  /\ file' = TRUE
  /\ UNCHANGED <<db, tx, committed, batch, handles, closing, faults>>

Initialize ==
  /\ step = "initialize" /\ Goto("begin")
  /\ db' = TRUE
  /\ UNCHANGED <<file, tx, committed, batch, handles, closing, faults>>

Begin ==
  /\ step = "begin" /\ Goto("chunks")
  /\ tx' = TRUE
  /\ UNCHANGED <<file, db, committed, batch, handles, closing, faults>>

Rows == committed \cup batch

RotateLate(row) ==
  IF Cardinality(batch) < BatchSize
  THEN batch' = batch \cup {row} /\ UNCHANGED committed
  ELSE batch' = {} /\ committed' = Rows \cup {row}

RotateDropping(row) ==
  IF Cardinality(batch \cup {row}) < BatchSize
  THEN batch' = batch \cup {row} /\ UNCHANGED committed
  ELSE batch' = {} /\ UNCHANGED committed

\* The row goes into the transaction, which is committed and reopened when full.
Rotate(row) ==
  IF Cardinality(batch \cup {row}) < BatchSize
  THEN batch' = batch \cup {row} /\ UNCHANGED committed
  ELSE batch' = {} /\ committed' = Rows \cup {row}

Flush == batch' = {} /\ committed' = Rows

ChunkRow(chunk) == [table |-> "chunk", row |-> chunk]
RepresentationRow(id) == [table |-> "representation", row |-> [id |-> id]]

StoredChunks == {r.row : r \in {r \in Rows : r.table = "chunk"}}

NewChunk(chunk) ==
  \A other \in StoredChunks :
    other.id # chunk.id /\ <<other.document, other.ordinal>> # <<chunk.document, chunk.ordinal>>

AddChunk ==
  /\ step = "chunks" /\ position <= Len(bundle.chunks)
  /\ LET chunk == bundle.chunks[position] IN
     IF chunk.valid /\ NewChunk(chunk)
     THEN /\ Rotate(ChunkRow(chunk))
          /\ position' = position + 1 /\ UNCHANGED <<bundle, step, cause>>
     ELSE Refuse("data") /\ UNCHANGED <<committed, batch>>
  /\ UNCHANGED <<file, db, tx, handles, closing, faults>>

Documents == {chunk.document : chunk \in StoredChunks}

FinishChunks ==
  /\ step = "chunks" /\ position > Len(bundle.chunks)
  /\ Flush
  /\ IF /\ Len(bundle.chunks) = manifest.chunkCount
        /\ Cardinality(Documents) <= manifest.documents
        /\ bundle.chunks = manifest.chunks
     THEN Goto("representations")
     ELSE Refuse("data")
  /\ UNCHANGED <<file, db, tx, handles, closing, faults>>

\* The parent is stored, and a raw representation has its text.
MatchesParent(r) ==
  \E chunk \in StoredChunks :
    chunk.id = r.chunk /\ (r.kind = "raw" => r.digest = chunk.digest)

AddRepresentation ==
  /\ step = "representations" /\ position <= Len(bundle.representations)
  /\ LET r == bundle.representations[position] IN
     IF RepresentationRow(r.id) \in Rows
     THEN Refuse("data") /\ UNCHANGED <<committed, batch>>
     ELSE /\ Rotate(RepresentationRow(r.id))
          /\ IF r.valid /\ MatchesParent(r)
             THEN position' = position + 1 /\ UNCHANGED <<bundle, step, cause>>
             ELSE Refuse("data")
  /\ UNCHANGED <<file, db, tx, handles, closing, faults>>

Kinds(representations) == {representations[n].kind : n \in DOMAIN representations}

\* The identity the manifest must have for what was read.
Identity == [chunks |-> bundle.chunks, representations |-> bundle.representations,
             kinds |-> Kinds(bundle.representations)]

FinishRepresentations ==
  /\ step = "representations" /\ position > Len(bundle.representations)
  /\ Flush /\ tx' = FALSE
  /\ IF /\ Len(bundle.representations) = manifest.representationCount
        /\ manifest.id = Identity /\ manifest.kinds = Kinds(bundle.representations)
        /\ manifest.vector => manifest.representations = bundle.representations
     THEN Goto("close")
     ELSE Refuse("data")
  /\ UNCHANGED <<file, db, handles, closing, faults>>

\* closeAndRemove; the file stays when it cannot be removed.
CloseAndRemove ==
  /\ tx' = FALSE /\ db' = FALSE /\ batch' = {} /\ committed' = {}
  /\ \/ file' = FALSE /\ UNCHANGED faults
     \/ file /\ faults < MaxFaults /\ faults' = faults + 1 /\ UNCHANGED file

CloseRelation ==
  /\ step = "close"
  /\ CloseAndRemove
  /\ IF file' THEN Refuse("fault") ELSE Goto("inspect")
  /\ UNCHANGED <<handles, closing>>

-----------------------------------------------------------------------------
(* The backends.                                                           *)

\* In the order in which they are verified and opened.
Backend == IF manifest.vector THEN <<"content", "lexical", "vector">>
                              ELSE <<"content", "lexical">>

\* Verify opens a backend for itself and closes it again.
OpenToInspect ==
  /\ step = "inspect" /\ position <= Len(Backend)
  /\ step' = "inspecting" /\ handles' = {Backend[position]}
  /\ UNCHANGED <<bundle, position, cause, relation, closing, faults>>

Inspect ==
  /\ step = "inspecting"
  /\ handles' = {}
  /\ IF Backend[position] \in bundle.sound
     THEN step' = "inspect" /\ position' = position + 1 /\ UNCHANGED <<bundle, cause>>
     ELSE Refuse("data")
  /\ UNCHANGED <<relation, closing, faults>>

\* The embedder has to match before anything is opened for serving.
CheckEmbedder ==
  /\ step = "inspect" /\ position > Len(Backend)
  /\ IF manifest.vector /\ ~bundle.embedder THEN Refuse("embedder") ELSE Goto("open")
  /\ UNCHANGED <<relation, handles, closing, faults>>

OpenBackend ==
  /\ step = "open" /\ position <= Len(Backend)
  /\ handles' = handles \cup {Backend[position]}
  /\ position' = position + 1
  /\ UNCHANGED <<bundle, step, cause, relation, closing, faults>>

Ready ==
  /\ step = "open" /\ position > Len(Backend)
  /\ Goto("returned")
  /\ UNCHANGED <<relation, handles, closing, faults>>

\* What an error in a step closes: Open everything that it has opened.
ClosedOnErrorExceptContent == IF step = "open" THEN handles \ {"content"} ELSE handles

ClosedOnError == handles

\* Any operation of a step fails or its context is cancelled.  A batch that cannot
\* be committed keeps its transaction, one that cannot be reopened has none.
Fail ==
  /\ step \notin {"cleanup", "returned"} /\ faults < MaxFaults
  /\ faults' = faults + 1
  /\ Refuse("fault")
  /\ tx' \in IF step \in {"chunks", "representations"} THEN {tx, FALSE} ELSE {tx}
  /\ handles' = handles \ ClosedOnError
  /\ UNCHANGED <<file, db, committed, batch, closing>>

\* The deferred closeAndRemove, whose error is dropped.
Cleanup ==
  /\ step = "cleanup"
  /\ CloseAndRemove
  /\ step' = "returned" /\ UNCHANGED <<bundle, position, cause, handles, closing>>

-----------------------------------------------------------------------------
(* Bundle.Close: the first caller closes, the others wait for it.          *)

CloseOrder == <<"lexical", "vector", "content">>

Close(c) ==
  /\ step = "returned" /\ cause = "none" /\ closers[c] = "idle"
  /\ closers' = [closers EXCEPT ![c] = "waiting"]
  /\ IF once = "new" THEN once' = "running" /\ failing' \in SUBSET handles
                     ELSE UNCHANGED <<once, failing>>
  /\ UNCHANGED <<bundle, step, position, cause, relation, handles, closeErr, faults>>

CloseHandle ==
  /\ once = "running" /\ position <= Len(CloseOrder)
  /\ LET h == CloseOrder[position] IN
     /\ handles' = handles \ {h}
     /\ closeErr' = IF closeErr = "none" /\ h \in failing THEN h ELSE closeErr
  /\ position' = position + 1
  /\ UNCHANGED <<bundle, step, cause, relation, once, failing, closers, faults>>

ClosedWithoutError ==
  /\ once = "running" /\ position > Len(CloseOrder) /\ closeErr = "none"
  /\ once' = "done"
  /\ UNCHANGED <<bundle, step, position, cause, relation, handles, failing, closeErr, closers, faults>>

Closed ==
  /\ once = "running" /\ position > Len(CloseOrder)
  /\ once' = "done"
  /\ UNCHANGED <<bundle, step, position, cause, relation, handles, failing, closeErr, closers, faults>>

MayReturnWhileRunning == once \in {"running", "done"}

MayReturn == once = "done"

Return(c) ==
  /\ closers[c] = "waiting" /\ MayReturn
  /\ closers' = [closers EXCEPT ![c] = closeErr]
  /\ UNCHANGED <<bundle, step, position, cause, relation, handles, once, failing, closeErr, faults>>

Next ==
  \/ LoadManifest \/ CreateFile \/ Initialize \/ Begin
  \/ AddChunk \/ FinishChunks \/ AddRepresentation \/ FinishRepresentations
  \/ CloseRelation \/ OpenToInspect \/ Inspect
  \/ CheckEmbedder \/ OpenBackend \/ Ready
  \/ Fail \/ Cleanup
  \/ CloseHandle \/ Closed
  \/ \E c \in Closers : Close(c) \/ Return(c)

\* A goroutine that is in Close runs on, and one that waits on sync.Once is woken.
Fairness == /\ WF_vars(CloseHandle) /\ WF_vars(Closed)
            /\ \A c \in Closers : WF_vars(Return(c))

Spec == Init /\ [][Next]_vars /\ Fairness

-----------------------------------------------------------------------------
(* Properties.                                                             *)

\* The reader that Build and LoadVerifiedDocuments use instead of the relation: it
\* has all chunks and representations in memory.
ValidStoredChunks ==
  LET c == bundle.chunks IN
  /\ \A n \in DOMAIN c :
       /\ c[n].valid
       /\ \A m \in 1 .. n - 1 :
            c[m].id # c[n].id /\ (c[m].document = c[n].document => c[m].ordinal # c[n].ordinal)
  /\ Cardinality({c[n].document : n \in DOMAIN c}) <= manifest.documents

ValidRepresentations ==
  LET r == bundle.representations  c == bundle.chunks IN
  \A n \in DOMAIN r :
    /\ r[n].valid /\ \A m \in 1 .. n - 1 : r[m].id # r[n].id
    /\ \E k \in DOMAIN c :
         c[k].id = r[n].chunk /\ (r[n].kind = "raw" => r[n].digest = c[k].digest)

LoadsVerifiedData ==
  /\ Len(bundle.chunks) = manifest.chunkCount /\ ValidStoredChunks
  /\ bundle.chunks = manifest.chunks
  /\ Len(bundle.representations) = manifest.representationCount /\ ValidRepresentations
  /\ manifest.id = Identity /\ manifest.kinds = Kinds(bundle.representations)
  /\ manifest.vector => manifest.representations = bundle.representations

Needed == {Backend[n] : n \in DOMAIN Backend}

\* The variables have their types; a transaction never holds a full batch, and
\* nothing is read from the relation without one.
TypeOK ==
  /\ step \in {"manifest", "create", "initialize", "begin", "chunks", "representations",
               "close", "inspect", "inspecting", "open", "cleanup", "returned"}
  /\ position \in Nat \ {0} /\ cause \in {"none", "data", "embedder", "fault"}
  /\ {file, db, tx} \subseteq BOOLEAN
  /\ Cardinality(batch) < BatchSize
  /\ step \in {"chunks", "representations"} => file /\ db /\ tx
  /\ handles \subseteq Backends /\ failing \subseteq Backends
  /\ once \in {"new", "running", "done"} /\ closeErr \in Backends \cup {"none"}
  /\ closers \in [Closers -> Backends \cup {"idle", "waiting", "none"}]
  /\ faults \in 0 .. MaxFaults

\* Verify, which streams rows through a relation that forgets what is not in its
\* rows, and the reader that has everything in memory accept the same bundles.
ReadersAgree ==
  /\ step \in {"close", "inspect", "inspecting", "open"} => LoadsVerifiedData
  /\ step = "returned" /\ cause = "none" => LoadsVerifiedData /\ Needed \subseteq bundle.sound
  /\ cause = "data" => ~(LoadsVerifiedData /\ Needed \subseteq bundle.sound)

\* However Open ends, the scratch database is closed, and removed unless a removal
\* failed, which a caller who gets a bundle need not fear; after an error nothing is
\* open, and Verify has one backend open at most.
NothingLeaks ==
  /\ step = "returned" => ~db /\ ~tx /\ (file => faults > 0 /\ cause # "none")
  /\ cause # "none" => handles = {}
  /\ step \in {"inspect", "inspecting"} => Cardinality(handles) <= 1 /\ ~file

\* Whoever returns from Close finds every backend closed, and the error is that of
\* the first backend that failed, whichever caller closed it.
ClosedForAll ==
  \A c \in Closers : closers[c] \notin {"idle", "waiting"} =>
    /\ handles = {}
    /\ IF failing = {} THEN closers[c] = "none"
       ELSE \E n \in DOMAIN CloseOrder :
              /\ closers[c] = CloseOrder[n] /\ CloseOrder[n] \in failing
              /\ \A m \in 1 .. n - 1 : CloseOrder[m] \notin failing

\* Every caller of Close returns, whatever the backends answer and whoever was first.
CloseReturns ==
  \A c \in Closers : closers[c] = "waiting" ~> closers[c] \notin {"idle", "waiting"}

=============================================================================
