---------------------------- MODULE OpeningProofs ----------------------------
(***************************************************************************)
(* Proofs about opening, reading and closing a bundle: for every stored    *)
(* bundle, batch size, request, number of goroutines and fault.            *)
(***************************************************************************)
EXTENDS Lookups, FiniteSetTheorems, TLAPS

\* The steps of Open that read the stored rows.
Reading ==
  {"manifest", "create", "initialize", "begin", "chunks", "representations", "close"}

\* The rows of the first n chunks and representations.
ChunkRows(n) == {ChunkRow(bundle.chunks[m]) : m \in 1 .. n}
RepresentationRows(n) == {RepresentationRow(bundle.representations[m].id) : m \in 1 .. n}

\* What the reader with everything in memory says of the first n of them.
ChunksValid(n) ==
  LET c == bundle.chunks IN
  \A k \in 1 .. n :
    /\ c[k].valid
    /\ \A m \in 1 .. k - 1 :
         c[m].id # c[k].id /\ (c[m].document = c[k].document => c[m].ordinal # c[k].ordinal)

RepresentationsValid(n) ==
  LET r == bundle.representations  c == bundle.chunks IN
  \A k \in 1 .. n :
    /\ r[k].valid /\ \A m \in 1 .. k - 1 : r[m].id # r[k].id
    /\ \E j \in DOMAIN c :
         c[j].id = r[k].chunk /\ (r[k].kind = "raw" => r[k].digest = c[j].digest)

\* The scratch file, its database and its transaction come and go with the steps.
ScratchInv ==
  /\ IsFiniteSet(batch)
  /\ step \in {"manifest", "create", "initialize", "begin"} => committed = {} /\ batch = {}
  /\ step \in {"initialize", "begin"} => file
  /\ step = "begin" => db
  /\ step \in {"inspect", "inspecting", "open"} => ~file /\ ~db /\ ~tx
  /\ step = "returned" => ~db /\ ~tx /\ (file => faults > 0 /\ cause # "none")

\* What has been read so far is in the relation, and was valid.
ReadInv ==
  /\ step = "chunks" =>
       /\ position <= Len(bundle.chunks) + 1
       /\ ChunksValid(position - 1) /\ Rows = ChunkRows(position - 1)
  /\ step = "representations" =>
       /\ position <= Len(bundle.representations) + 1
       /\ Len(bundle.chunks) = manifest.chunkCount /\ bundle.chunks = manifest.chunks
       /\ ValidStoredChunks /\ RepresentationsValid(position - 1)
       /\ Rows = ChunkRows(Len(bundle.chunks)) \cup RepresentationRows(position - 1)

\* The backends before the position have been inspected or opened.
BackendInv ==
  /\ step \in Reading \cup {"inspect"} => handles = {}
  /\ step = "inspecting" => handles = {Backend[position]} /\ position <= Len(Backend)
  /\ step \in {"inspect", "inspecting"} =>
       \A n \in DOMAIN Backend : n < position => Backend[n] \in bundle.sound
  /\ step = "open" =>
       /\ Needed \subseteq bundle.sound
       /\ \A n \in DOMAIN Backend : n < position => Backend[n] \in handles

\* Open fails for a cause, and has then closed what it opened.
CauseInv ==
  /\ step \notin {"cleanup", "returned"} => cause = "none"
  /\ step = "cleanup" => cause # "none"
  /\ cause # "none" => handles = {}

\* The error of the first of the backends before n that fails to close.
FirstFailing(n) ==
  IF \A m \in 1 .. n - 1 : CloseOrder[m] \notin failing THEN closeErr = "none"
  ELSE \E m \in 1 .. n - 1 :
         /\ closeErr = CloseOrder[m] /\ CloseOrder[m] \in failing
         /\ \A l \in 1 .. m - 1 : CloseOrder[l] \notin failing

\* Only an opened bundle is closed, once, and until then it has all its backends; who
\* runs Close has closed the backends before the position; who has returned has the
\* error it found.
CloseInv ==
  /\ once # "new" => step = "returned" /\ cause = "none"
  /\ once = "new" => closeErr = "none"
  /\ step = "returned" /\ cause = "none" /\ once = "new" =>
       position = 1 /\ Needed \subseteq handles
  /\ once = "running" =>
       /\ position <= 4 /\ FirstFailing(position)
       /\ \A m \in 1 .. position - 1 : CloseOrder[m] \notin handles
  /\ once = "done" => handles = {} /\ FirstFailing(4)
  /\ \A c \in Closers :
       /\ closers[c] # "idle" => once # "new"
       /\ closers[c] \notin {"idle", "waiting"} => once = "done" /\ closers[c] = closeErr

\* The inductive invariant of opening and closing a bundle.
OpenInv ==
  /\ bundle \in Bundles /\ TypeOK /\ ScratchInv /\ ReadInv /\ BackendInv /\ CauseInv
  /\ ReadersAgree /\ CloseInv

\* The request of a reader and what it has of it.
Reader == [state : {"idle", "loading", "querying", "ok", "error", "panic"},
           asked : Seq(STRING), got : Seq(Chunk), upto : Nat, late : BOOLEAN]

\* Somebody reads a bundle that is open or was, what it has is the beginning of what
\* it asked for, and an error or a panic has its reason.
ReaderOf(reader) ==
  /\ reader.state # "idle" => step = "returned" /\ cause = "none"
  /\ reader.state \in {"loading", "querying", "ok"} => ~Malformed(reader.asked)
  /\ Len(reader.got) <= Len(reader.asked)
  /\ \A n \in DOMAIN reader.got : reader.got[n].id = reader.asked[n]
  /\ reader.state = "querying" =>
       Len(reader.got) <= reader.upto /\ reader.upto <= Len(reader.asked)
  /\ reader.state = "ok" => Len(reader.got) = Len(reader.asked)
  /\ reader.state = "error" =>
       \/ Malformed(reader.asked) \/ faults > 0 \/ once # "new"
       \/ \E n \in DOMAIN reader.asked : Found(reader.asked[n]) = {}
  /\ reader.state = "panic" => once # "new"
  /\ reader.late => once = "done" /\ reader.got = <<>>

\* All readers, and with them the invariant of reading while others close.
ReadersInv == readers \in [Readers -> Reader] /\ \A r \in Readers : ReaderOf(readers[r])

LookupInv == OpenInv /\ ReadersInv

-----------------------------------------------------------------------------

\* What the bundle says does not change while it is opened.
LEMMA BundleStands ==
  ASSUME bundle' = bundle
  PROVE  /\ (LoadsVerifiedData' <=> LoadsVerifiedData)
         /\ (ValidStoredChunks' <=> ValidStoredChunks)
         /\ Needed' = Needed /\ Backend' = Backend /\ manifest' = manifest
         /\ Identity' = Identity
         /\ \A n : /\ ChunkRows(n)' = ChunkRows(n)
                   /\ RepresentationRows(n)' = RepresentationRows(n)
                   /\ (ChunksValid(n)' <=> ChunksValid(n))
                   /\ (RepresentationsValid(n)' <=> RepresentationsValid(n))
<1>1. manifest' = manifest  BY DEF manifest
<1>2. Backend' = Backend  BY <1>1 DEF Backend
<1>3. Needed' = Needed  BY <1>2 DEF Needed
<1>4. ValidStoredChunks' <=> ValidStoredChunks  BY <1>1 DEF ValidStoredChunks
<1>5. Identity' = Identity  BY DEF Identity, Kinds
<1>6. ValidRepresentations' <=> ValidRepresentations  BY DEF ValidRepresentations
<1>7. LoadsVerifiedData' <=> LoadsVerifiedData
  BY <1>1, <1>4, <1>5, <1>6 DEF LoadsVerifiedData, Kinds
<1>8. \A n : /\ ChunkRows(n)' = ChunkRows(n)
             /\ RepresentationRows(n)' = RepresentationRows(n)
  BY DEF ChunkRows, RepresentationRows, ChunkRow, RepresentationRow
<1>9. \A n : (ChunksValid(n)' <=> ChunksValid(n))  BY DEF ChunksValid
<1>10. \A n : (RepresentationsValid(n)' <=> RepresentationsValid(n))
  BY DEF RepresentationsValid
<1>11. QED  BY <1>1, <1>2, <1>3, <1>4, <1>5, <1>7, <1>8, <1>9, <1>10

\* What is stored of a bundle is sequences.
LEMMA BundleTyped ==
  ASSUME bundle \in Bundles
  PROVE  /\ bundle.chunks \in Seq(Chunk)
         /\ bundle.representations \in Seq(Representation)
         /\ manifest.documents \in Nat
BY BundlesAssumption DEF Bundle, manifest

\* A bundle has two or three backends.
LEMMA BackendsAre ==
  /\ Len(Backend) \in {2, 3} /\ DOMAIN Backend = 1 .. Len(Backend)
  /\ \A n \in DOMAIN Backend : Backend[n] \in Backends /\ Backend[n] \in Needed
  /\ \A b \in Needed : \E n \in DOMAIN Backend : b = Backend[n]
<1>1. CASE manifest.vector
  <2>1. Backend = <<"content", "lexical", "vector">>  BY <1>1 DEF Backend
  <2>2. Len(Backend) = 3 /\ DOMAIN Backend = 1 .. 3  BY <2>1
  <2>3. \A n \in DOMAIN Backend : Backend[n] \in Backends  BY <2>1, <2>2 DEF Backends
  <2>4. QED  BY <2>2, <2>3 DEF Needed
<1>2. CASE ~manifest.vector
  <2>1. Backend = <<"content", "lexical">>  BY <1>2 DEF Backend
  <2>2. Len(Backend) = 2 /\ DOMAIN Backend = 1 .. 2  BY <2>1
  <2>3. \A n \in DOMAIN Backend : Backend[n] \in Backends  BY <2>1, <2>2 DEF Backends
  <2>4. QED  BY <2>2, <2>3 DEF Needed
<1>3. QED  BY <1>1, <1>2

\* However the rows are batched, a row that is put into the relation is in it and the
\* transaction holds less than a batch.
LEMMA RotateAdds ==
  ASSUME NEW row, IsFiniteSet(batch), Rotate(row)
  PROVE  /\ Rows' = Rows \cup {row}
         /\ IsFiniteSet(batch') /\ Cardinality(batch') < BatchSize
<1>1. Rows' = Rows \cup {row}  BY DEF Rotate, Rows
<1>2. IsFiniteSet(batch \cup {row})  BY FS_AddElement
<1>3. QED  BY <1>1, <1>2, FS_EmptySet, BatchSizeAssumption DEF Rotate

\* A flush commits the rows of the transaction.
LEMMA FlushKeepsRows ==
  ASSUME Flush
  PROVE  Rows' = Rows /\ IsFiniteSet(batch') /\ Cardinality(batch') < BatchSize
BY FS_EmptySet, BatchSizeAssumption DEF Flush, Rows

\* The chunks of the relation are those that have been read.
LEMMA StoredAreRead ==
  ASSUME NEW n \in Nat, NEW k \in Nat, Rows = ChunkRows(n) \cup RepresentationRows(k)
  PROVE  StoredChunks = {bundle.chunks[m] : m \in 1 .. n}
<1>1. \A m \in 1 .. n : ChunkRow(bundle.chunks[m]) \in Rows  BY DEF ChunkRows
<1>2. \A r \in Rows : r.table = "chunk" => \E m \in 1 .. n : r.row = bundle.chunks[m]
  BY DEF ChunkRows, RepresentationRows, ChunkRow, RepresentationRow
<1>3. \A m \in 1 .. n : bundle.chunks[m] \in StoredChunks
  <2> TAKE m \in 1 .. n
  <2>1. /\ ChunkRow(bundle.chunks[m]).table = "chunk"
        /\ ChunkRow(bundle.chunks[m]).row = bundle.chunks[m]
    BY DEF ChunkRow
  <2>2. QED  BY <1>1, <2>1 DEF StoredChunks
<1>4. \A c \in StoredChunks : \E m \in 1 .. n : c = bundle.chunks[m]
  BY <1>2 DEF StoredChunks
<1>5. QED  BY <1>3, <1>4

\* No chunk has been read.
LEMMA NoChunks == ChunkRows(0) = {} /\ ChunksValid(0)
BY DEF ChunkRows, ChunksValid

\* No representation has been read.
LEMMA NoRepresentations == RepresentationRows(0) = {} /\ RepresentationsValid(0)
BY DEF RepresentationRows, RepresentationsValid

-----------------------------------------------------------------------------
(* Each step of opening and closing keeps the invariant.                   *)

\* The manifest is loaded.
LEMMA LoadManifestKeeps ==
  ASSUME OpenInv, LoadManifest PROVE OpenInv'
<1> USE BatchSizeAssumption, MaxFaultsAssumption
    DEF OpenInv, LoadManifest, Goto, Refuse, relation, closing
<1>0. bundle' = bundle  OBVIOUS
<1> USE <1>0, BundleStands
<1>1. TypeOK'
  BY DEF TypeOK, ScratchInv, CauseInv
<1>2. ScratchInv'
  BY DEF ScratchInv, CauseInv, TypeOK
<1>3. ReadInv'
  BY DEF ReadInv
<1>4. BackendInv'
  BY DEF BackendInv, Reading
<1>5. CauseInv'
  BY DEF CauseInv, BackendInv, Reading
<1>6. ReadersAgree'
  BY DEF ReadersAgree, CauseInv
<1>7. CloseInv'
  BY DEF CloseInv, CauseInv
<1>8. QED  BY <1>1, <1>2, <1>3, <1>4, <1>5, <1>6, <1>7

\* The scratch file is created.
LEMMA CreateFileKeeps ==
  ASSUME OpenInv, CreateFile PROVE OpenInv'
<1> USE BatchSizeAssumption, MaxFaultsAssumption
    DEF OpenInv, CreateFile, Goto, Refuse, relation, closing
<1>0. bundle' = bundle  OBVIOUS
<1> USE <1>0, BundleStands
<1>1. TypeOK'
  BY DEF TypeOK, ScratchInv, CauseInv
<1>2. ScratchInv'
  BY DEF ScratchInv, CauseInv, TypeOK
<1>3. ReadInv'
  BY DEF ReadInv
<1>4. BackendInv'
  BY DEF BackendInv, Reading
<1>5. CauseInv'
  BY DEF CauseInv, BackendInv, Reading
<1>6. ReadersAgree'
  BY DEF ReadersAgree, CauseInv
<1>7. CloseInv'
  BY DEF CloseInv, CauseInv
<1>8. QED  BY <1>1, <1>2, <1>3, <1>4, <1>5, <1>6, <1>7

\* Its database is opened.
LEMMA InitializeKeeps ==
  ASSUME OpenInv, Initialize PROVE OpenInv'
<1> USE BatchSizeAssumption, MaxFaultsAssumption
    DEF OpenInv, Initialize, Goto, Refuse, relation, closing
<1>0. bundle' = bundle  OBVIOUS
<1> USE <1>0, BundleStands
<1>1. TypeOK'
  BY DEF TypeOK, ScratchInv, CauseInv
<1>2. ScratchInv'
  BY DEF ScratchInv, CauseInv, TypeOK
<1>3. ReadInv'
  BY DEF ReadInv
<1>4. BackendInv'
  BY DEF BackendInv, Reading
<1>5. CauseInv'
  BY DEF CauseInv, BackendInv, Reading
<1>6. ReadersAgree'
  BY DEF ReadersAgree, CauseInv
<1>7. CloseInv'
  BY DEF CloseInv, CauseInv
<1>8. QED  BY <1>1, <1>2, <1>3, <1>4, <1>5, <1>6, <1>7

\* The first transaction begins.
LEMMA BeginKeeps ==
  ASSUME OpenInv, Begin PROVE OpenInv'
<1> USE BatchSizeAssumption, MaxFaultsAssumption
    DEF OpenInv, Begin, Goto, Refuse, relation, closing
<1>0. bundle' = bundle  OBVIOUS
<1> USE <1>0, BundleStands
<1>1. TypeOK'
  BY DEF TypeOK, ScratchInv, CauseInv
<1>2. ScratchInv'
  BY DEF ScratchInv, CauseInv, TypeOK
<1>3. ReadInv'
  BY NoChunks, NoRepresentations DEF ReadInv, ScratchInv, Rows
<1>4. BackendInv'
  BY DEF BackendInv, Reading
<1>5. CauseInv'
  BY DEF CauseInv, BackendInv, Reading
<1>6. ReadersAgree'
  BY DEF ReadersAgree, CauseInv
<1>7. CloseInv'
  BY DEF CloseInv, CauseInv
<1>8. QED  BY <1>1, <1>2, <1>3, <1>4, <1>5, <1>6, <1>7

\* A chunk is read: it goes into the relation, or the bundle is refused.
LEMMA AddChunkKeeps ==
  ASSUME OpenInv, AddChunk PROVE OpenInv'
<1> USE BatchSizeAssumption, MaxFaultsAssumption
    DEF OpenInv, AddChunk, Goto, Refuse, relation, closing
<1>0. bundle' = bundle  OBVIOUS
<1> USE <1>0, BundleStands
<1> DEFINE chunk == bundle.chunks[position]
<1>a. /\ bundle.chunks \in Seq(Chunk) /\ position \in 1 .. Len(bundle.chunks)
      /\ StoredChunks = {bundle.chunks[m] : m \in 1 .. position - 1}
  <2>1. position - 1 \in Nat /\ Rows = ChunkRows(position - 1) \cup RepresentationRows(0)
    BY NoRepresentations DEF ReadInv, TypeOK
  <2>2. QED  BY <2>1, StoredAreRead, BundleTyped DEF TypeOK
<1>b. CASE chunk.valid /\ NewChunk(chunk)
  <2>1. /\ Rotate(ChunkRow(chunk)) /\ position' = position + 1
        /\ UNCHANGED <<step, cause, file, db, tx, handles, closing, faults>>
    BY <1>b
  <2>2. /\ Rows' = Rows \cup {ChunkRow(chunk)}
        /\ IsFiniteSet(batch') /\ Cardinality(batch') < BatchSize
    BY <2>1, RotateAdds DEF ScratchInv
  <2>3. TypeOK'  BY <2>1, <2>2 DEF TypeOK
  <2>4. ScratchInv'  BY <2>1, <2>2 DEF ScratchInv
  <2>5. ChunksValid(position)
    <3>1. \A m \in 1 .. position - 1 : bundle.chunks[m] \in StoredChunks  BY <1>a
    <3>2. \A m \in 1 .. position - 1 :
             /\ bundle.chunks[m].id # chunk.id
             /\ bundle.chunks[m].document = chunk.document
                  => bundle.chunks[m].ordinal # chunk.ordinal
      BY <3>1, <1>b DEF NewChunk
    <3>3. ChunksValid(position - 1)  BY DEF ReadInv
    <3>4. \A k \in 1 .. position : k = position \/ k \in 1 .. position - 1  BY <1>a
    <3>5. QED  BY <3>2, <3>3, <3>4, <1>b DEF ChunksValid
  <2>6. Rows' = ChunkRows(position)
    <3>1. Rows = ChunkRows(position - 1)  BY DEF ReadInv
    <3>2. 1 .. position = (1 .. position - 1) \cup {position}  BY <1>a
    <3>3. ChunkRows(position) = ChunkRows(position - 1) \cup {ChunkRow(chunk)}
      BY <3>2 DEF ChunkRows
    <3>4. QED  BY <3>1, <3>3, <2>2
  <2>7. ReadInv'
    <3>1. position' - 1 = position  BY <2>1, <1>a
    <3>2. QED  BY <3>1, <2>1, <2>5, <2>6, <1>a DEF ReadInv
  <2>8. QED  BY <2>1, <2>3, <2>4, <2>7 DEF BackendInv, CauseInv, ReadersAgree, CloseInv
<1>c. CASE ~(chunk.valid /\ NewChunk(chunk))
  <2>1. /\ step' = "cleanup" /\ cause' = "data"
        /\ UNCHANGED <<position, committed, batch, file, db, tx, handles, closing, faults>>
    BY <1>c
  <2>2. ~ValidStoredChunks
    <3>1. SUFFICES ASSUME ValidStoredChunks, NEW other \in StoredChunks,
                          chunk.valid,
                          \/ other.id = chunk.id
                          \/ <<other.document, other.ordinal>>
                               = <<chunk.document, chunk.ordinal>>
                   PROVE  FALSE
      BY <1>a, <1>c DEF NewChunk, ValidStoredChunks
    <3>2. PICK m \in 1 .. position - 1 : other = bundle.chunks[m]  BY <1>a
    <3>3. position \in DOMAIN bundle.chunks  BY <1>a
    <3>4. /\ other.id # chunk.id
          /\ other.document = chunk.document => other.ordinal # chunk.ordinal
      BY <3>2, <3>3, <3>1 DEF ValidStoredChunks
    <3>5. QED  BY <3>1, <3>4
  <2>3. ~LoadsVerifiedData  BY <2>2 DEF LoadsVerifiedData
  <2>4. TypeOK'  BY <2>1 DEF TypeOK
  <2>5. ReadersAgree'  BY <2>1, <2>3 DEF ReadersAgree
  <2>6. QED
    BY <2>1, <2>4, <2>5 DEF ScratchInv, ReadInv, BackendInv, Reading, CauseInv, CloseInv
<1>1. QED  BY <1>b, <1>c

\* The chunks are complete.
LEMMA FinishChunksKeeps ==
  ASSUME OpenInv, FinishChunks PROVE OpenInv'
<1> USE BatchSizeAssumption, MaxFaultsAssumption
    DEF OpenInv, FinishChunks, Goto, Refuse, relation, closing
<1>0. bundle' = bundle  OBVIOUS
<1> USE <1>0, BundleStands
<1> DEFINE Agreed == /\ Len(bundle.chunks) = manifest.chunkCount
                     /\ Cardinality(Documents) <= manifest.documents
                     /\ bundle.chunks = manifest.chunks
<1>a. /\ bundle.chunks \in Seq(Chunk) /\ position = Len(bundle.chunks) + 1
      /\ Len(bundle.chunks) \in Nat /\ Rows = ChunkRows(Len(bundle.chunks))
      /\ ChunksValid(Len(bundle.chunks))
  <2>1. /\ bundle.chunks \in Seq(Chunk) /\ position = Len(bundle.chunks) + 1
        /\ Len(bundle.chunks) \in Nat /\ Rows = ChunkRows(position - 1)
        /\ ChunksValid(position - 1)
    BY BundleTyped DEF ReadInv, TypeOK
  <2>2. position - 1 = Len(bundle.chunks)  BY <2>1
  <2>3. QED  BY <2>1, <2>2
<1>b. Documents = {bundle.chunks[n].document : n \in DOMAIN bundle.chunks}
  <2>1. StoredChunks = {bundle.chunks[m] : m \in 1 .. Len(bundle.chunks)}
    BY <1>a, StoredAreRead, NoRepresentations
  <2>2. QED  BY <1>a, <2>1 DEF Documents
<1>c. ValidStoredChunks <=> Cardinality(Documents) <= manifest.documents
  <2>1. DOMAIN bundle.chunks = 1 .. Len(bundle.chunks)  BY <1>a
  <2>2. \A n \in DOMAIN bundle.chunks :
           /\ bundle.chunks[n].valid
           /\ \A m \in 1 .. n - 1 :
                /\ bundle.chunks[m].id # bundle.chunks[n].id
                /\ bundle.chunks[m].document = bundle.chunks[n].document
                     => bundle.chunks[m].ordinal # bundle.chunks[n].ordinal
    BY <1>a, <2>1 DEF ChunksValid
  <2>3. QED  BY <1>b, <2>2 DEF ValidStoredChunks
<1>d. /\ Rows' = Rows /\ IsFiniteSet(batch') /\ Cardinality(batch') < BatchSize
      /\ UNCHANGED <<file, db, tx, handles, closing, faults>>
  BY FlushKeepsRows
<1>e. CASE Agreed
  <2>1. step' = "representations" /\ position' = 1 /\ UNCHANGED cause  BY <1>e
  <2>2. TypeOK'  BY <1>d, <2>1 DEF TypeOK
  <2>3. ScratchInv'  BY <1>d, <2>1 DEF ScratchInv
  <2>4. ReadInv'
    <3>1. Rows' = ChunkRows(Len(bundle.chunks)) \cup RepresentationRows(0)
      BY <1>a, <1>d, NoRepresentations
    <3>2. position' - 1 = 0 /\ position' <= Len(bundle.representations) + 1
      BY <2>1, BundleTyped
    <3>3. QED
      BY <3>1, <3>2, <2>1, <1>c, <1>e, NoRepresentations DEF ReadInv
  <2>5. QED
    BY <1>d, <2>1, <2>2, <2>3, <2>4
    DEF BackendInv, Reading, CauseInv, ReadersAgree, CloseInv
<1>f. CASE ~Agreed
  <2>1. step' = "cleanup" /\ cause' = "data" /\ UNCHANGED position  BY <1>f
  <2>2. ~LoadsVerifiedData  BY <1>c, <1>f DEF LoadsVerifiedData
  <2>3. TypeOK'  BY <1>d, <2>1 DEF TypeOK
  <2>4. ReadersAgree'  BY <2>1, <2>2 DEF ReadersAgree
  <2>5. QED
    BY <1>d, <2>1, <2>3, <2>4
    DEF ScratchInv, ReadInv, BackendInv, Reading, CauseInv, CloseInv
<1>1. QED  BY <1>e, <1>f

\* A representation is read: its row goes into the relation, and the bundle is
\* refused unless it is new and agrees with its parent.
LEMMA AddRepresentationKeeps ==
  ASSUME OpenInv, AddRepresentation PROVE OpenInv'
<1> USE BatchSizeAssumption, MaxFaultsAssumption
    DEF OpenInv, AddRepresentation, Goto, Refuse, relation, closing
<1>0. bundle' = bundle  OBVIOUS
<1> USE <1>0, BundleStands
<1> DEFINE r == bundle.representations[position]
           row == RepresentationRow(r.id)
<1>a. /\ bundle.chunks \in Seq(Chunk)
      /\ bundle.representations \in Seq(Representation)
      /\ position \in 1 .. Len(bundle.representations)
  BY BundleTyped DEF TypeOK
<1>b. StoredChunks = {bundle.chunks[m] : m \in DOMAIN bundle.chunks}
  <2>1. /\ Rows = ChunkRows(Len(bundle.chunks)) \cup RepresentationRows(position - 1)
        /\ Len(bundle.chunks) \in Nat /\ position - 1 \in Nat
    BY <1>a DEF ReadInv
  <2>2. QED  BY <2>1, <1>a, StoredAreRead
<1>c. MatchesParent(r) <=> \E k \in DOMAIN bundle.chunks :
         /\ bundle.chunks[k].id = r.chunk
         /\ r.kind = "raw" => r.digest = bundle.chunks[k].digest
  BY <1>b DEF MatchesParent
<1>d. row \in Rows <=> \E m \in 1 .. position - 1 : bundle.representations[m].id = r.id
  <2>1. row \in Rows <=> row \in RepresentationRows(position - 1)
    BY DEF ReadInv, ChunkRows, ChunkRow, RepresentationRow
  <2>2. QED  BY <2>1 DEF RepresentationRows, RepresentationRow
<1>e. (row \in Rows \/ ~r.valid \/ ~MatchesParent(r)) => ~LoadsVerifiedData
  BY <1>a, <1>c, <1>d DEF LoadsVerifiedData, ValidRepresentations
<1>f. CASE row \notin Rows /\ r.valid /\ MatchesParent(r)
  <2>1. /\ Rotate(row) /\ position' = position + 1
        /\ UNCHANGED <<step, cause, file, db, tx, handles, closing, faults>>
    BY <1>f
  <2>2. /\ Rows' = Rows \cup {row}
        /\ IsFiniteSet(batch') /\ Cardinality(batch') < BatchSize
    BY <2>1, RotateAdds DEF ScratchInv
  <2>3. TypeOK'  BY <2>1, <2>2 DEF TypeOK
  <2>4. ScratchInv'  BY <2>1, <2>2 DEF ScratchInv
  <2>5. RepresentationsValid(position)
    <3>1. \A m \in 1 .. position - 1 : bundle.representations[m].id # r.id
      BY <1>d, <1>f
    <3>2. RepresentationsValid(position - 1)  BY DEF ReadInv
    <3>3. \A k \in 1 .. position : k = position \/ k \in 1 .. position - 1  BY <1>a
    <3>4. QED  BY <3>1, <3>2, <3>3, <1>c, <1>f DEF RepresentationsValid
  <2>6. Rows' = ChunkRows(Len(bundle.chunks)) \cup RepresentationRows(position)
    <3>1. Rows = ChunkRows(Len(bundle.chunks)) \cup RepresentationRows(position - 1)
      BY DEF ReadInv
    <3>2. 1 .. position = (1 .. position - 1) \cup {position}  BY <1>a
    <3>3. RepresentationRows(position) = RepresentationRows(position - 1) \cup {row}
      BY <3>2 DEF RepresentationRows
    <3>4. QED  BY <3>1, <3>3, <2>2
  <2>7. ReadInv'
    <3>1. position' - 1 = position  BY <2>1, <1>a
    <3>2. QED  BY <3>1, <2>1, <2>5, <2>6, <1>a DEF ReadInv
  <2>8. QED  BY <2>1, <2>3, <2>4, <2>7 DEF BackendInv, CauseInv, ReadersAgree, CloseInv
<1>g. CASE row \in Rows \/ ~r.valid \/ ~MatchesParent(r)
  <2>1. /\ step' = "cleanup" /\ cause' = "data"
        /\ UNCHANGED <<position, file, db, tx, handles, closing, faults>>
        /\ Rotate(row) \/ UNCHANGED <<committed, batch>>
    BY <1>g
  <2>2. IsFiniteSet(batch') /\ Cardinality(batch') < BatchSize
    BY <2>1, RotateAdds DEF ScratchInv, TypeOK
  <2>3. TypeOK'  BY <2>1, <2>2 DEF TypeOK
  <2>4. ReadersAgree'  BY <2>1, <1>e, <1>g DEF ReadersAgree
  <2>5. QED
    BY <2>1, <2>2, <2>3, <2>4
    DEF ScratchInv, ReadInv, BackendInv, Reading, CauseInv, CloseInv
<1>1. QED  BY <1>f, <1>g

\* The representations are complete: what was read is what the other reader loads.
LEMMA FinishRepresentationsKeeps ==
  ASSUME OpenInv, FinishRepresentations PROVE OpenInv'
<1> USE BatchSizeAssumption, MaxFaultsAssumption
    DEF OpenInv, FinishRepresentations, Goto, Refuse, relation, closing
<1>0. bundle' = bundle  OBVIOUS
<1> USE <1>0, BundleStands
<1> DEFINE Agreed ==
      /\ Len(bundle.representations) = manifest.representationCount
      /\ manifest.id = Identity /\ manifest.kinds = Kinds(bundle.representations)
      /\ manifest.vector => manifest.representations = bundle.representations
<1>a. ValidRepresentations
  <2>1. /\ bundle.representations \in Seq(Representation)
        /\ position = Len(bundle.representations) + 1
        /\ RepresentationsValid(position - 1)
    BY BundleTyped DEF ReadInv, TypeOK
  <2>2. DOMAIN bundle.representations = 1 .. position - 1  BY <2>1
  <2>3. QED  BY <2>1, <2>2 DEF ValidRepresentations, RepresentationsValid
<1>b. LoadsVerifiedData <=> Agreed  BY <1>a DEF LoadsVerifiedData, ReadInv
<1>c. /\ IsFiniteSet(batch') /\ Cardinality(batch') < BatchSize
      /\ tx' = FALSE /\ UNCHANGED <<file, db, handles, closing, faults>>
  BY FlushKeepsRows
<1>d. CASE Agreed
  <2>1. step' = "close" /\ position' = 1 /\ UNCHANGED cause  BY <1>d
  <2>2. TypeOK'
    <3>1. {file', db', tx'} \subseteq BOOLEAN  BY <1>c DEF TypeOK
    <3>2. QED  BY <1>c, <2>1, <3>1 DEF TypeOK
  <2>3. ReadersAgree'  BY <1>b, <1>d, <2>1 DEF ReadersAgree, CauseInv
  <2>4. QED
    BY <1>c, <2>1, <2>2, <2>3
    DEF ScratchInv, ReadInv, BackendInv, Reading, CauseInv, CloseInv
<1>e. CASE ~Agreed
  <2>1. step' = "cleanup" /\ cause' = "data" /\ UNCHANGED position  BY <1>e
  <2>2. TypeOK'
    <3>1. {file', db', tx'} \subseteq BOOLEAN  BY <1>c DEF TypeOK
    <3>2. QED  BY <1>c, <2>1, <3>1 DEF TypeOK
  <2>3. ReadersAgree'  BY <1>b, <1>e, <2>1 DEF ReadersAgree
  <2>4. QED
    BY <1>c, <2>1, <2>2, <2>3
    DEF ScratchInv, ReadInv, BackendInv, Reading, CauseInv, CloseInv
<1>1. QED  BY <1>d, <1>e

\* The relation is closed and removed.
LEMMA CloseRelationKeeps ==
  ASSUME OpenInv, CloseRelation PROVE OpenInv'
<1> USE BatchSizeAssumption, MaxFaultsAssumption
    DEF OpenInv, CloseRelation, Goto, Refuse, relation, closing, CloseAndRemove
<1>0. bundle' = bundle  OBVIOUS
<1> USE <1>0, BundleStands
<1>1. TypeOK'
  <2>1. {file', db', tx'} \subseteq BOOLEAN  BY DEF TypeOK
  <2>2. /\ step' \in {"cleanup", "inspect"} /\ position' \in Nat \ {0}
        /\ cause' \in {"none", "data", "embedder", "fault"}
    BY DEF TypeOK
  <2>3. faults' \in 0 .. MaxFaults /\ Cardinality(batch') < BatchSize
    BY FS_EmptySet DEF TypeOK
  <2>4. QED  BY <2>1, <2>2, <2>3 DEF TypeOK
<1>2. ScratchInv'
  BY FS_EmptySet DEF ScratchInv, CloseAndRemove, CauseInv, TypeOK
<1>3. ReadInv'
  BY DEF ReadInv
<1>4. BackendInv'
  BY DEF BackendInv, Reading
<1>5. CauseInv'
  BY DEF CauseInv, BackendInv, Reading
<1>6. ReadersAgree'
  BY DEF ReadersAgree, CauseInv
<1>7. CloseInv'
  BY DEF CloseInv, CauseInv
<1>8. QED  BY <1>1, <1>2, <1>3, <1>4, <1>5, <1>6, <1>7

\* Verify opens a backend.
LEMMA OpenToInspectKeeps ==
  ASSUME OpenInv, OpenToInspect PROVE OpenInv'
<1> USE BatchSizeAssumption, MaxFaultsAssumption
    DEF OpenInv, OpenToInspect, Goto, Refuse, relation, closing
<1>0. bundle' = bundle  OBVIOUS
<1> USE <1>0, BundleStands
<1>1. TypeOK'
  BY BackendsAre DEF TypeOK
<1>2. ScratchInv'
  BY DEF ScratchInv, CauseInv, TypeOK
<1>3. ReadInv'
  BY DEF ReadInv
<1>4. BackendInv'
  BY DEF BackendInv, Reading
<1>5. CauseInv'
  BY DEF CauseInv, BackendInv, Reading
<1>6. ReadersAgree'
  BY DEF ReadersAgree, CauseInv
<1>7. CloseInv'
  BY DEF CloseInv, CauseInv
<1>8. QED  BY <1>1, <1>2, <1>3, <1>4, <1>5, <1>6, <1>7

\* Verify inspects the backend and closes it.
LEMMA InspectKeeps ==
  ASSUME OpenInv, Inspect PROVE OpenInv'
<1> USE BatchSizeAssumption, MaxFaultsAssumption
    DEF OpenInv, Inspect, Goto, Refuse, relation, closing
<1>0. bundle' = bundle  OBVIOUS
<1> USE <1>0, BundleStands
<1>1. TypeOK'
  BY DEF TypeOK, ScratchInv, CauseInv
<1>2. ScratchInv'
  BY DEF ScratchInv, CauseInv, TypeOK
<1>3. ReadInv'
  BY DEF ReadInv
<1>4. BackendInv'
  BY BackendsAre DEF BackendInv, Reading, TypeOK
<1>5. CauseInv'
  BY DEF CauseInv, BackendInv, Reading
<1>6. ReadersAgree'
  BY BackendsAre DEF ReadersAgree, CauseInv, BackendInv, TypeOK
<1>7. CloseInv'
  BY DEF CloseInv, CauseInv
<1>8. QED  BY <1>1, <1>2, <1>3, <1>4, <1>5, <1>6, <1>7

\* The embedder is compared.
LEMMA CheckEmbedderKeeps ==
  ASSUME OpenInv, CheckEmbedder PROVE OpenInv'
<1> USE BatchSizeAssumption, MaxFaultsAssumption
    DEF OpenInv, CheckEmbedder, Goto, Refuse, relation, closing
<1>0. bundle' = bundle  OBVIOUS
<1> USE <1>0, BundleStands
<1>1. TypeOK'
  BY DEF TypeOK, ScratchInv, CauseInv
<1>2. ScratchInv'
  BY DEF ScratchInv, CauseInv, TypeOK
<1>3. ReadInv'
  BY DEF ReadInv
<1>4. BackendInv'
  BY BackendsAre DEF BackendInv, Reading, TypeOK
<1>5. CauseInv'
  BY DEF CauseInv, BackendInv, Reading
<1>6. ReadersAgree'
  BY DEF ReadersAgree, CauseInv
<1>7. CloseInv'
  BY DEF CloseInv, CauseInv
<1>8. QED  BY <1>1, <1>2, <1>3, <1>4, <1>5, <1>6, <1>7

\* A backend is opened for serving.
LEMMA OpenBackendKeeps ==
  ASSUME OpenInv, OpenBackend PROVE OpenInv'
<1> USE BatchSizeAssumption, MaxFaultsAssumption
    DEF OpenInv, OpenBackend, Goto, Refuse, relation, closing
<1>0. bundle' = bundle  OBVIOUS
<1> USE <1>0, BundleStands
<1>1. TypeOK'
  BY BackendsAre DEF TypeOK
<1>2. ScratchInv'
  BY DEF ScratchInv, CauseInv, TypeOK
<1>3. ReadInv'
  BY DEF ReadInv
<1>4. BackendInv'
  BY BackendsAre DEF BackendInv, Reading, TypeOK
<1>5. CauseInv'
  BY DEF CauseInv, BackendInv, Reading
<1>6. ReadersAgree'
  BY DEF ReadersAgree, CauseInv
<1>7. CloseInv'
  BY DEF CloseInv, CauseInv
<1>8. QED  BY <1>1, <1>2, <1>3, <1>4, <1>5, <1>6, <1>7

\* All backends are open.
LEMMA ReadyKeeps ==
  ASSUME OpenInv, Ready PROVE OpenInv'
<1> USE BatchSizeAssumption, MaxFaultsAssumption
    DEF OpenInv, Ready, Goto, Refuse, relation, closing
<1>0. bundle' = bundle  OBVIOUS
<1> USE <1>0, BundleStands
<1>1. TypeOK'
  BY DEF TypeOK, ScratchInv, CauseInv
<1>2. ScratchInv'
  BY DEF ScratchInv, CauseInv, TypeOK
<1>3. ReadInv'
  BY DEF ReadInv
<1>4. BackendInv'
  BY DEF BackendInv, Reading
<1>5. CauseInv'
  BY DEF CauseInv, BackendInv, Reading
<1>6. ReadersAgree'
  BY DEF ReadersAgree, CauseInv, BackendInv
<1>7. CloseInv'
  <2>1. Needed \subseteq handles
    <3>1. \A n \in DOMAIN Backend : Backend[n] \in handles
      BY BackendsAre DEF BackendInv, TypeOK
    <3>2. QED  BY <3>1, BackendsAre
  <2>2. once = "new"  BY DEF CloseInv, TypeOK
  <2>3. /\ step' = "returned" /\ cause' = "none" /\ position' = 1
        /\ UNCHANGED <<once, closeErr, closers, failing, handles>>
    BY DEF CauseInv
  <2>4. Needed' \subseteq handles'  BY <2>1, <2>3
  <2>5. \A c \in Closers : closers'[c] = "idle"  BY <2>2, <2>3 DEF CloseInv
  <2>6. closeErr' = "none"  BY <2>2, <2>3 DEF CloseInv
  <2>7. QED  BY <2>2, <2>3, <2>4, <2>5, <2>6 DEF CloseInv
<1>8. QED  BY <1>1, <1>2, <1>3, <1>4, <1>5, <1>6, <1>7

\* An operation fails.
LEMMA FailKeeps ==
  ASSUME OpenInv, Fail PROVE OpenInv'
<1> USE BatchSizeAssumption, MaxFaultsAssumption
    DEF OpenInv, Fail, Goto, Refuse, relation, closing, ClosedOnError
<1>0. bundle' = bundle  OBVIOUS
<1> USE <1>0, BundleStands
<1>1. TypeOK'
  <2>1. {file', db', tx'} \subseteq BOOLEAN
    <3>1. tx' \in {tx, FALSE} /\ UNCHANGED <<file, db>>  OBVIOUS
    <3>2. QED  BY <3>1 DEF TypeOK
  <2>2. handles' \subseteq Backends /\ faults' \in 0 .. MaxFaults  BY DEF TypeOK
  <2>3. QED  BY <2>1, <2>2 DEF TypeOK
<1>2. ScratchInv'
  BY DEF ScratchInv, CauseInv, TypeOK
<1>3. ReadInv'
  BY DEF ReadInv
<1>4. BackendInv'
  BY DEF BackendInv, Reading
<1>5. CauseInv'
  BY DEF CauseInv
<1>6. ReadersAgree'
  BY DEF ReadersAgree, CauseInv
<1>7. CloseInv'
  BY DEF CloseInv, CauseInv
<1>8. QED  BY <1>1, <1>2, <1>3, <1>4, <1>5, <1>6, <1>7

\* The deferred cleanup.
LEMMA CleanupKeeps ==
  ASSUME OpenInv, Cleanup PROVE OpenInv'
<1> USE BatchSizeAssumption, MaxFaultsAssumption
    DEF OpenInv, Cleanup, Goto, Refuse, relation, closing, CloseAndRemove
<1>0. bundle' = bundle  OBVIOUS
<1> USE <1>0, BundleStands
<1>1. TypeOK'
  <2>1. {file', db', tx'} \subseteq BOOLEAN  BY DEF TypeOK
  <2>2. faults' \in 0 .. MaxFaults /\ Cardinality(batch') < BatchSize
    BY FS_EmptySet DEF TypeOK
  <2>3. QED  BY <2>1, <2>2 DEF TypeOK
<1>2. ScratchInv'
  BY FS_EmptySet DEF ScratchInv, CauseInv, TypeOK
<1>3. ReadInv'
  BY DEF ReadInv
<1>4. BackendInv'
  BY DEF BackendInv, Reading
<1>5. CauseInv'
  BY DEF CauseInv, BackendInv, Reading
<1>6. ReadersAgree'
  BY DEF ReadersAgree, CauseInv
<1>7. CloseInv'
  BY DEF CloseInv, CauseInv
<1>8. QED  BY <1>1, <1>2, <1>3, <1>4, <1>5, <1>6, <1>7

\* A backend is closed; the first error is kept.
LEMMA CloseHandleKeeps ==
  ASSUME OpenInv, CloseHandle PROVE OpenInv'
<1> USE BatchSizeAssumption, MaxFaultsAssumption
    DEF OpenInv, CloseHandle, Goto, Refuse, relation, closing
<1>0. bundle' = bundle  OBVIOUS
<1> USE <1>0, BundleStands
<1>1. TypeOK'
  BY DEF TypeOK, ScratchInv, CauseInv
<1>2. ScratchInv'
  BY DEF ScratchInv, CauseInv, TypeOK
<1>3. ReadInv'
  BY DEF ReadInv, CloseInv
<1>4. BackendInv'
  BY DEF BackendInv, CloseInv, Reading
<1>5. CauseInv'
  BY DEF CauseInv, BackendInv, Reading
<1>6. ReadersAgree'
  BY DEF ReadersAgree, CauseInv
<1>7. CloseInv'
  <2>1. /\ step = "returned" /\ cause = "none" /\ once = "running"
        /\ position \in 1 .. 3 /\ position' = position + 1 /\ FirstFailing(position)
        /\ UNCHANGED <<step, cause, once, failing, closers>>
    BY DEF CloseInv, TypeOK, CloseOrder
  <2>2. FirstFailing(position)'
    <3>1. closeErr' = IF closeErr = "none" /\ CloseOrder[position] \in failing
                      THEN CloseOrder[position] ELSE closeErr
      OBVIOUS
    <3>2. CloseOrder[1] # "none" /\ CloseOrder[2] # "none" /\ CloseOrder[3] # "none"
      BY DEF CloseOrder
    <3>3. CASE position = 1  BY <2>1, <3>1, <3>2, <3>3 DEF FirstFailing
    <3>4. CASE position = 2  BY <2>1, <3>1, <3>2, <3>4 DEF FirstFailing
    <3>5. CASE position = 3  BY <2>1, <3>1, <3>2, <3>5 DEF FirstFailing
    <3>6. QED  BY <2>1, <3>3, <3>4, <3>5
  <2>3. \A m \in 1 .. position' - 1 : CloseOrder[m] \notin handles'
    <3>1. handles' = handles \ {CloseOrder[position]}  OBVIOUS
    <3>2. \A m \in 1 .. position' - 1 : m = position \/ m \in 1 .. position - 1
      BY <2>1
    <3>3. QED  BY <2>1, <3>1, <3>2 DEF CloseInv
  <2>4. position' <= 4  BY <2>1
  <2>5. QED  BY <2>1, <2>2, <2>3, <2>4 DEF CloseInv
<1>8. QED  BY <1>1, <1>2, <1>3, <1>4, <1>5, <1>6, <1>7

\* All backends are closed.
LEMMA ClosedKeeps ==
  ASSUME OpenInv, Closed PROVE OpenInv'
<1> USE BatchSizeAssumption, MaxFaultsAssumption
    DEF OpenInv, Closed, Goto, Refuse, relation, closing
<1>0. bundle' = bundle  OBVIOUS
<1> USE <1>0, BundleStands
<1>1. TypeOK'
  BY DEF TypeOK, ScratchInv, CauseInv
<1>2. ScratchInv'
  BY DEF ScratchInv, CauseInv, TypeOK
<1>3. ReadInv'
  BY DEF ReadInv, CloseInv
<1>4. BackendInv'
  BY DEF BackendInv, Reading
<1>5. CauseInv'
  BY DEF CauseInv, BackendInv, Reading
<1>6. ReadersAgree'
  BY DEF ReadersAgree, CauseInv
<1>7. CloseInv'
  <2>1. position = 4 /\ FirstFailing(4) /\ step = "returned" /\ cause = "none"
    BY DEF CloseInv, TypeOK, CloseOrder
  <2>2. handles = {}
    <3>1. \A b \in Backends : \E m \in 1 .. 3 : b = CloseOrder[m]
      <4>1. /\ CloseOrder[1] = "lexical" /\ CloseOrder[2] = "vector"
            /\ CloseOrder[3] = "content"
        BY DEF CloseOrder
      <4>2. QED  BY <4>1 DEF Backends
    <3>2. \A m \in 1 .. 3 : CloseOrder[m] \notin handles  BY <2>1 DEF CloseInv
    <3>3. QED  BY <3>1, <3>2 DEF TypeOK
  <2>3. once' = "done" /\ FirstFailing(4)'  BY <2>1 DEF FirstFailing
  <2>4. QED  BY <2>1, <2>2, <2>3 DEF CloseInv
<1>8. QED  BY <1>1, <1>2, <1>3, <1>4, <1>5, <1>6, <1>7

\* A goroutine calls Close.
LEMMA CloseKeeps ==
  ASSUME OpenInv, NEW c \in Closers, Close(c) PROVE OpenInv'
<1> USE BatchSizeAssumption, MaxFaultsAssumption
    DEF OpenInv, Close, Goto, Refuse, relation, closing
<1>0. bundle' = bundle  OBVIOUS
<1> USE <1>0, BundleStands
<1>1. TypeOK'
  BY DEF TypeOK, ScratchInv, CauseInv
<1>2. ScratchInv'
  BY DEF ScratchInv, CauseInv, TypeOK
<1>3. ReadInv'
  BY DEF ReadInv
<1>4. BackendInv'
  BY DEF BackendInv, Reading
<1>5. CauseInv'
  BY DEF CauseInv, BackendInv, Reading
<1>6. ReadersAgree'
  BY DEF ReadersAgree, CauseInv
<1>7. CloseInv'
  <2>1. CASE once = "new"
    <3>1. position = 1 /\ closeErr = "none" /\ once' = "running"
      BY <2>1 DEF CloseInv
    <3>2. FirstFailing(1)'  BY <3>1 DEF FirstFailing
    <3>3. QED  BY <2>1, <3>1, <3>2 DEF CloseInv, TypeOK
  <2>2. CASE once # "new"
    BY <2>2 DEF CloseInv, FirstFailing, TypeOK
  <2>3. QED  BY <2>1, <2>2
<1>8. QED  BY <1>1, <1>2, <1>3, <1>4, <1>5, <1>6, <1>7

\* A goroutine returns from Close with the error of the bundle.
LEMMA ReturnKeeps ==
  ASSUME OpenInv, NEW c \in Closers, Return(c) PROVE OpenInv'
<1> USE BatchSizeAssumption, MaxFaultsAssumption
    DEF OpenInv, Return, Goto, Refuse, relation, closing
<1>0. bundle' = bundle  OBVIOUS
<1> USE <1>0, BundleStands
<1>1. TypeOK'
  BY DEF TypeOK, ScratchInv, CauseInv
<1>2. ScratchInv'
  BY DEF ScratchInv, CauseInv, TypeOK
<1>3. ReadInv'
  BY DEF ReadInv, CloseInv, MayReturn
<1>4. BackendInv'
  BY DEF BackendInv, Reading
<1>5. CauseInv'
  BY DEF CauseInv, BackendInv, Reading
<1>6. ReadersAgree'
  BY DEF ReadersAgree, CauseInv
<1>7. CloseInv'
  BY DEF CloseInv, FirstFailing, TypeOK, MayReturn
<1>8. QED  BY <1>1, <1>2, <1>3, <1>4, <1>5, <1>6, <1>7

-----------------------------------------------------------------------------
(* Opening a bundle.                                                       *)

\* Nothing of opening and closing depends on the faults but their bound.
LEMMA OpenStands ==
  ASSUME OpenInv, UNCHANGED <<bundle, step, position, cause, relation, handles, closing>>,
         faults' \in faults .. MaxFaults
  PROVE  OpenInv'
<1> USE BundleStands DEF OpenInv, relation, closing
<1>1. TypeOK'  BY MaxFaultsAssumption DEF TypeOK
<1>2. ScratchInv'  BY MaxFaultsAssumption DEF ScratchInv, TypeOK
<1>3. ReadInv'  BY DEF ReadInv, Rows
<1>4. BackendInv'  BY DEF BackendInv, Reading
<1>5. CauseInv'  BY DEF CauseInv
<1>6. ReadersAgree'  BY DEF ReadersAgree
<1>7. CloseInv'  BY DEF CloseInv, FirstFailing
<1>8. QED  BY <1>1, <1>2, <1>3, <1>4, <1>5, <1>6, <1>7

\* A bundle is not verified before it is opened.
LEMMA OpenInitially == Init => OpenInv
<1> SUFFICES ASSUME Init PROVE OpenInv  OBVIOUS
<1> USE BatchSizeAssumption, MaxFaultsAssumption, FS_EmptySet DEF Init
<1>1. TypeOK
  <2>1. Cardinality({}) = 0 /\ 0 < BatchSize  OBVIOUS
  <2>2. Cardinality(batch) < BatchSize  BY <2>1
  <2>3. {file, db, tx} \subseteq BOOLEAN  OBVIOUS
  <2>4. QED  BY <2>2, <2>3 DEF TypeOK
<1>2. ScratchInv  BY DEF ScratchInv
<1>3. QED
  BY <1>1, <1>2
  DEF OpenInv, ReadInv, BackendInv, CauseInv, ReadersAgree, CloseInv

\* Every step of opening and closing keeps the invariant.
LEMMA OpenKept ==
  ASSUME OpenInv, Next PROVE OpenInv'
BY LoadManifestKeeps, CreateFileKeeps, InitializeKeeps, BeginKeeps, AddChunkKeeps,
   FinishChunksKeeps, AddRepresentationKeeps, FinishRepresentationsKeeps,
   CloseRelationKeeps, OpenToInspectKeeps, InspectKeeps, CheckEmbedderKeeps,
   OpenBackendKeeps, ReadyKeeps, FailKeeps, CleanupKeeps, CloseHandleKeeps, ClosedKeeps,
   CloseKeeps, ReturnKeeps
DEF Next

\* What has been opened stays so, and closing is not undone.
Onward ==
  /\ bundle' = bundle
  /\ step = "returned" /\ cause = "none" => step' = "returned" /\ cause' = "none"
  /\ once = "done" => once' = "done"
  /\ once # "new" => once' # "new"
  /\ faults > 0 => faults' > 0

\* No step of opening and closing goes back.
LEMMA StepsGoOnward ==
  ASSUME OpenInv, Next PROVE Onward
<1> USE MaxFaultsAssumption
    DEF OpenInv, TypeOK, CloseInv, Onward, Goto, Refuse, relation, closing
<1>1. CASE LoadManifest \/ CreateFile \/ Initialize \/ Begin
  BY <1>1 DEF LoadManifest, CreateFile, Initialize, Begin
<1>2. CASE AddChunk \/ FinishChunks \/ AddRepresentation \/ FinishRepresentations
  BY <1>2 DEF AddChunk, FinishChunks, AddRepresentation, FinishRepresentations
<1>3. CASE CloseRelation \/ Cleanup
  BY <1>3 DEF CloseRelation, Cleanup, CloseAndRemove
<1>4. CASE OpenToInspect \/ Inspect \/ CheckEmbedder \/ OpenBackend \/ Ready
  BY <1>4 DEF OpenToInspect, Inspect, CheckEmbedder, OpenBackend, Ready
<1>5. CASE Fail
  BY <1>5 DEF Fail
<1>6. CASE CloseHandle \/ Closed
  BY <1>6 DEF CloseHandle, Closed
<1>7. CASE \E c \in Closers : Close(c) \/ Return(c)
  BY <1>7 DEF Close, Return
<1>8. QED  BY <1>1, <1>2, <1>3, <1>4, <1>5, <1>6, <1>7 DEF Next

-----------------------------------------------------------------------------
(* Loading chunks from it.                                                 *)

\* A reader that does not step is where it was.
LEMMA ReaderStands ==
  ASSUME NEW reader, ReaderOf(reader), Onward
  PROVE  ReaderOf(reader)'
<1>1. \A id : Found(id)' = Found(id)  BY DEF Onward, Found
<1>2. QED  BY <1>1 DEF ReaderOf, Onward

\* While nobody has begun to close the bundle its content store is open, and once it
\* is closed the store is not.
LEMMA OpenUntilClosed ==
  ASSUME OpenInv, step = "returned", cause = "none"
  PROVE  /\ once = "new" => IsOpen
         /\ once = "done" => ~IsOpen
<1>1. "content" \in Needed
  <2>1. Backend[1] = "content" /\ 1 \in DOMAIN Backend  BY DEF Backend
  <2>2. QED  BY <2>1 DEF Needed
<1>2. QED  BY <1>1 DEF OpenInv, CloseInv, IsOpen

\* A step of one reader leaves the others alone.
LEMMA OneReaderSteps ==
  ASSUME LookupInv, OpenInv', Onward, NEW r \in Readers, NEW next \in Reader,
         readers' = [readers EXCEPT ![r] = next], ReaderOf(next)'
  PROVE  LookupInv'
<1>1. readers' \in [Readers -> Reader]  BY DEF LookupInv, ReadersInv
<1>2. ASSUME NEW q \in Readers PROVE ReaderOf(readers[q])'
  <2>1. CASE q = r
    <3>1. readers'[q] = next  BY <2>1 DEF LookupInv, ReadersInv
    <3>2. QED  BY <3>1 DEF ReaderOf
  <2>2. CASE q # r
    <3>1. readers'[q] = readers[q]  BY <2>2 DEF LookupInv, ReadersInv
    <3>2. PICK reader : reader = readers[q]  OBVIOUS
    <3>3. ReaderOf(reader)  BY <3>2 DEF LookupInv, ReadersInv
    <3>4. ReaderOf(reader)'  BY <3>3, ReaderStands
    <3>5. QED  BY <3>1, <3>2, <3>4 DEF ReaderOf
  <2>3. QED  BY <2>1, <2>2
<1>3. QED  BY <1>1, <1>2 DEF LookupInv, ReadersInv

\* Loading chunks reads what was opened and changes nothing but, on a fault, the count.
LEMMA LookupsOnly ==
  ASSUME LookupInv,
         \/ UNCHANGED vars
         \/ /\ UNCHANGED <<bundle, step, position, cause, relation, handles, closing>>
            /\ faults < MaxFaults /\ faults' = faults + 1
  PROVE  OpenInv' /\ Onward
<1>1. faults' \in faults .. MaxFaults
  BY MaxFaultsAssumption DEF LookupInv, OpenInv, TypeOK, vars
<1>2. UNCHANGED <<bundle, step, position, cause, relation, handles, closing>>
  BY DEF vars
<1>3. OpenInv'  BY <1>1, <1>2, OpenStands DEF LookupInv
<1>4. Onward
  BY <1>1, <1>2, MaxFaultsAssumption DEF Onward, LookupInv, OpenInv, TypeOK, closing
<1>5. QED  BY <1>3, <1>4

\* A request is made: a bad one fails at once.
LEMMA LookupKeeps ==
  ASSUME LookupInv, NEW r \in Readers, NEW ids \in Requests, Lookup(r, ids)
  PROVE  LookupInv'
<1>1. OpenInv' /\ Onward  BY LookupsOnly DEF Lookup
<1> DEFINE late == \E c \in Closers : closers[c] \notin {"idle", "waiting"}
           next == [NoLookup EXCEPT
                      !.asked = ids,
                      !.state = IF Malformed(ids) THEN "error" ELSE "loading",
                      !.late = late]
<1>2. readers' = [readers EXCEPT ![r] = next]  BY DEF Lookup
<1>3. ids \in Seq(STRING)  BY LookupAssumption
<1>4. /\ next.state = IF Malformed(ids) THEN "error" ELSE "loading"
      /\ next.asked = ids /\ next.got = <<>> /\ next.upto = 0 /\ next.late = late
  BY DEF NoLookup
<1>5. next \in Reader
  <2>1. PICK s : s = IF Malformed(ids) THEN "error" ELSE "loading"  OBVIOUS
  <2>2. PICK l \in BOOLEAN : l = late  OBVIOUS
  <2>3. next = [NoLookup EXCEPT !.asked = ids, !.state = s, !.late = l]
    BY <2>1, <2>2
  <2>4. s \in {"loading", "error"} /\ <<>> \in Seq(Chunk) /\ 0 \in Nat  BY <2>1
  <2>5. [NoLookup EXCEPT !.asked = ids, !.state = s, !.late = l]
          = [state |-> s, asked |-> ids, got |-> <<>>, upto |-> 0, late |-> l]
    <3>1. PICK no : NoLookup = [state |-> "idle", asked |-> <<>>, got |-> <<>>,
                                upto |-> 0, late |-> no]
      BY DEF NoLookup
    <3>2. PICK asking : asking = [NoLookup EXCEPT !.asked = ids]  OBVIOUS
    <3>3. asking = [state |-> "idle", asked |-> ids, got |-> <<>>, upto |-> 0, late |-> no]
      BY <3>1, <3>2
    <3>4. PICK stated : stated = [asking EXCEPT !.state = s]  OBVIOUS
    <3>5. stated = [state |-> s, asked |-> ids, got |-> <<>>, upto |-> 0, late |-> no]
      BY <3>3, <3>4
    <3>6. [stated EXCEPT !.late = l]
            = [state |-> s, asked |-> ids, got |-> <<>>, upto |-> 0, late |-> l]
      BY <3>5
    <3>7. QED  BY <3>2, <3>4, <3>6
  <2>6. QED  BY <2>3, <2>4, <2>5, <1>3 DEF Reader
<1>6. late => once = "done"  BY DEF LookupInv, OpenInv, CloseInv
<1>7. UNCHANGED vars /\ step = "returned" /\ cause = "none"  BY DEF Lookup
<1>8. PICK reader : reader = next  OBVIOUS
<1>9. ReaderOf(reader)'
  BY <1>3, <1>4, <1>6, <1>7, <1>8 DEF ReaderOf, vars, closing
<1>10. QED  BY <1>1, <1>2, <1>5, <1>8, <1>9, OneReaderSteps

\* The store is asked whether it is open: only a closing bundle's is not.
LEMMA NextBatchKeeps ==
  ASSUME LookupInv, NEW r \in Readers, NextBatch(r)
  PROVE  LookupInv'
<1>1. OpenInv' /\ Onward  BY LookupsOnly DEF NextBatch
<1>2. PICK reader : reader = readers[r]  OBVIOUS
<1>3. /\ reader \in Reader /\ ReaderOf(reader)
      /\ reader.state = "loading" /\ Len(reader.got) < Len(reader.asked)
  BY <1>2 DEF LookupInv, ReadersInv, NextBatch, More
<1>4. PICK s \in IF IsOpen THEN {"querying"} ELSE {"querying", "error"} :
        readers' = [readers EXCEPT
          ![r].state = s, ![r].upto = BatchEnd(Len(reader.got), Len(reader.asked))]
  BY <1>2 DEF NextBatch
<1>5. PICK upto : upto = BatchEnd(Len(reader.got), Len(reader.asked))  OBVIOUS
<1>6. upto \in Nat /\ Len(reader.got) <= upto /\ upto <= Len(reader.asked)
  BY <1>3, <1>5, LookupAssumption DEF BatchEnd, Reader
<1>7. PICK next : next = [reader EXCEPT !.state = s, !.upto = upto]  OBVIOUS
<1>8. next \in Reader  BY <1>3, <1>6, <1>7 DEF Reader
<1>9. readers' = [readers EXCEPT ![r] = next]
  BY <1>2, <1>4, <1>5, <1>7 DEF LookupInv, ReadersInv, Reader
<1>10. /\ next.state = s /\ next.upto = upto /\ next.got = reader.got
       /\ next.asked = reader.asked /\ next.late = reader.late
  BY <1>3, <1>7 DEF Reader
<1>11. s = "error" => once # "new"
  BY <1>3, OpenUntilClosed DEF LookupInv, ReaderOf
<1>12. ReaderOf(reader)'  BY <1>1, <1>3, ReaderStands
<1>13. once # "new" => once' # "new"  BY <1>1 DEF Onward
<1>14. ReaderOf(next)'
  BY <1>3, <1>6, <1>10, <1>11, <1>12, <1>13 DEF ReaderOf
<1>15. QED  BY <1>1, <1>8, <1>9, <1>14, OneReaderSteps

\* A query adds the next chunk that was asked for; an error is that of an unknown chunk
\* or, like a panic, that of a closing bundle.
LEMMA QueryRowKeeps ==
  ASSUME LookupInv, NEW r \in Readers, QueryRow(r)
  PROVE  LookupInv'
<1>1. OpenInv' /\ Onward  BY LookupsOnly DEF QueryRow
<1>2. PICK reader : reader = readers[r]  OBVIOUS
<1>3. /\ reader \in Reader /\ ReaderOf(reader)
      /\ reader.state = "querying" /\ Len(reader.got) < reader.upto
  BY <1>2 DEF LookupInv, ReadersInv, QueryRow
<1>4. PICK id : id = reader.asked[Len(reader.got) + 1]  OBVIOUS
<1>5. ReaderOf(reader)'  BY <1>1, <1>3, ReaderStands
<1>6. \A i : Found(i)' = Found(i)  BY <1>1 DEF Onward, Found
<1>7. /\ Len(reader.got) + 1 \in DOMAIN reader.asked
      /\ Len(reader.got) + 1 <= Len(reader.asked)
  BY <1>3 DEF ReaderOf, Reader
<1>8. CASE ~IsOpen
  <2>1. PICK s \in {"error", "panic"} : readers' = [readers EXCEPT ![r].state = s]
    BY <1>8 DEF QueryRow
  <2>2. PICK next : next = [reader EXCEPT !.state = s]  OBVIOUS
  <2>3. next \in Reader  BY <1>3, <2>2 DEF Reader
  <2>4. readers' = [readers EXCEPT ![r] = next]
    BY <1>2, <2>1, <2>2 DEF LookupInv, ReadersInv, Reader
  <2>5. /\ next.state = s /\ next.upto = reader.upto /\ next.got = reader.got
        /\ next.asked = reader.asked /\ next.late = reader.late
    BY <1>3, <2>2 DEF Reader
  <2>6. once # "new" /\ once' # "new"
    BY <1>1, <1>3, <1>8, OpenUntilClosed DEF LookupInv, ReaderOf, Onward
  <2>7. ReaderOf(next)'  BY <1>3, <1>5, <2>1, <2>5, <2>6 DEF ReaderOf
  <2>8. QED  BY <1>1, <2>3, <2>4, <2>7, OneReaderSteps
<1>9. CASE IsOpen /\ Found(id) = {}
  <2>1. readers' = [readers EXCEPT ![r].state = "error"]  BY <1>2, <1>4, <1>9 DEF QueryRow
  <2>2. PICK next : next = [reader EXCEPT !.state = "error"]  OBVIOUS
  <2>3. next \in Reader  BY <1>3, <2>2 DEF Reader
  <2>4. readers' = [readers EXCEPT ![r] = next]
    BY <1>2, <2>1, <2>2 DEF LookupInv, ReadersInv, Reader
  <2>5. /\ next.state = "error" /\ next.upto = reader.upto /\ next.got = reader.got
        /\ next.asked = reader.asked /\ next.late = reader.late
    BY <1>3, <2>2 DEF Reader
  <2>6. \E n \in DOMAIN reader.asked : Found(reader.asked[n]) = {}
    BY <1>4, <1>7, <1>9
  <2>7. ReaderOf(next)'
    <3>1. ReaderOf(next)  BY <1>3, <2>5, <2>6 DEF ReaderOf
    <3>2. QED  BY <1>1, <3>1, ReaderStands
  <2>8. QED  BY <1>1, <2>3, <2>4, <2>7, OneReaderSteps
<1>10. CASE IsOpen /\ Found(id) # {}
  <2>1. PICK chunk : chunk = bundle.chunks[CHOOSE n \in Found(id) : TRUE]  OBVIOUS
  <2>2. chunk \in Chunk /\ chunk.id = id
    <3>1. PICK n : n = CHOOSE m \in Found(id) : TRUE  OBVIOUS
    <3>2. n \in Found(id)  BY <1>10, <3>1
    <3>3. n \in DOMAIN bundle.chunks /\ bundle.chunks[n].id = id  BY <3>2 DEF Found
    <3>4. bundle.chunks \in Seq(Chunk)  BY BundleTyped DEF LookupInv, OpenInv
    <3>5. bundle.chunks[n] \in Chunk  BY <3>3, <3>4
    <3>6. QED  BY <2>1, <3>1, <3>3, <3>5
  <2>3. readers' = [readers EXCEPT ![r].got = Append(@, chunk)]
    BY <1>2, <1>4, <1>10, <2>1 DEF QueryRow
  <2>4. PICK next : next = [reader EXCEPT !.got = Append(reader.got, chunk)]  OBVIOUS
  <2>5. Append(reader.got, chunk) \in Seq(Chunk)  BY <1>3, <2>2 DEF Reader
  <2>6. next \in Reader  BY <1>3, <2>4, <2>5 DEF Reader
  <2>7. readers' = [readers EXCEPT ![r] = next]
    BY <1>2, <2>3, <2>4 DEF LookupInv, ReadersInv, Reader
  <2>8. /\ next.state = "querying" /\ next.upto = reader.upto
        /\ next.got = Append(reader.got, chunk)
        /\ next.asked = reader.asked /\ next.late = reader.late
    BY <1>3, <2>4 DEF Reader
  <2>9. ~reader.late
    BY <1>3, <1>10, OpenUntilClosed DEF LookupInv, ReaderOf
  <2>10. /\ Len(next.got) = Len(reader.got) + 1
         /\ \A n \in DOMAIN next.got : next.got[n].id = next.asked[n]
    <3>1. reader.got \in Seq(Chunk)  BY <1>3 DEF Reader
    <3>2. /\ Len(next.got) = Len(reader.got) + 1
          /\ DOMAIN next.got = 1 .. Len(reader.got) + 1
          /\ next.got[Len(reader.got) + 1] = chunk
          /\ \A n \in 1 .. Len(reader.got) : next.got[n] = reader.got[n]
      BY <3>1, <2>2, <2>8
    <3>3. \A n \in 1 .. Len(reader.got) : reader.got[n].id = reader.asked[n]
      BY <3>1, <1>3 DEF ReaderOf
    <3>4. \A n \in 1 .. Len(reader.got) + 1 :
             n = Len(reader.got) + 1 \/ n \in 1 .. Len(reader.got)
      BY <3>1
    <3>5. QED  BY <3>2, <3>3, <3>4, <1>4, <2>2, <2>8
  <2>11. Len(next.got) <= next.upto
    BY <1>3, <2>8, <2>10 DEF Reader
  <2>12. ReaderOf(next)'
    BY <1>3, <1>5, <1>7, <2>8, <2>9, <2>10, <2>11 DEF ReaderOf
  <2>13. QED  BY <1>1, <2>6, <2>7, <2>12, OneReaderSteps
<1>11. QED  BY <1>8, <1>9, <1>10

\* A batch ends, all have been loaded, or a query fails.
LEMMA StateKeeps ==
  ASSUME LookupInv, NEW r \in Readers, EndBatch(r) \/ Loaded(r) \/ QueryFails(r)
  PROVE  LookupInv'
<1>1. OpenInv' /\ Onward
  BY LookupsOnly DEF EndBatch, Loaded, QueryFails
<1>2. PICK reader : reader = readers[r]  OBVIOUS
<1>3. reader \in Reader /\ ReaderOf(reader)  BY <1>2 DEF LookupInv, ReadersInv
<1>4. PICK s : /\ readers' = [readers EXCEPT ![r].state = s]
               /\ \/ EndBatch(r) /\ s = "loading"
                  \/ Loaded(r) /\ s = "ok"
                  \/ QueryFails(r) /\ s = "error"
  BY DEF EndBatch, Loaded, QueryFails
<1>5. PICK next : next = [reader EXCEPT !.state = s]  OBVIOUS
<1>6. next \in Reader  BY <1>3, <1>4, <1>5 DEF Reader
<1>7. readers' = [readers EXCEPT ![r] = next]
  BY <1>2, <1>4, <1>5 DEF LookupInv, ReadersInv, Reader
<1>8. /\ next.state = s /\ next.upto = reader.upto /\ next.got = reader.got
      /\ next.asked = reader.asked /\ next.late = reader.late
  BY <1>3, <1>5 DEF Reader
<1>9. ReaderOf(reader)'  BY <1>1, <1>3, ReaderStands
<1>10. s = "loading" => reader.state = "querying"  BY <1>2, <1>4 DEF EndBatch
<1>11. s = "ok" => reader.state = "loading" /\ Len(reader.got) = Len(reader.asked)
  BY <1>2, <1>3, <1>4 DEF Loaded, More, ReaderOf, Reader
<1>12. s = "error" => reader.state = "querying" /\ faults' > 0
  BY <1>2, <1>4 DEF QueryFails, LookupInv, OpenInv, TypeOK
<1>13. ReaderOf(next)'
  BY <1>4, <1>8, <1>9, <1>10, <1>11, <1>12 DEF ReaderOf
<1>14. QED  BY <1>1, <1>6, <1>7, <1>13, OneReaderSteps

\* The invariant holds of every state of opening, reading and closing a bundle.
LEMMA LookupInvariant == LookupSpec => []LookupInv
<1>1. LookupInit => LookupInv
  <2> SUFFICES ASSUME LookupInit PROVE LookupInv  OBVIOUS
  <2>1. OpenInv  BY OpenInitially DEF LookupInit
  <2>2. NoLookup \in Reader  BY DEF NoLookup, Reader
  <2>3. ReaderOf(NoLookup)  BY DEF NoLookup, ReaderOf
  <2>4. readers = [r \in Readers |-> NoLookup]  BY DEF LookupInit
  <2>5. \A r \in Readers : readers[r] = NoLookup  BY <2>4
  <2>6. QED  BY <2>1, <2>2, <2>3, <2>4, <2>5 DEF LookupInv, ReadersInv
<1>2. LookupInv /\ [(Next /\ UNCHANGED readers) \/ LookupNext]_<<vars, readers>>
        => LookupInv'
  <2> SUFFICES ASSUME LookupInv,
                      [(Next /\ UNCHANGED readers) \/ LookupNext]_<<vars, readers>>
               PROVE  LookupInv'
    OBVIOUS
  <2>1. ASSUME OpenInv', Onward, UNCHANGED readers PROVE LookupInv'
    <3>1. ASSUME NEW r \in Readers PROVE ReaderOf(readers[r])'
      <4>1. PICK reader : reader = readers[r]  OBVIOUS
      <4>2. ReaderOf(reader)'
        BY <2>1, <4>1, ReaderStands DEF LookupInv, ReadersInv
      <4>3. QED  BY <2>1, <4>1, <4>2 DEF ReaderOf
    <3>2. QED  BY <2>1, <3>1 DEF LookupInv, ReadersInv
  <2>2. CASE Next /\ UNCHANGED readers
    BY <2>1, <2>2, OpenKept, StepsGoOnward DEF LookupInv
  <2>3. CASE LookupNext
    BY <2>3, LookupKeeps, NextBatchKeeps, QueryRowKeeps, StateKeeps DEF LookupNext
  <2>4. CASE UNCHANGED <<vars, readers>>
    BY <2>1, <2>4, LookupsOnly
  <2>5. QED  BY <2>2, <2>3, <2>4
<1>3. QED  BY <1>1, <1>2, PTL DEF LookupSpec

-----------------------------------------------------------------------------
(* Theorems.                                                               *)

\* The variables have their types, and a transaction never holds a full batch.
THEOREM OpeningTypeOK == LookupSpec => []TypeOK
<1>1. LookupInv => TypeOK  BY DEF LookupInv, OpenInv
<1>2. QED  BY <1>1, LookupInvariant, PTL

\* For every batch size, every stored data and every fault, Verify, which streams the
\* rows through a relation that forgets what is not in its rows, accepts the bundles
\* that the reader with everything in memory accepts.
THEOREM ReadersAlwaysAgree == LookupSpec => []ReadersAgree
<1>1. LookupInv => ReadersAgree  BY DEF LookupInv, OpenInv
<1>2. QED  BY <1>1, LookupInvariant, PTL

\* Whatever fails, and wherever, the scratch relation and the backends are closed.
THEOREM OpeningLeaksNothing == LookupSpec => []NothingLeaks
<1>1. LookupInv => NothingLeaks
  <2> SUFFICES ASSUME OpenInv PROVE NothingLeaks  BY DEF LookupInv
  <2>1. step = "returned" => ~db /\ ~tx /\ (file => faults > 0 /\ cause # "none")
    BY DEF OpenInv, ScratchInv
  <2>2. cause # "none" => handles = {}  BY DEF OpenInv, CauseInv
  <2>3. step \in {"inspect", "inspecting"} => Cardinality(handles) <= 1 /\ ~file
    <3>1. ASSUME step = "inspect" PROVE Cardinality(handles) <= 1
      <4>1. handles = {}  BY <3>1 DEF OpenInv, BackendInv
      <4>2. Cardinality(handles) = 0  BY <4>1, FS_EmptySet
      <4>3. QED  BY <4>2
    <3>2. ASSUME step = "inspecting" PROVE Cardinality(handles) <= 1
      <4>1. PICK b : handles = {b}  BY <3>2 DEF OpenInv, BackendInv
      <4>2. Cardinality(handles) = 1  BY <4>1, FS_Singleton
      <4>3. QED  BY <4>2
    <3>3. step \in {"inspect", "inspecting"} => ~file  BY DEF OpenInv, ScratchInv
    <3>4. QED  BY <3>1, <3>2, <3>3
  <2>4. QED  BY <2>1, <2>2, <2>3 DEF NothingLeaks
<1>2. QED  BY <1>1, LookupInvariant, PTL

\* However many goroutines close the bundle and whichever backends fail to close, each
\* of them returns when all backends are closed and with the first error.
THEOREM BundleClosedForAll == LookupSpec => []ClosedForAll
<1>1. LookupInv => ClosedForAll
  <2> SUFFICES ASSUME OpenInv,
                      NEW c \in Closers, closers[c] \notin {"idle", "waiting"}
               PROVE  /\ handles = {}
                      /\ IF failing = {} THEN closers[c] = "none"
                         ELSE \E n \in DOMAIN CloseOrder :
                                /\ closers[c] = CloseOrder[n] /\ CloseOrder[n] \in failing
                                /\ \A m \in 1 .. n - 1 : CloseOrder[m] \notin failing
    BY DEF LookupInv, ClosedForAll
  <2>1. handles = {} /\ FirstFailing(4) /\ closers[c] = closeErr
    BY DEF OpenInv, CloseInv
  <2>2. DOMAIN CloseOrder = 1 .. 3  BY DEF CloseOrder
  <2>3. CASE failing = {}
    BY <2>1, <2>3 DEF FirstFailing
  <2>4. CASE failing # {}
    <3>1. \A b \in Backends : \E m \in 1 .. 3 : b = CloseOrder[m]
      <4>1. /\ CloseOrder[1] = "lexical" /\ CloseOrder[2] = "vector"
            /\ CloseOrder[3] = "content"
        BY DEF CloseOrder
      <4>2. QED  BY <4>1 DEF Backends
    <3>2. failing \subseteq Backends  BY DEF OpenInv, TypeOK
    <3>3. \E m \in 1 .. 3 : CloseOrder[m] \in failing  BY <2>4, <3>1, <3>2
    <3>4. \E m \in 1 .. 3 :
             /\ closeErr = CloseOrder[m] /\ CloseOrder[m] \in failing
             /\ \A l \in 1 .. m - 1 : CloseOrder[l] \notin failing
      BY <2>1, <3>3 DEF FirstFailing
    <3>5. QED  BY <2>1, <2>2, <2>4, <3>4
  <2>5. QED  BY <2>1, <2>3, <2>4
<1>2. QED  BY <1>1, LookupInvariant, PTL

\* However many goroutines read while others close, a load returns what was asked for,
\* all of it and in order, or fails for a reason.
THEOREM LookupsAlwaysWhole == LookupSpec => []LookupsWholeOrFail
<1>1. LookupInv => LookupsWholeOrFail
  <2> SUFFICES ASSUME LookupInv PROVE LookupsWholeOrFail  OBVIOUS
  <2> DEFINE known == {bundle.chunks[n].id : n \in DOMAIN bundle.chunks}
  <2>1. ASSUME NEW r \in Readers
        PROVE  /\ readers[r].state = "ok" =>
                    Ids(readers[r].got) = readers[r].asked /\ ~Malformed(readers[r].asked)
               /\ readers[r].state = "error" =>
                    \/ Malformed(readers[r].asked) \/ faults > 0 \/ once # "new"
                    \/ ~(\A n \in DOMAIN readers[r].asked : readers[r].asked[n] \in known)
               /\ readers[r].state = "panic" => once # "new"
               /\ readers[r].late /\ readers[r].asked # <<>> => readers[r].state # "ok"
    <3>1. PICK reader : reader = readers[r]  OBVIOUS
    <3>2. reader \in Reader /\ ReaderOf(reader)  BY <3>1 DEF LookupInv, ReadersInv
    <3>3. reader.got \in Seq(Chunk) /\ reader.asked \in Seq(STRING)
      BY <3>2 DEF Reader
    <3>4. ASSUME reader.state = "ok" PROVE Ids(reader.got) = reader.asked
      <4>1. Len(reader.got) = Len(reader.asked)  BY <3>2, <3>4 DEF ReaderOf
      <4>2. \A n \in DOMAIN reader.got : reader.got[n].id = reader.asked[n]
        BY <3>2 DEF ReaderOf
      <4>3. DOMAIN reader.got = DOMAIN reader.asked  BY <3>3, <4>1
      <4>4. reader.asked = [n \in DOMAIN reader.asked |-> reader.asked[n]]  BY <3>3
      <4>5. QED  BY <4>2, <4>3, <4>4 DEF Ids
    <3>5. ASSUME NEW n \in DOMAIN reader.asked, Found(reader.asked[n]) = {}
          PROVE  reader.asked[n] \notin known
      BY <3>5 DEF Found
    <3>6. ASSUME reader.late, reader.asked # <<>> PROVE reader.state # "ok"
      <4>1. reader.got = <<>>  BY <3>2, <3>6 DEF ReaderOf
      <4>2. Len(reader.asked) # 0  BY <3>3, <3>6
      <4>3. QED  BY <3>2, <4>1, <4>2 DEF ReaderOf
    <3>7. QED  BY <3>1, <3>2, <3>4, <3>5, <3>6 DEF ReaderOf
  <2>2. QED  BY <2>1 DEF LookupsWholeOrFail
<1>2. QED  BY <1>1, LookupInvariant, PTL

=============================================================================
