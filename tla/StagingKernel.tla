---------------------------- MODULE StagingKernel ----------------------------
(***************************************************************************)
(* The admission boundary of BuildStream: the SQLite staging relation that *)
(* copies caller batches of documents, chunks, representations and vectors *)
(* (rag/indexbundle/staging_kernel.go), the seal that plans the identity   *)
(* of the bundle, and the payloads BuildStream derives from the sealed     *)
(* relation (rag/indexbundle/build_stream.go).                             *)
(*                                                                         *)
(* A batch is admitted row by row inside one transaction, so the in-memory *)
(* counters and phase of the kernel and the committed rows are separate    *)
(* state.  The producer may ignore the error of a call and go on, and it   *)
(* may call the Stager again from the ObserveStage callbacks that run      *)
(* between the seal and the payloads.                                      *)
(***************************************************************************)
EXTENDS Integers, Sequences, FiniteSets

CONSTANTS
  Ids,           \* identifiers of documents, chunks and representations
  BatchSize,     \* StreamInput.BatchSize
  HasEmbedding,  \* whether StreamInput.Embedding is set
  Batches,       \* Batches[t]: the batches callers offer for table t
  NoPlan

stagingDocuments       == 0
stagingChunks          == 1
stagingRepresentations == 2
stagingVectors         == 3
stagingSealed          == 4

Tables  == stagingDocuments .. stagingVectors
Ordered == stagingDocuments .. stagingRepresentations   \* have an ordinal column

(***************************************************************************)
(* An item is what a caller offers: `parent` is the referenced document,   *)
(* chunk or representation, `slot` is Chunk.Ordinal, and `valid` says      *)
(* whether the per-item validation (rag.Validate*, chunker name, vector    *)
(* model, dimensions, finiteness) accepts it.  A row is a stored item with *)
(* its position in the table; a vector is keyed by its representation.     *)
(***************************************************************************)
Item == [id : Ids, parent : Ids, slot : Nat, valid : BOOLEAN]
Row  == [id : Ids, parent : Ids, slot : Nat, ordinal : Nat]

Relation == [Tables -> SUBSET Row]

Plan == [counts : [Tables -> Nat], relation : Relation,
         lexical : SUBSET Row, vector : SUBSET Row]

PayloadNames == {"chunks", "representations", "content", "lexical", "vectors"}

Payload == [name : PayloadNames, read : Seq(SUBSET Row)]

ASSUME BatchSizeAssumption == BatchSize \in Nat \ {0}
ASSUME EmbeddingAssumption == HasEmbedding \in BOOLEAN
ASSUME BatchesAssumption   == Batches \in [Tables -> SUBSET Seq(Item)]
ASSUME NoPlanAssumption    == NoPlan \notin Plan

VARIABLES
  phase,      \* stagingKernel.phase
  count,      \* stagingKernel.documents, .chunks, .reps, .vectors
  rows,       \* committed rows of the four SQLite tables
  tx,         \* the open transaction of the running Add call
  cancelled,  \* ctx.Err() # nil
  plan,       \* the buildPlan seal returned
  payload,    \* the payloads written so far, in order
  closed      \* BuildStream returned and the kernel is closed

vars == <<phase, count, rows, tx, cancelled, plan, payload, closed>>

NoTx == [open |-> FALSE, table |-> 0, batch |-> <<>>, next |-> 1, pending |-> {}]

Init ==
  /\ phase = stagingDocuments
  /\ count = [t \in Tables |-> 0]
  /\ rows = [t \in Tables |-> {}]
  /\ tx = NoTx
  /\ cancelled = FALSE
  /\ plan = NoPlan
  /\ payload = <<>>
  /\ closed = FALSE

-----------------------------------------------------------------------------
(* Admission of one batch.                                                 *)

RequireBatchLengthOnly(t, n) ==
  /\ ~cancelled
  /\ n >= 1 /\ n <= BatchSize

RequireBatch(t, n) ==
  /\ ~cancelled
  /\ phase # stagingSealed /\ t >= phase /\ t <= phase + 1
  /\ t > phase => count[phase] > 0
  /\ n >= 1 /\ n <= BatchSize

\* A refused call changes nothing, so only the accepted call is a step.
BeginBatch(t, batch) ==
  /\ ~tx.open /\ ~closed
  /\ RequireBatch(t, Len(batch))
  /\ tx' = [open |-> TRUE, table |-> t, batch |-> batch, next |-> 1, pending |-> {}]
  /\ UNCHANGED <<phase, count, rows, cancelled, plan, payload, closed>>

AddDocuments(batch)       == BeginBatch(stagingDocuments, batch)
AddChunks(batch)          == BeginBatch(stagingChunks, batch)
AddRepresentations(batch) == BeginBatch(stagingRepresentations, batch)
AddVectors(batch)         == HasEmbedding /\ BeginBatch(stagingVectors, batch)

ParentStagedUnchecked(t, item) == TRUE

\* The parent lookup of addChunks and addRepresentations, the foreign key of vector.
ParentStaged(t, item) ==
  t # stagingDocuments => \E r \in rows[t - 1] : r.id = item.parent

\* The primary key and UNIQUE constraints of the four tables.
Conflict(t, row, stored) ==
  \/ row.id = stored.id
  \/ t \in Ordered /\ row.ordinal = stored.ordinal
  \/ t = stagingChunks /\ row.parent = stored.parent /\ row.slot = stored.slot

Admissible(t, item, row, stored) ==
  /\ item.valid
  /\ ParentStaged(t, item)
  /\ t = stagingVectors => item.parent = item.id
  /\ \A s \in stored : ~Conflict(t, row, s)

NextRowOffByOne(t, item) ==
  [id |-> item.id, parent |-> item.parent, slot |-> item.slot,
   ordinal |-> count[t] + tx.next - 2]

\* start+index, with start the committed count when the call began.
NextRow(t, item) ==
  [id |-> item.id, parent |-> item.parent, slot |-> item.slot,
   ordinal |-> count[t] + tx.next - 1]

InsertRow ==
  LET t == tx.table  item == tx.batch[tx.next]  row == NextRow(t, item) IN
  /\ tx.open /\ ~cancelled
  /\ tx.next <= Len(tx.batch)
  /\ Admissible(t, item, row, rows[t] \cup tx.pending)
  /\ tx' = [tx EXCEPT !.next = @ + 1, !.pending = @ \cup {row}]
  /\ UNCHANGED <<phase, count, rows, cancelled, plan, payload, closed>>

RollbackBatchKeepingRows ==
  /\ tx.open
  /\ rows' = [rows EXCEPT ![tx.table] = @ \cup tx.pending]
  /\ tx' = NoTx
  /\ UNCHANGED <<phase, count, cancelled, plan, payload, closed>>

RollbackBatchAfterCounting ==
  /\ tx.open
  /\ count' = IF tx.next > Len(tx.batch)
              THEN [count EXCEPT ![tx.table] = @ + Len(tx.batch)] ELSE count
  /\ tx' = NoTx
  /\ UNCHANGED <<phase, rows, cancelled, plan, payload, closed>>

\* An inadmissible item, a cancelled context, or any SQLite error up to and
\* including the commit rolls the whole batch back.
RollbackBatch ==
  /\ tx.open
  /\ tx' = NoTx
  /\ UNCHANGED <<phase, count, rows, cancelled, plan, payload, closed>>

\* addDocuments leaves the phase as it is, the other three set it.
CommitBatch ==
  LET t == tx.table IN
  /\ tx.open /\ ~cancelled
  /\ tx.next > Len(tx.batch)
  /\ rows' = [rows EXCEPT ![t] = @ \cup tx.pending]
  /\ count' = [count EXCEPT ![t] = @ + Len(tx.batch)]
  /\ phase' = IF t = stagingDocuments THEN phase ELSE t
  /\ tx' = NoTx
  /\ UNCHANGED <<cancelled, plan, payload, closed>>

Cancel ==
  /\ ~cancelled /\ ~closed
  /\ cancelled' = TRUE
  /\ UNCHANGED <<phase, count, rows, tx, plan, payload, closed>>

-----------------------------------------------------------------------------
(* The seal and what is derived from the sealed relation.                  *)

\* representation JOIN chunk JOIN document, what the lexical index is built from.
LexicalRecords ==
  {r \in rows[stagingRepresentations] :
     \E c \in rows[stagingChunks] :
       /\ c.id = r.parent
       /\ \E d \in rows[stagingDocuments] : d.id = c.parent}

\* vector JOIN representation JOIN chunk, what the vector index is built from.
VectorRecords ==
  {v \in rows[stagingVectors] :
     \E r \in rows[stagingRepresentations] :
       /\ r.id = v.parent
       /\ \E c \in rows[stagingChunks] : c.id = r.parent}

wantPhase == IF HasEmbedding THEN stagingVectors ELSE stagingRepresentations

SealableAnyVectorCount ==
  /\ ~cancelled
  /\ phase = wantPhase
  /\ \A t \in Ordered : count[t] > 0

Sealable ==
  /\ ~cancelled
  /\ phase = wantPhase
  /\ \A t \in Ordered : count[t] > 0
  /\ HasEmbedding => count[stagingVectors] = count[stagingRepresentations]

\* The plan holds the digests of the relation; the relation itself stands for them.
Seal ==
  /\ ~tx.open /\ ~closed /\ plan = NoPlan
  /\ Sealable
  /\ plan' = [counts |-> count, relation |-> rows,
              lexical |-> LexicalRecords, vector |-> VectorRecords]
  /\ phase' = stagingSealed
  /\ UNCHANGED <<count, rows, tx, cancelled, payload, closed>>

PayloadOrder ==
  IF HasEmbedding
  THEN <<"chunks", "representations", "content", "lexical", "vectors">>
  ELSE <<"chunks", "representations", "content", "lexical">>

\* What the query behind each payload reads.
Read(name) ==
  CASE name = "chunks"          -> <<rows[stagingChunks]>>
    [] name = "representations" -> <<rows[stagingRepresentations]>>
    [] name = "content"         -> <<rows[stagingDocuments], rows[stagingChunks]>>
    [] name = "lexical"         -> <<LexicalRecords>>
    [] name = "vectors"         -> <<VectorRecords>>

\* Payload writers read the relation only when it is sealed.
WritePayload ==
  /\ ~tx.open /\ ~closed /\ ~cancelled
  /\ phase = stagingSealed
  /\ Len(payload) < Len(PayloadOrder)
  /\ LET name == PayloadOrder[Len(payload) + 1] IN
     payload' = Append(payload, [name |-> name, read |-> Read(name)])
  /\ UNCHANGED <<phase, count, rows, tx, cancelled, plan, closed>>

\* Produce or seal failed, a payload failed, or every payload is written: the
\* deferred close runs on every return path.
Close ==
  /\ ~tx.open /\ ~closed
  /\ closed' = TRUE
  /\ UNCHANGED <<phase, count, rows, tx, cancelled, plan, payload>>

Next ==
  \/ \E b \in Batches[stagingDocuments] : AddDocuments(b)
  \/ \E b \in Batches[stagingChunks] : AddChunks(b)
  \/ \E b \in Batches[stagingRepresentations] : AddRepresentations(b)
  \/ \E b \in Batches[stagingVectors] : AddVectors(b)
  \/ InsertRow
  \/ RollbackBatch
  \/ CommitBatch
  \/ Cancel
  \/ Seal
  \/ WritePayload
  \/ Close

Spec == Init /\ [][Next]_vars

-----------------------------------------------------------------------------
(* Properties.                                                             *)

TxType ==
  [open : BOOLEAN, table : Tables, batch : Seq(Item), next : Nat \ {0},
   pending : SUBSET Row]

\* The kernel's fields, tables and transaction have their types.
TypeOK ==
  /\ phase \in stagingDocuments .. stagingSealed
  /\ count \in [Tables -> Nat]
  /\ rows \in Relation
  /\ tx \in TxType
  /\ cancelled \in BOOLEAN
  /\ plan \in Plan \cup {NoPlan}
  /\ payload \in Seq(Payload)
  /\ closed \in BOOLEAN

\* However batches fail, each in-memory counter of the kernel equals the
\* number of rows that are committed in its table.
CountsMatchRows == \A t \in Tables : count[t] = Cardinality(rows[t])

\* The ordinals of documents, chunks and representations are 0, 1, ... without
\* gap or repetition: the ORDER BY ordinal of every digest and payload is the
\* order of admission, whatever batches were rolled back in between.
DenseOrdinals ==
  \A t \in Ordered :
    /\ {r.ordinal : r \in rows[t]} = 0 .. (count[t] - 1)
    /\ \A r, s \in rows[t] : r.ordinal = s.ordinal => r = s

\* Every committed row below the documents has its parent committed, and no
\* identifier or (document, Chunk.Ordinal) pair is stored twice.
Lineage ==
  \A t \in Tables : \A r \in rows[t] :
    /\ t # stagingDocuments => \E p \in rows[t - 1] : p.id = r.parent
    /\ \A s \in rows[t] : r = s \/ ~Conflict(t, r, s)

\* A sealed relation is complete: no representation is lost by the joins the
\* lexical index is built from, and with an embedding identity the vectors are
\* those of the representations, one each, although seal compares counts only.
SealedRelationComplete ==
  plan # NoPlan =>
    LET reps == plan.relation[stagingRepresentations] IN
    /\ reps # {}
    /\ plan.lexical = reps
    /\ HasEmbedding => {v.id : v \in plan.vector} = {r.id : r \in reps}

\* What was planned, digested and counted by seal is what every payload holds,
\* even when the caller keeps calling the Stager between the payloads.
PayloadsMatchPlan ==
  \A i \in 1 .. Len(payload) :
    LET p == payload[i] IN
    /\ p.name = "chunks" => p.read = <<plan.relation[stagingChunks]>>
    /\ p.name = "representations" => p.read = <<plan.relation[stagingRepresentations]>>
    /\ p.name = "content" =>
         p.read = <<plan.relation[stagingDocuments], plan.relation[stagingChunks]>>
    /\ p.name = "lexical" => p.read = <<plan.lexical>>
    /\ p.name = "vectors" => p.read = <<plan.vector>>

\* Once a table has rows, the tables before it never change again, and after
\* the seal none does.
EarlierTablesFrozen ==
  [][\A t \in Tables :
       rows'[t] # rows[t] =>
         /\ phase # stagingSealed
         /\ \A u \in Tables : u > t => rows[u] = {} /\ rows'[u] = {}]_vars

=============================================================================
