------------------------------ MODULE Backends ------------------------------
(***************************************************************************)
(* Building and inspecting the three stores of a bundle: the SQLite        *)
(* content database (rag/content/sqlite), the SQLite vector index          *)
(* (rag/vector/sqliteexact) and the Bleve index (rag/lexical/bleve).  Each *)
(* builder fills a temporary sibling of its destination from producers,    *)
(* closes it, looks whether the destination is free and renames it there.  *)
(* Several calls may build at one destination; they fail, their processes  *)
(* die, and the store that was published may be altered.                   *)
(*                                                                         *)
(* Identifiers are numbers, ordered as their strings are; a digest is the  *)
(* data it is taken of.                                                    *)
(***************************************************************************)
EXTENDS Integers, Sequences, FiniteSets, Orderings

CONSTANTS
  Calls,        \* calls of Build, BuildEntries or BuildRecords for one destination
  InputsOf,     \* InputsOf[c]: what call c may be given
  BatchSize,    \* records of a Bleve batch
  PageSize,     \* records of a page of the Bleve inspection
  MaxFaults,    \* bound: operations that fail
  MaxAccidents  \* bound: crashes, and alterations of what is published

Kinds == {"content", "lexical", "vector"}

\* `valid` is what ValidateDocument, ValidateChunkSource and the checks for complete
\* identities and finite values say; `width` is the number of values of a vector.
Document == [id : Nat, valid : BOOLEAN]
Chunk    == [id : Nat, document : Nat, ordinal : Nat, valid : BOOLEAN]
Entry    == [id : Nat, chunk : Nat, document : Nat, kind : STRING, width : Nat, valid : BOOLEAN]

Tables == [documents : Seq(Document), chunks : Seq(Chunk), entries : Seq(Entry)]
TableNames == {"documents", "chunks", "entries"}
NoRows == [t \in TableNames |-> <<>>]

\* What the producers yield; `whole` if the entries are given to Build as a list,
\* which it sorts, and `expected` is the number of entries announced.
Input == [kind : Kinds, produced : Tables, whole : BOOLEAN, expected : Nat]

\* The content database has documents and chunks, an index has entries; no row has
\* the identifier 0.
ASSUME InputAssumption ==
  \A c \in Calls :
    /\ InputsOf[c] \subseteq Input
    /\ \A i \in InputsOf[c] :
         /\ i.whole => i.expected = Len(i.produced.entries)
         /\ \A t \in TableNames : i.produced[t] # <<>> => (i.kind = "content" <=> t # "entries")
         /\ \A t \in TableNames : \A n \in DOMAIN i.produced[t] : i.produced[t][n].id # 0
ASSUME SizeAssumption == BatchSize \in Nat \ {0} /\ PageSize \in Nat \ {0}
ASSUME BoundAssumption == MaxFaults \in Nat /\ MaxAccidents \in Nat

VARIABLES
  input,
  step,         \* step[c]: the next step of the call, or "idle", "returned", "dead"
  taken,        \* taken[c]: the rows accepted from the producers, counted and digested
  pending,      \* pending[c]: those of the open transaction or batch
  stored,       \* stored[c]: those committed to the temporary store
  identity,     \* identity[c]: the counts and digests recorded in it
  temporary,    \* the calls whose temporary store is on disk
  handles,      \* the calls that hold an open store
  outcome,      \* outcome[c]: what the call returned
  published,    \* the publications, the last of which is at the destination
  lingering,    \* temporaries a crash or a failing removal left behind
  reader,       \* an inspection of the destination
  faults, accidents

filling == <<taken, pending, stored, identity>>
bounds == <<faults, accidents>>
vars == <<input, step, filling, temporary, handles, outcome, published, lingering, reader, bounds>>

kind == input[CHOOSE c \in Calls : TRUE].kind

Idle == [state |-> "idle"]

Init ==
  /\ input \in [Calls -> UNION {InputsOf[c] : c \in Calls}]
  /\ \A c, d \in Calls : input[c] \in InputsOf[c] /\ input[c].kind = input[d].kind
  /\ step = [c \in Calls |-> "idle"]
  /\ taken = [c \in Calls |-> NoRows] /\ pending = [c \in Calls |-> <<>>]
  /\ stored = [c \in Calls |-> NoRows] /\ identity = [c \in Calls |-> NoRows]
  /\ temporary = {} /\ handles = {} /\ lingering = {}
  /\ outcome = [c \in Calls |-> "none"]
  /\ published = <<>>
  /\ reader = Idle
  /\ faults = 0 /\ accidents = 0

Absent == published = <<>>
Destination == published[Len(published)]

\* The steps of the builders after their arguments are checked.
Steps ==
  CASE kind = "content" -> <<"create", "prepare", "documents", "chunks", "identity",
                             "close", "stat", "rename", "sync">>
    [] kind = "vector"  -> <<"create", "prepare", "entries", "close", "stat", "rename",
                             "sync", "open">>
    [] kind = "lexical" -> <<"create", "prepare", "entries", "identity", "close", "stat",
                             "rename", "open">>

\* The call goes on to its next step, or returns after its last one.
Continue(c) ==
  LET at == CHOOSE n \in DOMAIN Steps : Steps[n] = step[c] IN
  IF at = Len(Steps)
  THEN /\ step' = [step EXCEPT ![c] = "returned"]
       /\ outcome' = [outcome EXCEPT ![c] = "ok"]
  ELSE /\ step' = [step EXCEPT ![c] = Steps[at + 1]]
       /\ UNCHANGED outcome

\* The deferred calls of a builder that returns an error: the store is closed and
\* the temporary removed, if it was not renamed; a failing removal is ignored.
Return(c, failed) ==
  /\ step' = [step EXCEPT ![c] = "returned"]
  /\ outcome' = [outcome EXCEPT ![c] = "error"]
  /\ pending' = [pending EXCEPT ![c] = <<>>]
  /\ handles' = handles \ {c}
  /\ \/ /\ temporary' = temporary \ {c} /\ faults' = faults + failed
        /\ UNCHANGED lingering
     \/ /\ c \in temporary /\ faults + failed < MaxFaults
        /\ lingering' = lingering \cup {c} /\ faults' = faults + failed + 1
        /\ UNCHANGED temporary
  /\ UNCHANGED <<input, taken, stored, identity, published, reader, accidents>>

Refuse(c) == Return(c, 0)

-----------------------------------------------------------------------------
(* Filling the temporary store.                                            *)

\* Every row has a key of its own.
Unique(rows) == \A n, m \in DOMAIN rows : rows[n].id = rows[m].id => n = m

\* The index builders want at least one entry; the Bleve builder looks for repeated
\* identifiers in a list before it sorts it.
Startable(c) ==
  kind # "content" =>
    /\ input[c].expected >= 1
    /\ kind = "lexical" /\ input[c].whole => Unique(input[c].produced.entries)

Start(c) ==
  /\ step[c] = "idle"
  /\ IF Startable(c)
     THEN step' = [step EXCEPT ![c] = Steps[1]] /\ UNCHANGED outcome
     ELSE step' = [step EXCEPT ![c] = "returned"] /\ outcome' = [outcome EXCEPT ![c] = "error"]
  /\ UNCHANGED <<input, filling, temporary, handles, published, lingering, reader, bounds>>

Create(c) ==
  /\ step[c] = "create" /\ Continue(c)
  /\ temporary' = temporary \cup {c}
  /\ UNCHANGED <<input, filling, handles, published, lingering, reader, bounds>>

\* The database or index is opened and has its schema.
Prepare(c) ==
  /\ step[c] = "prepare" /\ Continue(c)
  /\ handles' = handles \cup {c}
  /\ UNCHANGED <<input, filling, temporary, published, lingering, reader, bounds>>

\* The rows in the order of their identifiers; those of one identifier stay in theirs.
ById(rows) ==
  LET places == DOMAIN rows IN
  Kept(rows, InOrder(places, {p \in places \X places :
    \/ rows[p[1]].id < rows[p[2]].id
    \/ rows[p[1]].id = rows[p[2]].id /\ p[1] < p[2]}))

Stream(c, table) ==
  LET rows == input[c].produced[table] IN
  IF table = "entries" /\ input[c].whole THEN ById(rows) ELSE rows

RowsOf(rows) == {rows[n] : n \in DOMAIN rows}

NewKey(rows, row) == \A other \in RowsOf(rows) : other.id # row.id

HasDocument(documents, chunk) == \E document \in RowsOf(documents) : document.id = chunk.document

AdmissibleDocument(c, row) == row.valid /\ NewKey(taken[c].documents, row)

\* The parent is in the database, and both keys of the table are new.
AdmissibleChunk(c, row) ==
  /\ row.valid
  /\ HasDocument(stored[c].documents, row)
  /\ NewKey(taken[c].chunks, row)
  /\ \A other \in RowsOf(taken[c].chunks) :
       <<other.document, other.ordinal>> # <<row.document, row.ordinal>>

\* Strictly increasing identifiers, and vectors as wide as the first.
AdmissibleEntry(c, row) ==
  LET before == taken[c].entries IN
  /\ row.valid
  /\ before # <<>> => before[Len(before)].id < row.id
  /\ kind = "vector" => row.width > 0 /\ \A n \in DOMAIN before : before[n].width = row.width

Admissible(c, table, row) ==
  CASE table = "documents" -> AdmissibleDocument(c, row)
    [] table = "chunks"    -> AdmissibleChunk(c, row)
    [] table = "entries"   -> AdmissibleEntry(c, row)

\* A Bleve batch replaces records of the same identifier; SQLite inserts.
Commit(rows, batch) ==
  Kept(rows, Ascending({n \in DOMAIN rows : NewKey(batch, rows[n])})) \o batch

BatchFullOneLate(c, count) == kind = "lexical" /\ count > 1 /\ count % BatchSize = 1

\* A Bleve batch is committed as soon as it is full.
BatchFull(c, count) == kind = "lexical" /\ count % BatchSize = 0

\* The next row of the producer is refused, or counted, digested and written.
Take(c) ==
  LET table == step[c]
      rows  == taken[c][table]
      row   == Stream(c, table)[Len(rows) + 1]
      batch == Commit(pending[c], <<row>>) IN
  /\ table \in TableNames /\ Len(rows) < Len(Stream(c, table))
  /\ IF Admissible(c, table, row)
     THEN /\ taken' = [taken EXCEPT ![c][table] = Append(rows, row)]
          /\ IF BatchFull(c, Len(rows) + 1)
             THEN /\ stored' = [stored EXCEPT ![c][table] = Commit(@, batch)]
                  /\ pending' = [pending EXCEPT ![c] = <<>>]
             ELSE pending' = [pending EXCEPT ![c] = batch] /\ UNCHANGED stored
          /\ UNCHANGED <<input, step, identity, temporary, handles, outcome, published,
                         lingering, reader, bounds>>
     ELSE Refuse(c)

CommittedFullBatchesOnly(c, table) ==
  IF kind = "lexical" THEN stored[c][table] ELSE Commit(stored[c][table], pending[c])

\* The transaction, or the last batch, which may be short.
Committed(c, table) == Commit(stored[c][table], pending[c])

\* The producer is done: the entries are counted, and what is open is committed.
Complete(c) ==
  LET table == step[c] IN
  /\ table \in TableNames /\ Len(taken[c][table]) = Len(Stream(c, table))
  /\ IF table = "entries" /\ Len(taken[c].entries) # input[c].expected
     THEN Refuse(c)
     ELSE /\ Continue(c)
          /\ stored' = [stored EXCEPT ![c][table] = Committed(c, table)]
          /\ pending' = [pending EXCEPT ![c] = <<>>]
          /\ UNCHANGED <<input, taken, identity, temporary, handles, published, lingering,
                         reader, bounds>>

\* The content database needs a document and a chunk; the Bleve manifest has what
\* was counted and digested.
WriteIdentity(c) ==
  /\ step[c] = "identity"
  /\ IF kind = "content" /\ (taken[c].documents = <<>> \/ taken[c].chunks = <<>>)
     THEN Refuse(c)
     ELSE /\ Continue(c)
          /\ identity' = [identity EXCEPT ![c] = taken[c]]
          /\ UNCHANGED <<input, taken, pending, stored, temporary, handles, published,
                         lingering, reader, bounds>>

CloseStoreOnReturn(c) ==
  /\ step[c] = "close" /\ Continue(c)
  /\ UNCHANGED <<input, filling, temporary, handles, published, lingering, reader, bounds>>

CloseStore(c) ==
  /\ step[c] = "close" /\ Continue(c)
  /\ handles' = handles \ {c}
  /\ UNCHANGED <<input, filling, temporary, published, lingering, reader, bounds>>

-----------------------------------------------------------------------------
(* Publishing it.                                                          *)

Stat(c) ==
  /\ step[c] = "stat"
  /\ IF Absent
     THEN /\ Continue(c)
          /\ UNCHANGED <<input, filling, temporary, handles, published, lingering, reader, bounds>>
     ELSE Refuse(c)

\* A file is renamed onto another one, a directory onto no other.
Renames == Absent \/ kind # "lexical"

\* `beside` are the calls that have found the destination free as this one has.
Publication(c) ==
  [by |-> c, tables |-> stored[c], identity |-> identity[c], intact |-> TRUE,
   beside |-> {d \in Calls \ {c} : step[d] = "rename"}]

Rename(c) ==
  /\ step[c] = "rename"
  /\ IF Renames
     THEN /\ Continue(c)
          /\ published' = Append(published, Publication(c))
          /\ temporary' = temporary \ {c}
          /\ UNCHANGED <<input, filling, handles, lingering, reader, bounds>>
     ELSE Refuse(c)

Sync(c) ==
  /\ step[c] = "sync" /\ Continue(c)
  /\ UNCHANGED <<input, filling, temporary, handles, published, lingering, reader, bounds>>

\* All vectors of the index have one width, and there is one.
OneWidth(tables) ==
  Cardinality({tables.entries[n].width : n \in DOMAIN tables.entries}) = 1

\* The index is opened for the caller; the vector index is inspected first.
Open(c) ==
  /\ step[c] = "open"
  /\ IF kind = "vector" => OneWidth(Destination.tables)
     THEN /\ Continue(c)
          /\ handles' = handles \cup {c}
          /\ UNCHANGED <<input, filling, temporary, published, lingering, reader, bounds>>
     ELSE Refuse(c)

Running(c) == step[c] \notin {"idle", "returned", "dead"}

\* Any operation of a step fails, or its context is cancelled, or its producer fails.
Fail(c) == Running(c) /\ faults < MaxFaults /\ Return(c, 1)

-----------------------------------------------------------------------------
(* What happens to processes and disks.                                    *)

\* The process of the call dies.
Crash(c) ==
  /\ Running(c) /\ accidents < MaxAccidents
  /\ step' = [step EXCEPT ![c] = "dead"]
  /\ handles' = handles \ {c}
  /\ lingering' = lingering \cup ({c} \cap temporary)
  /\ accidents' = accidents + 1
  /\ UNCHANGED <<input, filling, temporary, outcome, published, reader, faults>>

\* What is published loses a row, or has one altered: 0 is no identifier of an input.
Alter(table) ==
  /\ ~Absent /\ Destination.intact /\ Destination.tables[table] # <<>>
  /\ accidents < MaxAccidents /\ accidents' = accidents + 1
  /\ LET rows == Destination.tables[table]  last == Len(rows) IN
     \E left \in {SubSeq(rows, 1, last - 1), [rows EXCEPT ![last].id = 0]} :
       published' = [published EXCEPT ![Len(published)].tables[table] = left,
                                      ![Len(published)].intact = FALSE]
  /\ UNCHANGED <<input, step, filling, temporary, handles, outcome, lingering, reader, faults>>

-----------------------------------------------------------------------------
(* Inspecting what is published: the digests of the rows in their order.   *)

\* Content rows are read in the order of their ordinals, chunks with their document,
\* entries by identifier.
Canonical(tables) ==
  LET chunks == tables.chunks IN
  tables.documents
    \o Kept(chunks, Ascending({n \in DOMAIN chunks : HasDocument(tables.documents, chunks[n])}))
    \o ById(tables.entries)

\* The inspection has opened the store and is not affected by what is renamed over it.
BeginInspection ==
  /\ reader = Idle /\ ~Absent
  /\ reader' = [state |-> "reading", index |-> Destination, rows |-> <<>>]
  /\ UNCHANGED <<input, step, filling, temporary, handles, outcome, published, lingering, bounds>>

\* inspectDB and NewIdentity; the Bleve manifest gives the number of records.
Readable(index) ==
  CASE kind = "content" -> LET documents == Len(index.tables.documents) IN
                           documents > 0 /\ Len(Canonical(index.tables)) > documents
    [] kind = "vector"  -> OneWidth(index.tables)
    [] kind = "lexical" -> Len(index.tables.entries) = Len(index.identity.entries)

PageFromLastRow(index, from) ==
  LET rows == Canonical(index.tables) IN
  IF kind # "lexical" THEN rows
  ELSE SubSeq(rows, IF from = 0 THEN 1 ELSE from,
              IF from + PageSize < Len(rows) THEN from + PageSize ELSE Len(rows))

\* Bleve is asked for a page from an offset, SQLite for all rows.
Page(index, from) ==
  LET rows == Canonical(index.tables) IN
  IF kind # "lexical" THEN rows
  ELSE SubSeq(rows, from + 1, IF from + PageSize < Len(rows) THEN from + PageSize ELSE Len(rows))

ReadPage ==
  /\ reader.state = "reading"
  /\ IF ~Readable(reader.index)
     THEN reader' = [reader EXCEPT !.state = "failed"]
     ELSE LET rows == reader.rows \o Page(reader.index, Len(reader.rows)) IN
          reader' = [reader EXCEPT
            !.rows = rows,
            !.state = IF Len(rows) < Len(Canonical(reader.index.tables)) THEN "reading" ELSE "inspected"]
  /\ UNCHANGED <<input, step, filling, temporary, handles, outcome, published, lingering, bounds>>

-----------------------------------------------------------------------------

Next ==
  \/ \E c \in Calls :
       \/ Start(c) \/ Create(c) \/ Prepare(c) \/ Take(c) \/ Complete(c) \/ WriteIdentity(c)
       \/ CloseStore(c) \/ Stat(c) \/ Rename(c) \/ Sync(c) \/ Open(c)
       \/ Fail(c) \/ Crash(c)
  \/ \E table \in TableNames : Alter(table)
  \/ BeginInspection \/ ReadPage

Spec == Init /\ [][Next]_vars

-----------------------------------------------------------------------------
(* Properties.                                                             *)

\* What CalculateContentDigest, given the lists in memory, says of the store before
\* it is built.
Planned(c) == Canonical(input[c].produced)

\* The variables have their types; rows are open in a transaction only while a table
\* is filled, and never a full Bleve batch of them.
TypeOK ==
  /\ input \in [Calls -> Input] /\ taken \in [Calls -> Tables] /\ stored \in [Calls -> Tables]
  /\ step \in [Calls -> {"idle", "create", "prepare", "documents", "chunks", "entries", "identity",
                         "close", "stat", "rename", "sync", "open", "returned", "dead"}]
  /\ \A c \in Calls :
       /\ pending[c] # <<>> => step[c] \in TableNames \cup {"dead"}
       /\ kind = "lexical" => Len(pending[c]) < BatchSize
  /\ temporary \subseteq Calls /\ handles \subseteq Calls /\ lingering \subseteq Calls
  /\ outcome \in [Calls -> {"none", "ok", "error"}]
  /\ faults \in 0 .. MaxFaults /\ accidents \in 0 .. MaxAccidents

\* What is published is all that one call was given, each row once and each chunk
\* with its document, and carries the identity of just that; a call that has
\* succeeded has published, and replaced another's publication only if it is a file
\* and both had found the destination free.
PublishedWhole ==
  /\ \A n \in DOMAIN published :
       LET p == published[n] IN
       p.intact =>
         /\ Canonical(p.tables) = Planned(p.by)
         /\ kind # "vector" => Canonical(p.identity) = Planned(p.by)
         /\ \A table \in TableNames : Unique(p.tables[table])
         /\ \A r \in RowsOf(p.tables.chunks) : \E d \in RowsOf(p.tables.documents) : d.id = r.document
  /\ \A n \in 2 .. Len(published) :
       kind # "lexical" /\ \E m \in 1 .. n - 1 : published[n].by \in published[m].beside
  /\ \A c \in Calls : outcome[c] = "ok" => \E n \in DOMAIN published : published[n].by = c

\* A temporary belongs to a running call unless a crash or a failing removal left
\* it; a store is open in a running call or in the hands of a caller, and never is
\* one renamed that is still open.
TemporariesAccounted ==
  /\ \A c \in temporary \ lingering : Running(c)
  /\ \A c \in handles :
       IF step[c] = "returned" THEN outcome[c] = "ok" /\ kind # "content"
       ELSE Running(c) /\ c \in temporary /\ step[c] \notin {"stat", "rename"}
  /\ Cardinality(lingering) <= faults + accidents

\* Inspection computes the digest that was planned in memory just when nothing was
\* altered since, wherever the boundaries of the pages fall.
InspectionDecides ==
  /\ reader.state = "inspected" => (reader.rows = Planned(reader.index.by) <=> reader.index.intact)
  /\ reader.state = "failed" => ~reader.index.intact

=============================================================================
