------------------------------- MODULE Lookups -------------------------------
(***************************************************************************)
(* Loading chunks from the content store of an open bundle (LoadChunks of  *)
(* rag/content, Chunks of rag/content/sqlite) while other goroutines close *)
(* it.  A list of identifiers is loaded in batches, a row for each query.  *)
(* Close of the store closes the database and clears the pointer to it     *)
(* without a lock: a reader may find either.                               *)
(***************************************************************************)
EXTENDS Opening

CONSTANTS
  Readers,   \* goroutines that load chunks
  Requests,  \* the lists of identifiers they ask for; "" is a blank one
  MaxBatch   \* MaxBatchSize of the store

ASSUME LookupAssumption == Requests \subseteq Seq(STRING) /\ MaxBatch \in Nat \ {0}

VARIABLE readers  \* readers[r]: the request, what has been loaded, how far the batch goes

NoLookup == [state |-> "idle", asked |-> <<>>, got |-> <<>>, upto |-> 0, late |-> FALSE]

LookupInit == Init /\ readers = [r \in Readers |-> NoLookup]

\* Blank and repeated identifiers.
Malformed(ids) ==
  \/ \E n \in DOMAIN ids : ids[n] = ""
  \/ \E n, m \in DOMAIN ids : n # m /\ ids[n] = ids[m]

\* `late` remembers that somebody had already returned from Close.
Lookup(r, ids) ==
  /\ step = "returned" /\ cause = "none" /\ readers[r].state = "idle"
  /\ readers' = [readers EXCEPT ![r] =
       [NoLookup EXCEPT !.asked = ids,
                        !.state = IF Malformed(ids) THEN "error" ELSE "loading",
                        !.late = \E c \in Closers : closers[c] \notin {"idle", "waiting"}]]
  /\ UNCHANGED vars

IsOpen == "content" \in handles

MoreWholeBatches(start, count) == start + MaxBatch <= count

\* There is another batch, which may be short.
More(start, count) == start < count

\* The end of the batch that begins after start.
BatchEnd(start, count) == IF start + MaxBatch < count THEN start + MaxBatch ELSE count

\* The next batch: the store is asked whether it is open.
NextBatch(r) ==
  LET reader == readers[r] IN
  /\ reader.state = "loading" /\ More(Len(reader.got), Len(reader.asked))
  /\ \E s \in IF IsOpen THEN {"querying"} ELSE {"querying", "error"} :
       readers' = [readers EXCEPT
         ![r].state = s, ![r].upto = BatchEnd(Len(reader.got), Len(reader.asked))]
  /\ UNCHANGED vars

Found(id) == {n \in DOMAIN bundle.chunks : bundle.chunks[n].id = id}

\* One query.  The pointer is read again: of a closed database there is an error, of
\* a cleared pointer a panic.
QueryRow(r) ==
  LET reader == readers[r]  id == reader.asked[Len(reader.got) + 1] IN
  /\ reader.state = "querying" /\ Len(reader.got) < reader.upto
  /\ IF ~IsOpen
     THEN \E s \in {"error", "panic"} : readers' = [readers EXCEPT ![r].state = s]
     ELSE IF Found(id) = {}
     THEN readers' = [readers EXCEPT ![r].state = "error"]
     ELSE readers' = [readers EXCEPT
            ![r].got = Append(@, bundle.chunks[CHOOSE n \in Found(id) : TRUE])]
  /\ UNCHANGED vars

EndBatch(r) ==
  /\ readers[r].state = "querying" /\ Len(readers[r].got) = readers[r].upto
  /\ readers' = [readers EXCEPT ![r].state = "loading"]
  /\ UNCHANGED vars

Loaded(r) ==
  /\ readers[r].state = "loading" /\ ~More(Len(readers[r].got), Len(readers[r].asked))
  /\ readers' = [readers EXCEPT ![r].state = "ok"]
  /\ UNCHANGED vars

\* A query fails or the context is cancelled.
QueryFails(r) ==
  /\ readers[r].state = "querying" /\ faults < MaxFaults
  /\ readers' = [readers EXCEPT ![r].state = "error"]
  /\ faults' = faults + 1
  /\ UNCHANGED <<bundle, step, position, cause, relation, handles, closing>>

LookupNext ==
  \E r \in Readers :
    \/ \E ids \in Requests : Lookup(r, ids)
    \/ NextBatch(r) \/ QueryRow(r) \/ EndBatch(r) \/ Loaded(r) \/ QueryFails(r)

LookupSpec ==
  /\ LookupInit
  /\ [][(Next /\ UNCHANGED readers) \/ LookupNext]_<<vars, readers>>
  /\ Fairness

-----------------------------------------------------------------------------
(* Properties.                                                             *)

Ids(chunks) == [n \in DOMAIN chunks |-> chunks[n].id]

\* A load returns every chunk that was asked for in the order of the request, or
\* nothing; it fails only for a bad request, an unknown chunk, a fault or a closing
\* bundle, panics only in the last case, and never succeeds once somebody has
\* returned from Close.
LookupsWholeOrFail ==
  \A r \in Readers :
    LET reader == readers[r]
        known == {bundle.chunks[n].id : n \in DOMAIN bundle.chunks} IN
    /\ reader.state = "ok" => Ids(reader.got) = reader.asked /\ ~Malformed(reader.asked)
    /\ reader.state = "error" =>
         \/ Malformed(reader.asked) \/ faults > 0 \/ once # "new"
         \/ ~(\A n \in DOMAIN reader.asked : reader.asked[n] \in known)
    /\ reader.state = "panic" => once # "new"
    /\ reader.late /\ reader.asked # <<>> => reader.state # "ok"

=============================================================================
