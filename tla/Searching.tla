------------------------------ MODULE Searching ------------------------------
(***************************************************************************)
(* Searching a published index.  The vector index scans its rows, in       *)
(* whatever order the database yields them, and keeps the best in a heap   *)
(* of the size asked for (rag/vector/sqliteexact); Bleve is asked for that *)
(* many in the declared order (rag/lexical/bleve).  A filter of            *)
(* rag/retrieval may stand before the index: by the kind of representation *)
(* it asks for all of them, by the role of the source for a fixed number.  *)
(* rag/vector, which sorts everything in memory, is the reference.         *)
(***************************************************************************)
EXTENDS Backends

CONSTANTS
  Queries,   \* width, and the score of each entry
  Filters,
  Limits     \* how many hits are asked for

Ids == {0} \cup UNION {{e.id : e \in RowsOf(i.produced.entries)} : i \in UNION {InputsOf[c] : c \in Calls}}

Query == [width : Nat, score : [Ids -> Nat]]

\* `allowed` are the kinds of representations, or the documents of the allowed roles;
\* `depth` is how many hits the filter by role asks for.
Filter == [by : {"none", "kind", "role"}, kinds : SUBSET STRING, documents : SUBSET Nat, depth : Nat]

ASSUME QueryAssumption == Queries \subseteq Query
ASSUME FilterAssumption == Filters \subseteq Filter /\ \A f \in Filters : f.by = "role" => f.depth >= 1
ASSUME LimitAssumption == Limits \subseteq Nat \ {0}

VARIABLES
  phase,     \* "idle", "scanning", "found" or "failed"
  asked,     \* the index that was opened, the query, the filter and the limit
  unscanned, \* the rows the database has still to yield
  heap,      \* the best hits so far
  hits       \* what is returned

searchVars == <<phase, asked, unscanned, heap, hits>>

SearchInit ==
  /\ Init
  /\ phase = "idle" /\ asked = <<>> /\ unscanned = {} /\ heap = {} /\ hits = <<>>

Hit(row) == [id |-> row.id, chunk |-> row.chunk, document |-> row.document, kind |-> row.kind,
             score |-> asked.query.score[row.id]]

\* By score, and a tie by document, chunk and representation.
HitRanksBefore(left, right) ==
  \/ left.score > right.score
  \/ /\ left.score = right.score
     /\ \/ left.document < right.document
        \/ /\ left.document = right.document
           /\ \/ left.chunk < right.chunk
              \/ left.chunk = right.chunk /\ left.id < right.id

Before(h, all) == {g \in all : HitRanksBefore(g, h)}

Ranked(all) == InOrder(all, {p \in all \X all : HitRanksBefore(p[1], p[2])})

Entries(index) == RowsOf(index.tables.entries)

\* The filter by kind, given the representations of the bundle, must allow one of
\* them, the filter by role one of the documents.
Allows(filter, index) ==
  CASE filter.by = "kind" -> \E row \in Entries(index) : row.kind \in filter.kinds
    [] filter.by = "role" -> filter.documents # {}
    [] filter.by = "none" -> TRUE

\* A searcher whose index is open is not affected by what is renamed over it.  (There
\* is an inspection or a search: neither changes what the other reads.)
BeginSearch(query, filter, limit) ==
  /\ phase = "idle" /\ reader = Idle /\ ~Absent /\ kind # "content" /\ Allows(filter, Destination)
  /\ phase' = "scanning"
  /\ asked' = [index |-> Destination, query |-> query, filter |-> filter, limit |-> limit]
  /\ unscanned' = Entries(Destination)
  /\ UNCHANGED <<heap, hits>>

\* The kinds are filtered after all hits, and the roles after a fixed number.
Depth ==
  CASE asked.filter.by = "kind" -> Cardinality(Entries(asked.index))
    [] asked.filter.by = "role" -> asked.filter.depth
    [] asked.filter.by = "none" -> asked.limit

\* The root of the heap.
Worst == CHOOSE h \in heap : \A g \in heap \ {h} : HitRanksBefore(g, h)

DisplacesByScore(hit) == hit.score > Worst.score

Displaces(hit) == HitRanksBefore(hit, Worst)

Scan ==
  /\ phase = "scanning" /\ kind = "vector"
  /\ \E row \in unscanned :
       /\ unscanned' = unscanned \ {row}
       /\ IF row.width # asked.query.width
          THEN phase' = "failed" /\ heap' = {}
          ELSE /\ heap' = IF Cardinality(heap) < Depth THEN heap \cup {Hit(row)}
                          ELSE IF Displaces(Hit(row)) THEN (heap \ {Worst}) \cup {Hit(row)}
                          ELSE heap
               /\ UNCHANGED phase
  /\ UNCHANGED <<asked, hits>>

Eligible(hit) ==
  CASE asked.filter.by = "kind" -> hit.kind \in asked.filter.kinds
    [] asked.filter.by = "role" -> hit.document \in asked.filter.documents
    [] asked.filter.by = "none" -> TRUE

\* The filter takes the eligible hits in their order until it has enough.
Filtered(ranked) ==
  LET eligible == Kept(ranked, Ascending({n \in DOMAIN ranked : Eligible(ranked[n])})) IN
  SubSeq(eligible, 1, IF Len(eligible) < asked.limit THEN Len(eligible) ELSE asked.limit)

EndScan ==
  /\ phase = "scanning" /\ kind = "vector" /\ unscanned = {}
  /\ phase' = "found"
  /\ hits' = Filtered(Ranked(heap))
  /\ UNCHANGED <<asked, unscanned, heap>>

\* The rows that can be hits: the vector index scores all, Bleve those that match.
Matching == {h \in {Hit(row) : row \in Entries(asked.index)} : kind = "lexical" => h.score > 0}

\* Bleve cuts the hits to the number it is asked for in the order it is told.
SearchEngine ==
  /\ phase = "scanning" /\ kind = "lexical"
  /\ phase' = "found"
  /\ heap' = {h \in Matching : Cardinality(Before(h, Matching)) < Depth}
  /\ hits' = Filtered(Ranked(heap'))
  /\ unscanned' = {}
  /\ UNCHANGED asked

SearchNext ==
  \/ \E q \in Queries, f \in Filters, n \in Limits : BeginSearch(q, f, n)
  \/ Scan \/ EndScan \/ SearchEngine

\* The stores are built, published, altered and searched side by side.
ServedNext ==
  \/ Next /\ UNCHANGED searchVars /\ (phase # "idle" => UNCHANGED reader)
  \/ SearchNext /\ UNCHANGED vars

ServedSpec == SearchInit /\ [][ServedNext]_<<vars, searchVars>>

-----------------------------------------------------------------------------
(* Properties.                                                             *)

\* The hits are eligible and in the common order, and an eligible row that is not
\* among them is behind a full list of better ones, or, for the filter by role
\* alone, behind as many rows as the filter looks at: neither the order of the
\* scan, nor ties at the end of the heap, nor the filter by kind hide one.
SearchIsExact ==
  phase = "found" =>
    LET returned == RowsOf(hits) IN
    /\ Len(hits) <= asked.limit /\ returned \subseteq {h \in Matching : Eligible(h)}
    /\ \A n \in 2 .. Len(hits) : HitRanksBefore(hits[n - 1], hits[n])
    /\ \A h \in Matching \ returned :
         Eligible(h) =>
           \/ Len(hits) = asked.limit /\ returned \subseteq Before(h, Matching)
           \/ asked.filter.by = "role" /\ Cardinality(Before(h, Matching)) >= asked.filter.depth

=============================================================================
