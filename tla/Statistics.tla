------------------------------ MODULE Statistics ------------------------------
(***************************************************************************)
(* Measure (rag/indexbundle/stats.go) and the rollup of an inspection      *)
(* (inspect.go): what a person is told of the chunks the chunkers made.    *)
(* Both are functions of a list of chunks; a rune takes one byte here, and *)
(* page furniture, which is a matter of texts, is left out.                *)
(***************************************************************************)
EXTENDS Chunking, SequencesExt

CONSTANTS Options, DefaultBuckets, DefaultShortRunes, AtLimitSlack

Bucket == [low : Nat, high : Nat]

StatisticsOptions == [buckets : Seq(Bucket), shortRunes : Int, atLimitRunes : Int]

ASSUME OptionsAssumption ==
  /\ Options \subseteq StatisticsOptions
  /\ DefaultBuckets \in Seq(Bucket) /\ {DefaultShortRunes, AtLimitSlack} \subseteq Nat

\* What is not set has its default.
Resolved(options, maximum) ==
  [buckets |-> IF options.buckets = <<>> THEN DefaultBuckets ELSE options.buckets,
   shortRunes |-> IF options.shortRunes <= 0 THEN DefaultShortRunes ELSE options.shortRunes,
   atLimitRunes |-> IF options.atLimitRunes <= 0 THEN Larger(1, maximum - AtLimitSlack)
                                                 ELSE options.atLimitRunes]

RunesOf(chunk) == chunk.end - chunk.start

\* The chunks of a document in the order of their ordinals, wherever they are listed.
ChunksOf(list, doc) ==
  SortSeq(SelectSeq(list, LAMBDA c : c.document = doc), LAMBDA b, c : b.ordinal < c.ordinal)

\* Maps each element of a sequence but the first to the end of the one before it.
EndsBefore(group) ==
  [c \in {group[n] : n \in 2 .. Len(group)} |->
     group[(CHOOSE n \in DOMAIN group : group[n] = c) - 1].end]

PredecessorEndsByPosition(list) == EndsBefore(list)

\* Where the chunk before it in its document ends, for each chunk that has one.
PredecessorEnds(list) ==
  LET ends == [d \in {c.document : c \in Range(list)} |-> EndsBefore(ChunksOf(list, d))] IN
  [c \in UNION {DOMAIN ends[d] : d \in DOMAIN ends} |-> ends[c.document][c]]

OverlapOf(ends, c) == IF c \in DOMAIN ends THEN Larger(0, ends[c] - c.start) ELSE 0

SignalsOf(ends, c, options) ==
  LET short == RunesOf(c) < options.shortRunes
      noOverlap == c \in DOMAIN ends /\ OverlapOf(ends, c) = 0 IN
  {s \in {"at-limit", "short", "no-overlap", "heading-cut"} :
     CASE s = "at-limit"    -> RunesOf(c) >= options.atLimitRunes
       [] s = "short"       -> short
       [] s = "no-overlap"  -> noOverlap
       [] s = "heading-cut" -> short /\ noOverlap}

Covers(bucket, runes) == bucket.low <= runes /\ runes <= bucket.high

\* Each count in the first bucket that covers it; what none covers is uncounted.
Histogram(counts, buckets) ==
  LET place(n) == {b \in DOMAIN buckets : Covers(buckets[b], counts[n])}
      first(n, b) == b \in place(n) /\ \A a \in place(n) : b <= a IN
  [bars |-> [b \in DOMAIN buckets |-> Cardinality({n \in DOMAIN counts : first(n, b)})],
   uncounted |-> Cardinality({n \in DOMAIN counts : place(n) = {}})]

\* Nearest rank.
Percentile(counts, p) ==
  LET rank == (p * Len(counts) + 99) \div 100 IN
  SortSeq(counts, <)[IF rank < 1 THEN 1 ELSE Smaller(rank, Len(counts))]

\* The counts of a signal: its chunks, and the documents that hold one.
Summary(signals, s) ==
  [chunks |-> Cardinality({c \in DOMAIN signals : s \in signals[c]}),
   documents |-> Cardinality({c.document : c \in {c \in DOMAIN signals : s \in signals[c]}})]

MeasureChunks(list, maximum, given) ==
  LET options == Resolved(given, maximum)
      ends == PredecessorEnds(list)
      counts == [n \in DOMAIN list |-> RunesOf(list[n])]
      signals == [c \in Range(list) |-> SignalsOf(ends, c, options)] IN
  [overlap |-> [c \in Range(list) |-> OverlapOf(ends, c)],
   signals |-> signals,
   histogram |-> Histogram(counts, options.buckets),
   percentiles |-> IF list = <<>> THEN <<>>
                   ELSE [p \in {25, 50, 75, 95} |-> Percentile(counts, p)],
   summary |-> [s \in {"at-limit", "short", "no-overlap", "heading-cut"} |-> Summary(signals, s)]]

\* The rollup of each document; a minimum of zero is one that is not set yet.
JoinDocuments(list) ==
  FoldLeft(LAMBDA documents, c :
             LET runes == RunesOf(c) IN
             IF c.document \notin DOMAIN documents
             THEN [d \in DOMAIN documents \cup {c.document} |->
                     IF d \in DOMAIN documents THEN documents[d]
                     ELSE [count |-> 1, total |-> runes, minimum |-> runes, maximum |-> runes,
                           first |-> c.ordinal, last |-> c.ordinal]]
             ELSE [documents EXCEPT ![c.document] =
                     [count |-> @.count + 1, total |-> @.total + runes,
                      minimum |-> IF runes < @.minimum \/ @.minimum = 0 THEN runes ELSE @.minimum,
                      maximum |-> Larger(@.maximum, runes),
                      first |-> Smaller(@.first, c.ordinal), last |-> Larger(@.last, c.ordinal)]],
           [d \in {} |-> {}], list)

-----------------------------------------------------------------------------
(* Properties.                                                             *)

\* A bundle of two documents with these chunks, listed one after the other, in turn,
\* and from the end.
ListOf(d) ==
  [n \in DOMAIN chunks |-> [document |-> d, ordinal |-> n - 1,
                            start |-> chunks[n].start, end |-> chunks[n].end]]
Listings ==
  LET a == ListOf("a")  b == ListOf("b")
      inTurn == [n \in 1 .. 2 * Len(chunks) |-> IF n % 2 = 1 THEN a[(n + 1) \div 2] ELSE b[n \div 2]]
  IN  {a \o b, inTurn, Reverse(inTurn)}

Total(S, value(_)) == FoldSet(LAMBDA x, sum : sum + value(x), 0, S)

\* What Measure and Inspect say of what a chunker made is true, however the chunks are
\* listed.  The signal no-overlap is on the chunks that start a section and have a chunk
\* before them, and on no chunk that a size limit began, if there is overlap at all.
\* What the chunks of a document have beyond its length is their overlap, and their
\* ordinals are 0, 1, ...  A signal one document has the other has as well, and the
\* summary counts both.  Each chunk is in one bar or is uncounted, and a percentile is
\* a size some chunk has, with enough chunks up to it and too few below.
MeasuresTrue ==
  phase = "done" =>
    \A list \in Listings, given \in Options :
      LET measured == MeasureChunks(list, chunker.max, given)
          rollup == JoinDocuments(list)
          sectionStarts == {sections[n].start : n \in 2 .. Len(sections)} IN
      /\ \A c \in Range(list) :
           "no-overlap" \in measured.signals[c] <=>
             c.ordinal > 0 /\ (c.start \in sectionStarts \/ chunker.overlap = 0)
      /\ \A d \in DOMAIN rollup :
           LET own == {c \in Range(list) : c.document = d} IN
           /\ rollup[d].total = document.length + Total(own, LAMBDA c : measured.overlap[c])
           /\ rollup[d].first = 0 /\ rollup[d].last = rollup[d].count - 1
           /\ {rollup[d].minimum, rollup[d].maximum} \subseteq {RunesOf(c) : c \in own}
           /\ \A c \in own : RunesOf(c) \in rollup[d].minimum .. rollup[d].maximum
      /\ LET bars == measured.histogram.bars IN
         Total(DOMAIN bars, LAMBDA b : bars[b]) + measured.histogram.uncounted = Len(list)
      /\ \A s \in DOMAIN measured.summary :
           LET flagged == Total(DOMAIN rollup, LAMBDA d :
                 Cardinality({c \in Range(list) : c.document = d /\ s \in measured.signals[c]})) IN
           measured.summary[s] = [chunks |-> flagged, documents |-> IF flagged = 0 THEN 0 ELSE 2]
      /\ \A p \in DOMAIN measured.percentiles :
           LET value == measured.percentiles[p]
               upTo(v) == Cardinality({n \in DOMAIN list : RunesOf(list[n]) <= v}) IN
           /\ value \in {RunesOf(c) : c \in Range(list)}
           /\ 100 * upTo(value) >= p * Len(list) /\ 100 * upTo(value - 1) < p * Len(list)

=============================================================================
