----------------------------- MODULE MCBackends -----------------------------
(* A call that is given anything of MCInputs and one that is given one good *)
(* input of the same kind.  Among the inputs are streams out of order, with *)
(* repeated keys, orphans, ragged and empty vectors, and wrong counts.      *)
EXTENDS Searching, SequencesExt

CONSTANTS any, good

MCDocument(id) == [id |-> id, valid |-> TRUE]
MCChunk(id, document, ordinal) == [id |-> id, document |-> document, ordinal |-> ordinal, valid |-> TRUE]
MCEntry(id, chunk, document, entryKind, width) ==
  [id |-> id, chunk |-> chunk, document |-> document, kind |-> entryKind, width |-> width, valid |-> TRUE]

MCContent(documents, chunks) ==
  [kind |-> "content", produced |-> [documents |-> documents, chunks |-> chunks, entries |-> <<>>],
   whole |-> FALSE, expected |-> 0]

MCIndex(indexKind, entries, whole, expected) ==
  [kind |-> indexKind, produced |-> [documents |-> <<>>, chunks |-> <<>>, entries |-> entries],
   whole |-> whole, expected |-> expected]

MCDocuments == {<<>>, <<MCDocument(1)>>, <<MCDocument(2), MCDocument(1)>>, <<MCDocument(1), MCDocument(1)>>,
                <<[MCDocument(1) EXCEPT !.valid = FALSE]>>}
MCChunks == {<<>>, <<MCChunk(2, 1, 0), MCChunk(1, 1, 1)>>, <<MCChunk(1, 1, 0), MCChunk(2, 1, 0)>>,
             <<MCChunk(1, 1, 0), MCChunk(1, 1, 1)>>, <<MCChunk(1, 2, 0)>>,
             <<[MCChunk(1, 1, 0) EXCEPT !.valid = FALSE]>>}

\* Two representations of one chunk, one of another and one of another document.
MCa == MCEntry(1, 2, 1, "raw", 2)
MCb == MCEntry(2, 2, 1, "summary", 2)
MCc == MCEntry(3, 1, 1, "raw", 2)
MCd == MCEntry(4, 1, 0, "summary", 2)

MCEntries == {<<MCa, MCb, MCc, MCd>>, <<MCa, MCb, MCc>>, <<MCc, MCa, MCb>>, <<MCa, MCa, MCb>>,
              <<MCa, [MCb EXCEPT !.width = 1]>>, <<[MCa EXCEPT !.width = 0]>>,
              <<MCa, [MCb EXCEPT !.valid = FALSE]>>, <<>>}

MCInputs ==
  {MCContent(d, c) : d \in MCDocuments, c \in MCChunks}
  \cup {MCIndex(k, e, TRUE, Len(e)) : k \in {"lexical", "vector"}, e \in MCEntries}
  \cup {MCIndex(k, e, FALSE, Len(e) + n) : k \in {"lexical", "vector"}, e \in MCEntries, n \in {0, 1}}

MCGood ==
  {MCContent(<<MCDocument(1)>>, <<MCChunk(3, 1, 0)>>)}
  \cup {MCIndex(k, <<MCa>>, FALSE, 1) : k \in {"lexical", "vector"}}

MCInputsOf == [c \in Calls |-> IF c = any THEN MCInputs ELSE MCGood]

MCScores == {[i \in Ids |-> 1], [i \in Ids |-> IF i = 2 THEN 2 ELSE i % 2]}
MCQueries == {[width |-> 2, score |-> s] : s \in MCScores} \cup {[width |-> 3, score |-> [i \in Ids |-> 1]]}
MCNone == [by |-> "none", kinds |-> {}, documents |-> {}, depth |-> 0]
MCFilters == {MCNone, [MCNone EXCEPT !.by = "kind", !.kinds = {"raw"}],
              [MCNone EXCEPT !.by = "role", !.documents = {1}, !.depth = 2]}

=============================================================================
