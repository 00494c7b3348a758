----------------------------- MODULE MCAnswering -----------------------------
(* Chunks 1 to 3 are stored, a searcher or reranker may also name chunk 4.  *)
(* Chunk 2 is as long as two others, and the context holds three runes: a   *)
(* chunk can be left out with room for a later one.                         *)
EXTENDS Answering

MCRunes == (0 :> 1) @@ (1 :> 1) @@ (2 :> 2) @@ (3 :> 2)

MCWeight == [lexical |-> 1, vector |-> 2]

\* One list has a chunk twice, one names an unknown chunk.
MCHitLists == {<<1, 2, 3>>, <<3, 2, 1>>, <<1, 2, 2>>, <<2, 4>>, <<>>}

MCEvidenceLists ==
  {<<2, 1>>, <<3, 2, 1>>, <<1, 1>>, <<1, 4>>, <<3>>, <<>>}

MCReplies ==
  [kind : ReplyKinds,
   cited : {<<>>, <<-1>>, <<-2, -1>>, <<-1, -1>>, <<-3>>, <<2>>, <<1, 3>>, <<4>>}]

Scenario(strategy, style, augmented, staged) ==
  [strategy |-> strategy, style |-> style, augmented |-> augmented, staged |-> staged]

MCConfigs ==
  {Scenario("bm25", "ordinal", TRUE, TRUE), Scenario("vector", "chunk-id", TRUE, TRUE),
   Scenario("rrf", "ordinal", FALSE, TRUE), Scenario("rrf-reranked", "ordinal", FALSE, FALSE),
   Scenario("multi-query", "chunk-id", FALSE, FALSE),
   Scenario("hyde", "ordinal", FALSE, FALSE)}

=============================================================================
