---------------------- MODULE MCGeneratedRepresentations ----------------------
(* Three chunks of two documents, two of them with the same text, in groups *)
(* of one and two.  The answers for a group leave chunks out, repeat one, name one  *)
(* that is not there, are blank, or come after an array that is not usable. *)
EXTENDS GeneratedRepresentations

MCChunk(id, document, ordinal, section, text) ==
  [id |-> id, document |-> document, ordinal |-> ordinal, section |-> section, text |-> text]

MCCorpus == <<MCChunk("a", "e", 0, "s", "x"), MCChunk("b", "d", 1, "s", "y"), MCChunk("c", "d", 0, "s", "x")>>
MCDocuments == <<"d", "e">>

MCTexts == {<<>>, <<"q", Fence, "q">>}
MCEntry(n, t) == [chunk |-> n, text |-> t]
MCReplies ==
  {<<<<MCEntry(3, <<"p">>)>>, <<MCEntry(2, <<"q">>), MCEntry(2, <<"p">>), MCEntry(1, <<>>)>>>>,
   <<<<MCEntry(1, <<Fence>>), MCEntry(2, <<"p">>)>>>>}

MCBuild(style, kind, lead, size) == [style |-> style, kind |-> kind, lead |-> lead, size |-> size]

\* Any two builders, but the batched one of questions beside none that is batched.
MCBuilds ==
  {f \in [Builders -> {MCBuild("per chunk", "contextual", DefaultLead, 0),
                       MCBuild("batched", "contextual", 0, 2), MCBuild("batched", "question", 0, 1),
                       MCBuild("document", "document-summary", 0, 0)}] :
     \A b, c \in Builders : b # c /\ f[b].kind = "question" => f[c].style # "batched"}

\* The lead need not be the default one.
MCBuildsWithLead ==
  [Builders -> {MCBuild("per chunk", "contextual", 40, 0), MCBuild("batched", "contextual", 0, 2)}]

MCSymmetry == Permutations(Builders)

=============================================================================
