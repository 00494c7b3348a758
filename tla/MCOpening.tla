------------------------------ MODULE MCOpening ------------------------------
(* Up to three of four chunks and up to two of five representations, among *)
(* them duplicates of each key, orphans and a raw text that differs, with  *)
(* a manifest that is right or wrong in one field; and readers that ask an *)
(* open bundle for none, one, all, unknown, repeated and blank chunks.     *)
EXTENDS Lookups, SequencesExt

MCChunk(id, document, ordinal, digest) ==
  [id |-> id, document |-> document, ordinal |-> ordinal, digest |-> digest, valid |-> TRUE]

MCChunks == {MCChunk("a", "d", 0, "x"), MCChunk("b", "d", 1, "y"),
             MCChunk("b", "d", 0, "y"), MCChunk("a", "e", 0, "y")}

MCRepresentation(id, chunk, kind, digest) ==
  [id |-> id, chunk |-> chunk, kind |-> kind, digest |-> digest, valid |-> TRUE]

MCRepresentations == {MCRepresentation("p", "a", "raw", "x"), MCRepresentation("q", "b", "raw", "y"),
                      MCRepresentation("p", "b", "summary", "z"), MCRepresentation("r", "c", "summary", "z"),
                      [MCRepresentation("s", "a", "summary", "z") EXCEPT !.valid = FALSE]}

MCManifest(c, r, hasVector) ==
  [chunkCount |-> Len(c), representationCount |-> Len(r), documents |-> 1, chunks |-> c,
   representations |-> r, kinds |-> Kinds(r), vector |-> hasVector,
   id |-> [chunks |-> c, representations |-> r, kinds |-> Kinds(r)]]

MCManifests(m) ==
  {m, [m EXCEPT !.chunkCount = @ + 1], [m EXCEPT !.representationCount = @ + 1],
   [m EXCEPT !.chunks = <<>>], [m EXCEPT !.documents = 2], [m EXCEPT !.id.chunks = <<>>],
   [m EXCEPT !.kinds = @ \cup {"other"}], [m EXCEPT !.representations = <<>>]}

MCStored ==
  {[chunks |-> c, representations |-> r, manifest |-> m, sound |-> Backends, embedder |-> TRUE] :
     c \in SeqOf(MCChunks, 3), r \in SeqOf(MCRepresentations, 2), m \in {<<>>}}

MCBundles ==
  LET whole(b, m) == [b EXCEPT !.manifest = m]
      right == {whole(b, MCManifest(b.chunks, b.representations, FALSE)) : b \in MCStored}
      c == <<MCChunk("a", "d", 0, "x"), MCChunk("b", "d", 1, "y")>>
      r == <<MCRepresentation("p", "a", "raw", "x"), MCRepresentation("q", "b", "raw", "y")>> IN
  right \cup
  {whole([chunks |-> c \o <<MCChunk("c", "d", 2, "y")>>, representations |-> r, manifest |-> <<>>,
          sound |-> Backends, embedder |-> TRUE],
         MCManifest(c \o <<MCChunk("c", "d", 2, "y")>>, r, TRUE))} \cup
  {[chunks |-> c, representations |-> r, manifest |-> m, sound |-> s, embedder |-> e] :
     m \in MCManifests(MCManifest(c, r, FALSE)) \cup MCManifests(MCManifest(c, r, TRUE)),
     s \in SUBSET Backends, e \in BOOLEAN}

MCRequests == {<<>>, <<"b">>, <<"c", "b", "a">>, <<"a", "a">>, <<"">>}

=============================================================================
