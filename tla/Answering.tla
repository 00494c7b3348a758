------------------------------ MODULE Answering ------------------------------
(***************************************************************************)
(* One turn of the answering service (rag/answering): retrieval by one of  *)
(* six strategies, evidence, the context handed to the generator, and the  *)
(* validation of what the generator answers.  Every component the service  *)
(* calls (searchers, reranker, augmenter, generator, content store,        *)
(* observer) may fail, and what searchers, reranker, augmenter and         *)
(* generator return is not trusted.  The turn is one call of Answer, or    *)
(* Retrieve, Prepare and Interpret called by a batch that keeps the        *)
(* Prepared value in between and may hand it back changed.                 *)
(*                                                                         *)
(* A chunk is a number, positive, and its text is the same number; the     *)
(* label "E<n>" is -n; Altered is a text the store does not hold.          *)
(***************************************************************************)
EXTENDS Integers, Sequences, FiniteSets, SequencesExt, FiniteSetsExt, Orderings

CONSTANTS
  Stored,      \* the chunks of the content store
  Runes,       \* Runes[t]: the length of text t in runes
  HitLists,    \* the chunks of valid hits searchers return, by rank
  EvidenceLists,  \* the chunks rerankers and augmenters return
  Replies,     \* what the generator replies: [kind, cited]
  Configs,     \* [strategy, style, augmented, staged] of the turns
  EvidenceK, RerankCandidates, MaximumContextRunes, QueryVariants,
  RRFConstant, Weight,  \* Weight[k] for k in {"lexical", "vector"}
  Scale        \* bound: a common multiple of RRFConstant + rank, to add shares exactly

Altered == 0
Label(n) == -n

Strategies == {"bm25", "vector", "rrf", "rrf-reranked", "multi-query", "hyde"}
ReplyKinds == {"malformed", "abstained", "blank", "text"}

ASSUME StoreAssumption == Stored \subseteq Nat \ {0}
ASSUME ConfigAssumption ==
  Configs \subseteq [strategy : Strategies, style : {"ordinal", "chunk-id"},
                     augmented : BOOLEAN, staged : BOOLEAN]
ASSUME LimitAssumption ==
  /\ {EvidenceK, MaximumContextRunes, QueryVariants, RRFConstant} \subseteq Nat \ {0}
  /\ RerankCandidates \in Nat /\ RerankCandidates >= EvidenceK
ASSUME ProviderAssumption ==
  /\ HitLists \subseteq Seq(Nat \ {0}) /\ EvidenceLists \subseteq Seq(Nat \ {0})
  /\ Replies \subseteq [kind : ReplyKinds, cited : Seq(Int)]
ASSUME ScaleAssumption ==
  \A hits \in HitLists : \A r \in DOMAIN hits : Scale % (RRFConstant + r) = 0
ASSUME NumberAssumption ==
  /\ \A t \in Stored : Runes[t] \in Nat
  /\ Weight["lexical"] \in Nat \ {0} /\ Weight["vector"] \in Nat \ {0} /\ Scale \in Nat \ {0}

VARIABLES
  turn,      \* "idle", "running", "answered" or "failed"
  config,    \* the request and service configuration of the turn
  todo,      \* the stages to come, the first of them perhaps started
  started,   \* whether the first one has recorded that it started
  log,       \* the observations recorded in the running call
  refused,   \* whether the observer has returned an error that counts
  channels,  \* RetrievalResult.Channels, collapsed
  degraded,  \* RetrievalResult.VariantError # ""
  fused,     \* RetrievalResult.Fused: chunks by rank
  evidence,  \* RetrievalResult.Evidence: items by rank
  prepared,  \* Prepared: the context and the chunks of its labels
  shown,     \* GenerationRequest.Evidence
  raw,       \* the reply of the generator
  result     \* Result.Answer with Contract.Valid

vars == <<turn, config, todo, started, log, refused, channels, degraded, fused,
          evidence, prepared, shown, raw, result>>

NoResult == [valid |-> FALSE, abstained |-> TRUE, citations |-> <<>>]
NoReply == [kind |-> "none", cited |-> <<>>]

Init ==
  /\ turn = "idle" /\ config \in Configs
  /\ todo = <<>> /\ started = FALSE /\ log = <<>> /\ refused = FALSE
  /\ channels = <<>> /\ degraded = FALSE /\ fused = <<>>
  /\ evidence = <<>> /\ prepared = [context |-> <<>>, labels |-> <<>>]
  /\ shown = <<>> /\ raw = NoReply /\ result = NoResult

-----------------------------------------------------------------------------
(* The stages of a turn.  A stage names the query it searches: 0 is the    *)
(* question, 1 .. n are the reformulations, or the hypothetical answer.    *)

Stage(name, query) == [name |-> name, query |-> query]

BothChannels(lexical, vector) == <<Stage("lexical", lexical), Stage("vector", vector)>>

AfterRetrieval ==
  IF config.staged THEN <<Stage("context", 0), Stage("batch", 0), Stage("contract", 0)>>
  ELSE <<Stage("context", 0), Stage("generation", 0), Stage("contract", 0)>>

AfterSearch ==
  (IF config.strategy \in {"bm25", "vector"} THEN <<>> ELSE <<Stage("fusion", 0)>>)
    \o <<Stage("hydrate", 0)>>
    \o (IF config.strategy = "rrf-reranked" THEN <<Stage("reranking", 0)>> ELSE <<>>)
    \o (IF config.augmented THEN <<Stage("augment", 0)>> ELSE <<>>)
    \o AfterRetrieval

Strategy ==
  CASE config.strategy = "bm25"   -> <<Stage("lexical", 0)>> \o AfterSearch
    [] config.strategy = "vector" -> <<Stage("vector", 0)>> \o AfterSearch
    [] config.strategy \in {"rrf", "rrf-reranked"} -> BothChannels(0, 0) \o AfterSearch
    [] OTHER -> <<Stage("query-generation", 0)>>

\* What follows query generation, when it has worked and when it has not.
WithVariants(usable) ==
  IF config.strategy = "hyde"
  THEN BothChannels(0, IF usable THEN 1 ELSE 0) \o AfterSearch
  ELSE [i \in 1 .. 2 * ((IF usable THEN QueryVariants ELSE 0) + 1) |->
          Stage(IF i % 2 = 1 THEN "lexical" ELSE "vector", (i - 1) \div 2)] \o AfterSearch

Begin ==
  /\ turn = "idle"
  /\ turn' = "running" /\ todo' = Strategy
  /\ UNCHANGED <<config, started, log, refused, channels, degraded, fused, evidence,
                 prepared, shown, raw, result>>

Unobserved == {"hydrate", "augment", "batch"}

At(name) == turn = "running" /\ todo # <<>> /\ todo[1].name = name

Ready(name) == At(name) /\ (started \/ name \in Unobserved)

Observation(name, status) == [stage |-> name, status |-> status]

\* A failed turn keeps the stage it failed in at the head of todo.
Stop == turn' = "failed" /\ UNCHANGED <<todo, started>>

\* Prepare and Interpret number their own observations from 1.
LogOfCall == IF config.staged /\ todo[1].name \in {"context", "contract"} THEN <<>> ELSE log

\* The observer records that a stage starts, or its error ends the turn.
StartStage ==
  /\ turn = "running" /\ ~started
  /\ todo[1].name \notin Unobserved
  /\ \/ /\ started' = TRUE
        /\ log' = Append(LogOfCall, Observation(todo[1].name, "started"))
        /\ UNCHANGED <<turn, todo, refused>>
     \/ refused' = TRUE /\ log' = LogOfCall /\ Stop
  /\ UNCHANGED <<config, channels, degraded, fused, evidence, prepared, shown, raw, result>>

Advance(rest) ==
  /\ todo' = rest /\ started' = FALSE
  /\ turn' = IF rest = <<>> THEN "answered" ELSE turn

FinishIgnoringObserver(status, rest) ==
  /\ Advance(rest) /\ UNCHANGED refused
  /\ log' \in {log, Append(log, Observation(todo[1].name, status))}

\* The stage ends: its observation is recorded, or the observer's error ends the turn.
Finish(status, rest) ==
  \/ /\ log' = Append(log, Observation(todo[1].name, status))
     /\ Advance(rest) /\ UNCHANGED refused
  \/ refused' = TRUE /\ UNCHANGED log /\ Stop

\* The stage fails the turn: here an error of the observer is ignored.
FailStage ==
  /\ log' \in {log, Append(log, Observation(todo[1].name, "failed"))}
  /\ Stop /\ UNCHANGED refused

\* A stage without observations fails the turn, or contract does (interpret
\* returns without an observation when the Prepared value is not valid).
FailSilently == Stop /\ UNCHANGED <<log, refused>>

-----------------------------------------------------------------------------
(* Retrieval.                                                              *)

\* The generator fails or its output is not usable: the turn goes on with the
\* question, unless the observer cannot record it.
GenerateNothing ==
  /\ Ready("query-generation")
  /\ Finish("failed", WithVariants(FALSE))
  /\ degraded' = TRUE
  /\ UNCHANGED <<config, channels, fused, evidence, prepared, shown, raw, result>>

GenerateVariants ==
  /\ Ready("query-generation")
  /\ Finish("completed", WithVariants(TRUE))
  /\ UNCHANGED <<config, channels, degraded, fused, evidence, prepared, shown, raw, result>>

CollapseNothing(hits) == hits

\* Collapse keeps the best hit of each chunk; ranks are positions.
Collapse(hits) ==
  LET best == {r \in DOMAIN hits : \A q \in 1 .. r - 1 : hits[q] # hits[r]}
      ranks == Ascending(best) IN
  [n \in DOMAIN ranks |-> hits[ranks[n]]]

Search(hits) ==
  /\ Ready("lexical") \/ Ready("vector")
  /\ Finish("completed", Tail(todo))
  /\ channels' = Append(channels, [kind |-> todo[1].name, query |-> todo[1].query,
                                   hits |-> Collapse(hits)])
  /\ fused' = IF config.strategy \in {"bm25", "vector"} THEN Collapse(hits) ELSE fused
  /\ UNCHANGED <<config, degraded, evidence, prepared, shown, raw, result>>

Found == UNION {ToSet(channels[i].hits) : i \in DOMAIN channels}

\* The rank of chunk c in a channel, 0 when it is not there.
RankIn(channel, c) ==
  IF Contains(channel.hits, c) THEN CHOOSE r \in DOMAIN channel.hits : channel.hits[r] = c
  ELSE 0

\* weight / (RankConstant + rank) of every hit of c in a channel, scaled to integers.
Share(channel, c) ==
  LET value == [r \in DOMAIN channel.hits |->
                  IF channel.hits[r] = c
                  THEN Weight[channel.kind] * (Scale \div (RRFConstant + r)) ELSE 0] IN
  MapThenSumSet(LAMBDA r : value[r], DOMAIN value)

Score(c) ==
  LET share == [i \in DOMAIN channels |-> Share(channels[i], c)] IN
  MapThenSumSet(LAMBDA i : share[i], DOMAIN share)

RanksBefore(p) ==
  Score(p[1]) > Score(p[2]) \/ (Score(p[1]) = Score(p[2]) /\ p[1] < p[2])

Fuse ==
  /\ Ready("fusion")
  /\ Finish("completed", Tail(todo))
  /\ fused' = InOrder(Found, {p \in Found \X Found : RanksBefore(p)})
  /\ UNCHANGED <<config, channels, degraded, evidence, prepared, shown, raw, result>>

\* A search fails or returns invalid hits; channels name different documents for
\* a chunk; the reranker fails; the generator fails.
StageFails ==
  /\ \/ Ready("lexical") \/ Ready("vector")
     \/ Ready("reranking") \/ Ready("generation")
     \/ /\ Ready("fusion")
        /\ \E i, j \in DOMAIN channels :
             i # j /\ ToSet(channels[i].hits) \cap ToSet(channels[j].hits) # {}
  /\ FailStage
  /\ UNCHANGED <<config, channels, degraded, fused, evidence, prepared, shown, raw, result>>

Item(id, text) == [id |-> id, text |-> text]
IdsOf(items) == [n \in DOMAIN items |-> items[n].id]

LoadsWhatItFinds(ids) == TRUE

\* The content store holds all these chunks, and answers.
Loads(ids) == ToSet(ids) \subseteq Stored

EvidenceLimit == IF config.strategy = "rrf-reranked" THEN RerankCandidates ELSE EvidenceK

Hydrate ==
  LET ids == SubSeq(fused, 1, Min({EvidenceLimit, Len(fused)})) IN
  /\ Ready("hydrate")
  /\ Loads(ids) /\ IsInjective(ids)
  /\ evidence' = [n \in DOMAIN ids |-> Item(ids[n], ids[n])]
  /\ Advance(Tail(todo))
  /\ UNCHANGED <<config, log, refused, channels, degraded, fused, prepared, shown, raw, result>>

ValidReranking(ids) ==
  /\ Len(ids) = Min({EvidenceK, Len(evidence)})
  /\ ToSet(ids) \subseteq ToSet(IdsOf(evidence))
  /\ IsInjective(ids)

\* The reranker decides the order; the items are those of the candidates.
Rerank(ids) ==
  /\ Ready("reranking")
  /\ IF ValidReranking(ids)
     THEN /\ Finish("completed", Tail(todo))
          /\ evidence' = [n \in DOMAIN ids |->
               CHOOSE item \in ToSet(evidence) : item.id = ids[n]]
     ELSE FailStage /\ UNCHANGED evidence
  /\ UNCHANGED <<config, channels, degraded, fused, prepared, shown, raw, result>>

\* The augmenter may return any chunks, whose contents come from the store.  The code
\* takes over its whole result (`result = augmented`); channels, fused and degraded
\* remain what the service itself found, since nothing later reads what an augmenter
\* makes of them.
Augment(ids) ==
  /\ Ready("augment")
  /\ IF IsInjective(ids) /\ Loads(ids)
     THEN /\ evidence' = [n \in DOMAIN ids |-> Item(ids[n], ids[n])]
          /\ Advance(Tail(todo)) /\ UNCHANGED <<log, refused>>
     ELSE FailSilently /\ UNCHANGED evidence
  /\ UNCHANGED <<config, channels, degraded, fused, prepared, shown, raw, result>>

\* Hydration, the augmenter, or the store they read fails.
RetrievalFails ==
  /\ Ready("hydrate") \/ Ready("augment")
  /\ FailSilently
  /\ UNCHANGED <<config, channels, degraded, fused, evidence, prepared, shown, raw, result>>

-----------------------------------------------------------------------------
(* Context, generation and contract.                                       *)

UsedRunes(items) ==
  LET runes == [n \in DOMAIN items |-> Runes[items[n].text]] IN
  MapThenSumSet(LAMBDA n : runes[n], DOMAIN runes)

\* A chunk is admitted whole or omitted.
ApplyContextPolicyStopping(items) ==
  LET Fits(n) == UsedRunes(SubSeq(items, 1, n)) <= MaximumContextRunes IN
  SubSeq(items, 1, Max({n \in 0 .. Min({EvidenceK, Len(items)}) : Fits(n)}))

Admit(chosen, item) ==
  IF /\ Len(chosen) < EvidenceK
     /\ UsedRunes(chosen) + Runes[item.text] <= MaximumContextRunes
  THEN Append(chosen, item) ELSE chosen

ApplyContextPolicy(items) ==
  LET admitted[n \in 0 .. Len(items)] ==
        IF n = 0 THEN <<>> ELSE Admit(admitted[n - 1], items[n]) IN
  admitted[Len(items)]

\* The context as the model is shown it.
Labelled(items) ==
  IF config.style = "ordinal"
  THEN [n \in DOMAIN items |-> [items[n] EXCEPT !.id = Label(n)]]
  ELSE items

Prepare ==
  LET context == ApplyContextPolicy(evidence) IN
  /\ Ready("context")
  /\ Finish("completed", Tail(todo))
  /\ prepared' = [context |-> Labelled(context),
                  labels |-> IF config.style = "ordinal" THEN IdsOf(context) ELSE <<>>]
  /\ shown' = Labelled(context)
  /\ UNCHANGED <<config, channels, degraded, fused, evidence, raw, result>>

Generate(reply) ==
  /\ Ready("generation")
  /\ Finish("completed", Tail(todo))
  /\ raw' = reply
  /\ UNCHANGED <<config, channels, degraded, fused, evidence, prepared, shown, result>>

\* What a batch may hand back to Interpret for the Prepared value it was given.
Restaged(p) ==
  LET ctx == p.context IN
  {p, [p EXCEPT !.context = Reverse(ctx)], [p EXCEPT !.labels = Reverse(@)],
   [p EXCEPT !.context = ctx \o ctx],
   [p EXCEPT !.context = Reverse(ctx), !.labels = Reverse(@)],
   [p EXCEPT !.context = SubSeq(ctx, 1, Len(ctx) - 1)],
   [p EXCEPT !.context = [n \in DOMAIN ctx |-> Item(ctx[n].id, Altered)]]}

\* A batch calls the generator itself and keeps Prepared until it has the reply.
Batch(p, reply) ==
  /\ Ready("batch")
  /\ prepared' = p /\ raw' = reply
  /\ Advance(Tail(todo))
  /\ UNCHANGED <<config, log, refused, channels, degraded, fused, evidence, shown, result>>

LabelsAuthorizedByCount(p) == Len(p.labels) = Len(ApplyContextPolicy(evidence))

\* validateCitationLabels: the labels are those of the context the evidence yields.
LabelsAuthorized(p) == p.labels = IdsOf(ApplyContextPolicy(evidence))

\* The chunk an item of the context stands for, Altered when its label has none.
ChunkOf(p, id) ==
  IF config.style = "ordinal"
  THEN IF -id \in DOMAIN p.labels THEN p.labels[-id] ELSE Altered
  ELSE id

ContextChunks(p) == [n \in DOMAIN p.context |-> ChunkOf(p, p.context[n].id)]

\* validateStagedPrepared, before it replaces the contents.
ValidPrepared(p) ==
  LET ids == ContextChunks(p) IN
  /\ config.style = "ordinal" => LabelsAuthorized(p) /\ IsPrefix(ids, p.labels)
  /\ IsInjective(ids) /\ Loads(ids)

Authoritative(p) ==
  LET ids == ContextChunks(p) IN
  [p EXCEPT !.context = Labelled([n \in DOMAIN ids |-> Item(ids[n], ids[n])])]

\* ValidateGroundedAnswer, over the identifiers of the context.
Grounded(reply, ids) ==
  IF reply.kind = "abstained" THEN reply.cited = <<>>
  ELSE /\ reply.kind = "text" /\ reply.cited # <<>>
       /\ IsInjective(reply.cited) /\ ToSet(reply.cited) \subseteq ToSet(ids)

\* The answer: an invalid reply is a safe abstention, labels become chunks.
ParseGroundedAnswer(reply, p) ==
  IF Grounded(reply, IdsOf(p.context))
  THEN [valid |-> TRUE, abstained |-> reply.kind = "abstained",
        citations |-> [n \in DOMAIN reply.cited |-> ChunkOf(p, reply.cited[n])]]
  ELSE NoResult

Interpret ==
  LET p == Authoritative(prepared) IN
  /\ Ready("contract")
  /\ ValidPrepared(prepared)
  /\ Finish("completed", Tail(todo))
  /\ prepared' = p
  /\ result' = ParseGroundedAnswer(raw, p)
  /\ UNCHANGED <<config, channels, degraded, fused, evidence, shown, raw>>

\* The Prepared value is not valid, or the store fails.
InterpretFails ==
  /\ Ready("contract")
  /\ FailSilently
  /\ UNCHANGED <<config, channels, degraded, fused, evidence, prepared, shown, raw, result>>

Next ==
  \/ Begin \/ StartStage
  \/ GenerateNothing \/ GenerateVariants
  \/ \E hits \in HitLists : Search(hits)
  \/ Fuse \/ StageFails \/ Hydrate
  \/ \E ids \in EvidenceLists : Rerank(ids) \/ Augment(ids)
  \/ RetrievalFails
  \/ Prepare
  \/ \E reply \in Replies : Generate(reply) \/ \E p \in Restaged(prepared) : Batch(p, reply)
  \/ Interpret \/ InterpretFails

Spec == Init /\ [][Next]_vars

-----------------------------------------------------------------------------
(* Properties.                                                             *)

\* The state of a turn has its type.
TypeOK ==
  /\ turn \in {"idle", "running", "answered", "failed"} /\ config \in Configs
  /\ started \in BOOLEAN /\ refused \in BOOLEAN /\ degraded \in BOOLEAN
  /\ \A i \in DOMAIN channels : channels[i].hits \in Seq(Nat \ {0})
  /\ fused \in Seq(Nat \ {0})
  /\ evidence \in Seq([id : Stored, text : Stored])
  /\ prepared.labels \in Seq(Stored) /\ prepared.context \in Seq([id : Int, text : Nat])
  /\ raw \in Replies \cup {NoReply} /\ result.citations \in Seq(Nat \ {0})

\* What is shown is the evidence at these places, in its order, and an item is left out
\* only if there were enough before it, or it did not fit behind those before it.
ShownFrom(at) ==
  LET before(n) == {m \in Range(at) : m < n}
      runes == [m \in DOMAIN evidence |-> Runes[evidence[m].text]]
      used(n) == MapThenSumSet(LAMBDA m : runes[m], before(n)) IN
  /\ \A m, n \in DOMAIN at : m < n => at[m] < at[n]
  /\ \A n \in DOMAIN at : shown[n].text = evidence[at[n]].text
  /\ \A n \in DOMAIN evidence :
       n \in Range(at) <=> /\ Cardinality(before(n)) < EvidenceK
                          /\ used(n) + runes[n] <= MaximumContextRunes

\* The evidence of a turn is distinct chunks with the contents of the content
\* store, and reranking takes it from the best RerankCandidates of the fusion:
\* nothing a searcher, reranker or augmenter returns gets past it.  The context is
\* evidence in its order, within both limits, and leaves out only what would have
\* exceeded one of them when its turn came.
EvidenceReachesContext ==
  /\ IsInjective(IdsOf(evidence))
  /\ \A n \in DOMAIN evidence : evidence[n].id \in Stored /\ evidence[n].text = evidence[n].id
  /\ turn = "running" /\ started /\ todo[1].name = "context" /\ ~config.augmented =>
       /\ Len(evidence) <= EvidenceK
       /\ ToSet(IdsOf(evidence))
            \subseteq ToSet(SubSeq(fused, 1, Min({EvidenceLimit, Len(fused)})))
  /\ shown # <<>> \/ (At("generation") \/ At("batch")) =>
       \E at \in [DOMAIN shown -> DOMAIN evidence] : ShownFrom(at)

\* In the searches and the fusion of the service itself, whatever an augmenter returns
\* in their place: a chunk that every channel ranks before another, or alone finds, is
\* before it in the fusion, which has each chunk of each channel once: a searcher that returns a
\* chunk for several of its representations does not count it more than once.
FusionRespectsChannels ==
  fused # <<>> =>
    /\ IsInjective(fused) /\ ToSet(fused) = Found
    /\ \A m, n \in DOMAIN fused :
         (\A i \in DOMAIN channels :
            LET better == RankIn(channels[i], fused[m])
                worse == RankIn(channels[i], fused[n]) IN
            worse # 0 => better # 0 /\ better < worse) /\ m # n
         => m < n

\* An answer that does not abstain cites distinct stored chunks of the context it is
\* returned with, whose contents are those of the store; with ordinal labels each
\* is the chunk whose text the model was shown under the label it cited, whatever
\* a batch did to the context and the labels before it called Interpret.
CitationsGrounded ==
  turn = "answered" =>
    /\ \A n \in DOMAIN prepared.context : prepared.context[n].text = ContextChunks(prepared)[n]
    /\ ~result.abstained =>
         /\ result.valid /\ result.citations # <<>> /\ IsInjective(result.citations)
         /\ ToSet(result.citations) \subseteq ToSet(ContextChunks(prepared)) \cap Stored
         /\ config.style = "ordinal" =>
              \A n \in DOMAIN raw.cited :
                \E s \in DOMAIN shown :
                  shown[s].id = raw.cited[n] /\ shown[s].text = result.citations[n]

\* The observations of a call are pairs, a stage that started and how the same
\* stage ended, the last one perhaps open; nothing follows a failure but that of
\* query generation, which costs only the reformulations: unless the observer has
\* stopped it the turn goes on and searches the question alone; and a turn that
\* answers has recorded every stage to the end: none is presented as durable that
\* is not.  The channels counted are the searches the service made.
StagesAccounted ==
  /\ \A i \in DOMAIN log :
       IF i % 2 = 1 THEN log[i].status = "started"
       ELSE /\ log[i].stage = log[i - 1].stage
            /\ log[i].status \in {"completed", "failed"}
            /\ log[i].status = "failed" =>
                 log[i].stage = "query-generation" \/ (i = Len(log) /\ turn = "failed")
  /\ turn = "running" => (started <=> Len(log) % 2 = 1)
  /\ turn = "failed" /\ ~refused => todo[1].name # "query-generation"
  /\ degraded => \A i \in DOMAIN channels : channels[i].query = 0
  /\ turn = "answered" =>
       /\ ~refused /\ log # <<>> /\ log[Len(log)] = Observation("contract", "completed")
       /\ config.strategy \in {"multi-query", "hyde"} =>
            /\ {i \in DOMAIN channels : channels[i].query = 0} # {}
            /\ Len(channels) = IF config.strategy = "hyde" \/ degraded THEN 2
                               ELSE 2 * (QueryVariants + 1)

=============================================================================
