----------------------- MODULE GeneratedRepresentations -----------------------
(***************************************************************************)
(* Builders of generated representations (rag/representations) over one    *)
(* FlowBatcher (rag/generation): one request for each chunk, one for each  *)
(* document, or one for each group of chunks of a document with a repair   *)
(* request for each chunk that the model's answer missed.  Builders share  *)
(* the generation cache and the counters of the batcher.                   *)
(*                                                                         *)
(* A text is the sequence of its lines, <<>> when it is blank; a prompt is *)
(* named by its use, since batched and repair calls have their own.        *)
(***************************************************************************)
EXTENDS Integers, Sequences, FiniteSets, Folds, SequencesExt, TLC

CONSTANTS
  Builders,      \* calls of a builder
  Corpus,        \* the chunks
  Documents,     \* the documents that are known, in order
  Builds,        \* what the builders may be asked for
  Workers,       \* items of one request that are under way at once
  Texts,         \* texts the model may answer a request for one text with
  Replies,       \* and the JSON arrays it may answer a group with
  MaxFailures    \* bound on the failing calls

Kinds == {"contextual", "summary", "question", "document-summary"}
DefaultLead == 500
DefaultBatchGroupSize == 12

Chunk == [id : STRING, document : STRING, ordinal : Nat, section : STRING, text : STRING]
Text == Seq(STRING)
Fence == "fence"
Entry == [chunk : Int, text : Text]

\* An array that does not decode is an empty one.
Answer == [text : Text, arrays : Seq(Seq(Entry))]

\* `lead` is ContextualSpec.LeadRunes and `size` is BatchedSpec.GroupSize.
Build == [style : {"per chunk", "batched", "document"}, kind : Kinds, lead : Nat, size : Nat]

ASSUME CorpusAssumption == Corpus \in Seq(Chunk) /\ IsInjective([n \in DOMAIN Corpus |-> Corpus[n].id])
ASSUME DocumentsAssumption == Documents \in Seq(STRING) /\ IsInjective(Documents)
ASSUME BuildsAssumption ==
  /\ Builds \subseteq [Builders -> Build]
  /\ \A f \in Builds : \A s \in Range(f) : s.style = "document" <=> s.kind = "document-summary"
ASSUME AnswersAssumption == Texts \subseteq Text /\ Replies \subseteq Seq(Seq(Entry))
ASSUME WorkersAssumption == Workers \in Nat \ {0}
ASSUME MaxFailuresAssumption == MaxFailures \in Nat

VARIABLES
  step,      \* "idle", "first", "repair", "done" or "failed"
  build,      \* what each builder builds
  items,     \* its requests, and the places of the chunks each is about
  parsed,    \* the texts of chunks it has, with their prompts
  result,    \* the representations it returns
  cache,     \* the generation cache
  counters,  \* the totals of the batcher
  failures,
  meter,     \* what each running request was billed
  answers,   \* history: what the model has answered
  billed, calls,  \* history: all it billed, and its calls for each builder
  free       \* history: what per-chunk builders had generated when a request began

vars == <<step, build, items, parsed, result, cache, counters, failures, meter, answers, billed, calls, free>>

Places == DOMAIN Corpus

Init ==
  /\ step = [b \in Builders |-> "idle"]
  /\ build \in Builds
  /\ items = [b \in Builders |-> <<>>]
  /\ parsed = [b \in Builders |-> <<>>]
  /\ result = [b \in Builders |-> <<>>]
  /\ cache = <<>>
  /\ counters = [hits |-> 0, workCalls |-> 0, usage |-> 0]
  /\ failures = 0
  /\ answers = {}
  /\ meter = [b \in Builders |-> 0] /\ calls = [b \in Builders |-> 0] /\ billed = 0
  /\ free = [b \in Builders |-> {}]

-----------------------------------------------------------------------------
(* Requests.                                                               *)

Known(document) == document \in Range(Documents)

Size(s) == IF s.size > 0 THEN s.size ELSE DefaultBatchGroupSize

\* The places of the chunks that share a call, in order.
GroupsMixingDocuments(size) ==
  LET add(groups, n) ==
        IF groups = <<>> \/ Len(Last(groups)) >= size
        THEN Append(groups, <<n>>)
        ELSE Front(groups) \o <<Append(Last(groups), n)>>
  IN FoldLeft(add, <<>>, [n \in Places |-> n])

GroupByDocument(size) ==
  LET add(groups, n) ==
        IF \/ groups = <<>> \/ Len(Last(groups)) >= size
           \/ Corpus[Head(Last(groups))].document # Corpus[n].document
        THEN Append(groups, <<n>>)
        ELSE Front(groups) \o <<Append(Last(groups), n)>>
  IN FoldLeft(add, <<>>, [n \in Places |-> n])

\* The request is its own cache key; `about` are its chunks and not part of it.
Item(kind, prompt, document, lead, parts, about) ==
  [request |-> [kind |-> kind, prompt |-> prompt, document |-> document, lead |-> lead,
                parts |-> parts],
   about |-> about, state |-> "new", answer |-> [text |-> <<>>, arrays |-> <<>>]]

Part(n) == [section |-> Corpus[n].section, text |-> Corpus[n].text]

GroupItem(kind, group) ==
  Item(kind, "batched", Corpus[Head(group)].document,
       IF kind = "contextual" THEN DefaultLead ELSE 0,
       [k \in DOMAIN group |-> Part(group[k])], group)

\* Only a contextual request shows the document and the section.
ChunkItem(kind, lead, n) ==
  IF kind = "contextual"
  THEN Item(kind, "per chunk", Corpus[n].document, IF lead > 0 THEN lead ELSE DefaultLead,
            <<Part(n)>>, <<n>>)
  ELSE Item(kind, "per chunk", "", 0, <<[section |-> "", text |-> Corpus[n].text]>>, <<n>>)

\* The place of the first chunk of a document in source order.
FirstChunk(document) ==
  CHOOSE n \in Places :
    /\ Corpus[n].document = document
    /\ \A m \in Places : Corpus[m].document = document => Corpus[n].ordinal <= Corpus[m].ordinal

DocumentItem(kind, document) ==
  Item(kind, "document", document, 0, <<>>, <<FirstChunk(document)>>)

\* The documents a builder needs to know are given, and it has chunks for them.
Admissible(s) ==
  CASE s.style = "document" -> \A d \in Range(Documents) : \E n \in Places : Corpus[n].document = d
    [] s.style = "batched" \/ s.kind = "contextual" -> \A n \in Places : Known(Corpus[n].document)
    [] OTHER -> TRUE

FirstItems(s) ==
  CASE s.style = "per chunk" -> [n \in Places |-> ChunkItem(s.kind, s.lead, n)]
    [] s.style = "batched"   -> LET groups == GroupByDocument(Size(s)) IN
                                 [g \in DOMAIN groups |-> GroupItem(s.kind, groups[g])]
    [] s.style = "document"  -> [d \in DOMAIN Documents |-> DocumentItem(s.kind, Documents[d])]

\* What was generated for single chunks, with the lead that was shown.
Generated ==
  {[kind |-> a.kind, lead |-> a.lead, place |-> a.place] :
     a \in {a \in answers : a.style = "per chunk"}}

Start(b) ==
  /\ step[b] = "idle"
  /\ IF Admissible(build[b])
     THEN /\ step' = [step EXCEPT ![b] = "first"]
          /\ items' = [items EXCEPT ![b] = FirstItems(build[b])]
     ELSE step' = [step EXCEPT ![b] = "failed"] /\ UNCHANGED items
  /\ UNCHANGED <<build, parsed, result, cache, counters, failures, meter, answers, billed, calls, free>>

-----------------------------------------------------------------------------
(* Cached work.                                                            *)

\* Equal requests of a call are one unit of work.
Set(b, n, state, answer) ==
  items' = [items EXCEPT ![b] =
    [k \in DOMAIN items[b] |->
       IF items[b][k].request = items[b][n].request
       THEN [items[b][k] EXCEPT !.state = state, !.answer = answer] ELSE items[b][k]]]

InState(b, states) == {n \in DOMAIN items[b] : items[b][n].state \in states}
Units(b, states) == {items[b][n].request : n \in InState(b, states)}

\* Items are started in order; whether any is after a failure is the policy's to say.
Lookup(b, n) ==
  /\ step[b] \in {"first", "repair"} /\ items[b][n].state = "new"
  /\ \A m \in 1 .. n - 1 : items[b][m].state # "new"
  /\ Cardinality(Units(b, {"missed"})) < Workers
  /\ LET request == items[b][n].request IN
     IF request \in DOMAIN cache THEN Set(b, n, "hit", cache[request])
                                 ELSE Set(b, n, "missed", items[b][n].answer)
  /\ UNCHANGED <<step, build, parsed, result, cache, counters, failures, meter, answers, billed, calls, free>>

Answered(request) ==
  IF request.prompt = "batched" THEN [text : {<<>>}, arrays : Replies]
                                ELSE [text : Texts, arrays : {<<>>}]

Bill(b, usage) ==
  /\ meter' = [meter EXCEPT ![b] = @ + usage]
  /\ billed' = billed + usage
  /\ calls' = [calls EXCEPT ![b] = @ + 1]

\* The model answers, whatever it says, and the answer is stored.
Work(b, n) ==
  /\ step[b] \in {"first", "repair"} /\ items[b][n].state = "missed"
  /\ LET item == items[b][n] IN
     \E answer \in Answered(item.request) :
       /\ Set(b, n, "bought", answer)
       /\ cache' = (item.request :> answer) @@ cache
       /\ answers' = answers \cup
            {[style |-> build[b].style, kind |-> item.request.kind, lead |-> item.request.lead,
              place |-> item.about[1], request |-> item.request, answer |-> answer]}
  /\ Bill(b, 1)
  /\ UNCHANGED <<step, build, parsed, result, counters, failures, free>>

\* The call fails, billed or not.
WorkFails(b, n) ==
  /\ step[b] \in {"first", "repair"} /\ items[b][n].state = "missed" /\ failures < MaxFailures
  /\ failures' = failures + 1
  /\ Set(b, n, "failed", items[b][n].answer)
  /\ \E usage \in {0, 1} : Bill(b, usage)
  /\ UNCHANGED <<step, build, parsed, result, cache, counters, answers, free>>

Fails(b) == InState(b, {"failed"}) # {}

\* FlowBatcher.generate adds to the totals before it returns the error.
CountOnSuccess(b) ==
  IF Fails(b) THEN counters
  ELSE [hits |-> counters.hits + Cardinality(InState(b, {"hit"})),
        workCalls |-> counters.workCalls + Cardinality(Units(b, {"bought", "failed"})),
        usage |-> counters.usage + meter[b]]

Count(b) ==
  [hits |-> counters.hits + Cardinality(InState(b, {"hit"})),
   workCalls |-> counters.workCalls + Cardinality(Units(b, {"bought", "failed"})),
   usage |-> counters.usage + meter[b]]

-----------------------------------------------------------------------------
(* Texts and representations.                                              *)

\* Entries for no chunk of the group, without text, or that come second are dropped.
UsableEntries(array, length) ==
  LET add(texts, e) ==
        IF e.chunk \in 1 .. length /\ e.text # <<>> /\ e.chunk \notin DOMAIN texts
        THEN (e.chunk :> e.text) @@ texts ELSE texts
  IN FoldLeft(add, <<>>, array)

\* The first array in the answer that has a usable entry.
ParseBatchedResponse(answer, length) ==
  LET usable == SelectSeq([k \in DOMAIN answer.arrays |-> UsableEntries(answer.arrays[k], length)],
                          LAMBDA texts : DOMAIN texts # {})
  IN IF usable = <<>> THEN <<>> ELSE Head(usable)

WithPrompt(texts, prompt) == [n \in DOMAIN texts |-> [text |-> texts[n], prompt |-> prompt]]

\* The texts of the chunks of one item, by place.
TextsOf(item) ==
  IF item.request.prompt = "batched"
  THEN LET texts == ParseBatchedResponse(item.answer, Len(item.about)) IN
       WithPrompt([n \in {item.about[k] : k \in DOMAIN texts} |->
                     texts[CHOOSE k \in DOMAIN texts : item.about[k] = n]], "batched")
  ELSE WithPrompt([n \in {item.about[1] : t \in {item.answer.text} \ {<<>>}} |-> item.answer.text],
                  item.request.prompt)

AllTexts(b) == FoldLeft(LAMBDA texts, item : texts @@ TextsOf(item), parsed[b], items[b])

Missing(b) == SelectSeq([n \in Places |-> n], LAMBDA n : n \notin DOMAIN AllTexts(b))

\* Fences around a list of lines are no lines of it, and lines are not repeated.
UniqueNonemptyLines(text) ==
  LET add(lines, line) == IF line = Fence \/ Contains(lines, line) THEN lines ELSE Append(lines, line)
  IN FoldLeft(add, <<>>, text)

\* What is indexed for a text: every question for itself, or the whole text.
Bodies(kind, text) ==
  IF kind = "question"
  THEN LET lines == UniqueNonemptyLines(text) IN [n \in DOMAIN lines |-> <<lines[n]>>]
  ELSE <<text>>

Represent(kind, texts, n) ==
  IF n \notin DOMAIN texts THEN <<>>
  ELSE LET bodies == Bodies(kind, texts[n].text) IN
       [k \in DOMAIN bodies |-> [chunk |-> Corpus[n].id, kind |-> kind, text |-> bodies[k],
                                 prompt |-> texts[n].prompt]]

\* The places in the order of the output: of the chunks, or of the documents.
OutputOrder(b) ==
  IF build[b].style = "document" THEN [d \in DOMAIN items[b] |-> items[b][d].about[1]]
                                ELSE [n \in Places |-> n]

Assemble(b) ==
  FlattenSeq([k \in DOMAIN OutputOrder(b) |->
                Represent(build[b].kind, AllTexts(b), OutputOrder(b)[k])])

Return(b) ==
  /\ step[b] \in {"first", "repair"}
  /\ Fails(b) \/ InState(b, {"new", "missed"}) = {}
  /\ counters' = Count(b)
  /\ meter' = [meter EXCEPT ![b] = 0]
  /\ LET repair == step[b] = "first" /\ build[b].style = "batched" /\ Missing(b) # <<>> IN
     IF Fails(b)
     THEN step' = [step EXCEPT ![b] = "failed"] /\ UNCHANGED <<items, parsed, result, free>>
     ELSE IF repair
     THEN /\ step' = [step EXCEPT ![b] = "repair"]
          /\ parsed' = [parsed EXCEPT ![b] = AllTexts(b)]
          /\ items' = [items EXCEPT ![b] = [k \in DOMAIN Missing(b) |->
                                              ChunkItem(build[b].kind, DefaultLead, Missing(b)[k])]]
          /\ free' = [free EXCEPT ![b] = Generated]
          /\ UNCHANGED result
     ELSE /\ step' = [step EXCEPT ![b] = "done"]
          /\ parsed' = [parsed EXCEPT ![b] = AllTexts(b)]
          /\ result' = [result EXCEPT ![b] = Assemble(b)]
          /\ UNCHANGED <<items, free>>
  /\ UNCHANGED <<build, cache, failures, answers, billed, calls>>

Next ==
  \E b \in Builders :
    \/ Start(b) \/ Return(b)
    \/ \E n \in DOMAIN items[b] : Lookup(b, n) \/ Work(b, n) \/ WorkFails(b, n)

Spec == Init /\ [][Next]_vars

-----------------------------------------------------------------------------
(* Properties.                                                             *)

\* The calls a batched build may need: every chunk alone in a group, and repaired.
BatchedCallCeiling(chunks) == 2 * chunks

Total(f) == FoldFunction(+, 0, f)

\* The model said text `t` of the chunk at place n, when shown that very chunk, under
\* the title of its own document where titles are shown.
Said(n, kind, prompt, t) ==
  \E a \in answers :
    LET request == a.request  parts == request.parts IN
    /\ request.kind = kind /\ request.prompt = prompt
    /\ CASE prompt = "batched" ->
              /\ request.document = Corpus[n].document
              /\ \E array \in Range(a.answer.arrays) : \E e \in Range(array) :
                   e.chunk \in DOMAIN parts /\ parts[e.chunk] = Part(n) /\ e.text = t
         [] prompt = "per chunk" ->
              /\ parts[1].text = Corpus[n].text /\ a.answer.text = t
              /\ kind = "contextual" => request.document = Corpus[n].document
         [] prompt = "document" ->
              /\ request.document = Corpus[n].document /\ a.answer.text = t
              /\ \A m \in Places : Corpus[m].document = request.document =>
                                    Corpus[n].ordinal <= Corpus[m].ordinal

Saying ==
  UNION {{a.answer.text} \cup {e.text : e \in UNION {Range(array) : array \in Range(a.answer.arrays)}} :
           a \in answers}

Lines(t) == Range(t) \ {Fence}

\* The cache holds what the model answered to the very request that is the key, and no
\* blank text stands for a chunk.
\* Every representation is what the model said of that chunk in answer to that prompt,
\* none comes twice, they are in the order of the chunks, and a chunk has none only if
\* the model had nothing to say of it when it was asked for it (alone, unless its
\* entry in the answer for the group was a list without a line).
RepresentationsFaithful ==
  /\ \A request \in DOMAIN cache :
       \E a \in answers : a.request = request /\ a.answer = cache[request]
  /\ \A b \in Builders : \A n \in DOMAIN parsed[b] : parsed[b][n].text # <<>>
  /\ \A b \in Builders : step[b] = "done" =>
    LET kind == build[b].kind
        placeOf(r) == CHOOSE n \in Places : Corpus[n].id = r.chunk
        empty(t) == t = <<>> \/ (kind = "question" /\ Lines(t) = {}) IN
    /\ \A k \in DOMAIN result[b] :
         LET r == result[b][k] IN
         \E t \in Saying :
           /\ ~empty(t) /\ Said(placeOf(r), kind, r.prompt, t)
           /\ IF kind = "question" THEN r.text \in {<<line>> : line \in Lines(t)} ELSE r.text = t
    /\ IsInjective(result[b])
    /\ build[b].style # "document" =>
         \A k, l \in DOMAIN result[b] : k < l => placeOf(result[b][k]) <= placeOf(result[b][l])
    /\ \A n \in Places :
         \/ \E r \in Range(result[b]) : r.chunk = Corpus[n].id
         \/ build[b].style = "document"
         \/ Said(n, kind, "per chunk", <<>>)
         \/ kind = "question" /\ (Said(n, kind, "per chunk", <<Fence>>) \/ Said(n, kind, "batched", <<Fence>>))

\* A repair is free for what a per-chunk builder had generated before it was asked for.
FreeAfter(leads) ==
  \A b \in Builders : step[b] = "repair" =>
    \A n \in DOMAIN items[b] :
      \A g \in free[b] :
        (g.kind = build[b].kind /\ g.lead \in leads /\ g.place = items[b][n].about[1])
          => items[b][n].state \in {"new", "hit"}

\* However builders interleave and fail, the totals of the batcher are the calls and
\* bills of the requests that returned, a batched build stays below its ceiling, and a
\* repair does not pay for what a per-chunk builder with the default lead has paid for.
CallsAccounted ==
  /\ counters.usage + Total(meter) = billed
  /\ (\A b \in Builders : step[b] \in {"idle", "done", "failed"}) => counters.workCalls = Total(calls)
  /\ \A b \in Builders : build[b].style = "batched" => calls[b] <= BatchedCallCeiling(Len(Corpus))
  /\ FreeAfter({0, DefaultLead})

\* What batched.go:16-19 and generated.go:350-352 say of repairs.
RepairsAreCacheHits == FreeAfter(Nat)

=============================================================================
