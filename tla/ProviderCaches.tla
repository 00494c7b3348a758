---------------------------- MODULE ProviderCaches ----------------------------
(***************************************************************************)
(* Concurrent calls that buy provider work through a shared cache:         *)
(*   "embed"    CachedEmbedder.Embed (rag/embedding/cached_embedder.go)    *)
(*   "corpus"   Cached (rag/embedding/cached.go), which embeds in batches  *)
(*   "generate" CachedGenerator.Generate (rag/generation)                  *)
(*   "rerank"   CachedReranker.Rerank (rag/reranking/cached.go)            *)
(* Each input of a call is looked up, and only a missing one is admitted   *)
(* by the limiter, bought, validated, stored and charged.  The pool that   *)
(* does so (execution.MapCached and flow.Run of flowkit) is outside the    *)
(* repository: it is modelled from what the code and its tests rely on,    *)
(* that is lookup before admission, one unit of work for equal inputs of a *)
(* call, none shared between calls, and no new input after a failure.      *)
(*                                                                         *)
(* A vector is its number of dimensions.                                   *)
(***************************************************************************)
EXTENDS Integers, Sequences, FiniteSets, FiniteSetsExt, Functions

CONSTANTS
  Calls,       \* concurrent calls
  Inputs,      \* texts, items, prompts or candidates
  Requests,    \* what calls may ask for
  Dimensions,  \* the numbers of dimensions the provider answers with
  Workers,     \* provider calls that one call has under way at once
  BatchSize,   \* CachedOptions.BatchSize of a corpus
  Budget,      \* what the limiter admits in all
  MaxRetries   \* bound on the batches that are tried again

Kinds == {"embed", "corpus", "generate", "rerank"}
Embeds == {"embed", "corpus"}
Single == {"generate", "rerank"}

\* Any answer that is not usable; a text or a ranking is the member of Dimensions
\* that tells it from others.
None == 0

Request == [kind : Kinds, inputs : Seq(Inputs) \ {<<>>}]
NoRequest == [kind |-> "none", inputs |-> <<>>]

\* What the provider answers, perhaps with an error; each answer may be billed.
Answers == [error : BOOLEAN, value : Dimensions \cup {None}, billed : 0 .. 1]

ASSUME DimensionsAssumption == Dimensions \subseteq Nat \ {0}
ASSUME RequestAssumption ==
  /\ Requests \subseteq Request
  /\ \A r \in Requests : r.kind \in Single => Len(r.inputs) = 1
ASSUME PoolAssumption ==
  Workers \in Nat \ {0} /\ BatchSize \in Nat \ {0} /\ Budget \in Nat /\ MaxRetries \in Nat

VARIABLES
  cache,      \* what is stored, by the kind of call and the input
  spent,      \* what the limiter has admitted
  retries,    \* batches that were tried again
  request,    \* request[c]: what call c asks for, NoRequest before it is made
  item,       \* item[c][i]: the state of its input i
  value,      \* value[c][i]: the answer for it, None until there is one
  batches,    \* batches[c]: the inputs that are with the provider together
  dimensions, \* dimensions[c]: those of the first vector the provider gave it
  usage,      \* usage[c]: what its own accumulator holds
  notified,   \* notified[c]: what OnGenerationResult answered
  result,     \* result[c]: what it returned
  total,      \* total[k]: the report of the embedder, generator or reranker
  last,       \* last[k]: what the embedder or the generator says of its last call
  paid,       \* history: paid[c] is what the provider billed for call c
  known       \* history: known[c] is what was stored when call c was made

work == <<item, value, batches, dimensions>>
reports == <<result, total>>
vars == <<cache, spent, retries, request, work, usage, notified, reports, last, paid, known>>

NoResult == [state |-> "none", values |-> <<>>, usage |-> 0]
Zero == [usage |-> 0, hits |-> 0, misses |-> 0, writes |-> 0, workCalls |-> 0, outcomes |-> <<>>]

Ended  == {"hit", "stored", "failed", "unstored", "refused", "skipped"}
Failed == {"failed", "unstored", "refused"}

Init ==
  /\ cache = <<>> /\ spent = 0 /\ retries = 0
  /\ request = [c \in Calls |-> NoRequest]
  /\ item = [c \in Calls |-> <<>>] /\ value = [c \in Calls |-> <<>>]
  /\ batches = [c \in Calls |-> {}] /\ dimensions = [c \in Calls |-> 0]
  /\ usage = [c \in Calls |-> 0] /\ notified = [c \in Calls |-> "no"]
  /\ result = [c \in Calls |-> NoResult] /\ total = [k \in Kinds \ {"corpus"} |-> Zero]
  /\ last = [k \in {"embed", "generate"} |-> [call |-> "none", state |-> "none"]]
  /\ paid = [c \in Calls |-> 0] /\ known = [c \in Calls |-> {}]

Kind(c) == request[c].kind
In(c, states) == {i \in DOMAIN item[c] : item[c][i] \in states}

\* The positions of the inputs in these states: equal inputs are one item.
At(c, states) == {n \in DOMAIN request[c].inputs : item[c][request[c].inputs[n]] \in states}
Move(c, S, state) ==
  item' = [item EXCEPT ![c] = [i \in DOMAIN item[c] |-> IF i \in S THEN state ELSE item[c][i]]]

-----------------------------------------------------------------------------

Call(c, r) ==
  /\ request[c] = NoRequest
  /\ request' = [request EXCEPT ![c] = r]
  /\ item' = [item EXCEPT ![c] = [i \in Range(r.inputs) |-> "waiting"]]
  /\ value' = [value EXCEPT ![c] = [i \in Range(r.inputs) |-> None]]
  /\ known' = [known EXCEPT ![c] = DOMAIN cache]
  /\ UNCHANGED <<cache, spent, retries, batches, dimensions, usage, notified, reports, last, paid>>

\* Every kind of call has a step of its own in the cache.
Key(c, i) == <<Kind(c), i>>

FoundNever(c, i) == FALSE

Found(c, i) == Key(c, i) \in DOMAIN cache

Lookup(c, n) ==
  LET i == request[c].inputs[n] IN
  /\ item[c][i] = "waiting" /\ In(c, Failed) = {}
  /\ \A m \in 1 .. n - 1 : item[c][request[c].inputs[m]] # "waiting"
  /\ IF Found(c, i)
     THEN Move(c, {i}, "hit") /\ value' = [value EXCEPT ![c][i] = cache[Key(c, i)]]
     ELSE Move(c, {i}, "missed") /\ UNCHANGED value
  /\ UNCHANGED <<cache, spent, retries, request, batches, dimensions, usage, notified, reports, last, paid, known>>

Size(kind) == IF kind = "corpus" THEN BatchSize ELSE 1

\* A free worker takes missing inputs; the limiter admits or refuses them.
Admit(c, S) ==
  /\ S # {} /\ Cardinality(S) <= Size(Kind(c)) /\ Cardinality(batches[c]) < Workers
  /\ IF spent + Cardinality(S) <= Budget
     THEN /\ Move(c, S, "working") /\ spent' = spent + Cardinality(S)
          /\ batches' = [batches EXCEPT ![c] = @ \cup {S}]
     ELSE Move(c, S, "refused") /\ UNCHANGED <<spent, batches>>
  /\ UNCHANGED <<cache, retries, request, value, dimensions, usage, notified, reports, last, paid, known>>

ChargedOnSuccess(a) == IF a.error THEN 0 ELSE a.billed

\* Usage is added before the error is looked at.
Charged(a) == a.billed

ValidUnlessError(c, a) == ~a.error

\* Vectors are validated; whatever a generator or reranker returns is taken.
Valid(c, a) == ~a.error /\ (Kind(c) \in Embeds => a.value # None)

Agrees(c, d) == Kind(c) \in Embeds => dimensions[c] \in {0, d}

Buy(c, a) ==
  /\ paid' = [paid EXCEPT ![c] = @ + a.billed]
  /\ usage' = [usage EXCEPT ![c] = @ + Charged(a)]

\* The provider answers for a batch, and the answer is validated.
Work(c, S, a) ==
  /\ Buy(c, a)
  /\ batches' = [batches EXCEPT ![c] = @ \ {S}]
  /\ IF Valid(c, a) /\ Agrees(c, a.value)
     THEN /\ Move(c, S, "received")
          /\ value' = [value EXCEPT ![c] =
                         [i \in DOMAIN item[c] |-> IF i \in S THEN a.value ELSE value[c][i]]]
     ELSE Move(c, S, "failed") /\ UNCHANGED value
  /\ dimensions' = [dimensions EXCEPT ![c] =
                      IF Kind(c) \in Embeds /\ Valid(c, a) /\ @ = 0 THEN a.value ELSE @]
  /\ UNCHANGED <<cache, spent, retries, request, notified, reports, last, known>>

\* A corpus has a retry policy for its batches.
Retry(c, a) ==
  /\ Kind(c) = "corpus" /\ a.error /\ retries < MaxRetries
  /\ retries' = retries + 1
  /\ Buy(c, a)
  /\ UNCHANGED <<cache, spent, request, work, notified, reports, last, known>>

Store(c, i) ==
  /\ \/ /\ cache' = [key \in DOMAIN cache \cup {Key(c, i)} |->
                       IF key = Key(c, i) THEN value[c][i] ELSE cache[key]]
        /\ Move(c, {i}, "stored")
     \/ Move(c, {i}, "unstored") /\ UNCHANGED cache
  /\ UNCHANGED <<spent, retries, request, value, batches, dimensions, usage, notified, reports, last, paid, known>>

\* After a failure inputs that have not been admitted are left out.
Skip(c) ==
  /\ In(c, Failed) # {} /\ In(c, {"waiting", "missed"}) # {}
  /\ Move(c, In(c, {"waiting", "missed"}), "skipped")
  /\ UNCHANGED <<cache, spent, retries, request, value, batches, dimensions, usage, notified, reports, last, paid, known>>

-----------------------------------------------------------------------------
(* The end of a call.                                                      *)

\* The outcome of the last position.
Outcome(c) ==
  [call |-> c, state |-> item[c][request[c].inputs[Len(request[c].inputs)]]]

\* Generate sets `last` in the callback, before the caller's own callback answers.
Notify(c) ==
  /\ Kind(c) = "generate" /\ notified[c] = "no" /\ In(c, {"hit", "stored"}) # {}
  /\ last' = [last EXCEPT !["generate"] = Outcome(c)]
  /\ \E answer \in {"yes", "error"} : notified' = [notified EXCEPT ![c] = answer]
  /\ UNCHANGED <<cache, spent, retries, request, work, usage, reports, paid, known>>

AlignedAlways(c) == TRUE

Values(c) == [n \in DOMAIN request[c].inputs |-> value[c][request[c].inputs[n]]]

\* The final check, over hits and fresh vectors alike.
Aligned(c) ==
  Kind(c) \in Embeds =>
    LET vectors == Values(c) IN
    \A n \in DOMAIN vectors : vectors[n] # None /\ vectors[n] = vectors[1]

Over(c) ==
  /\ In(c, Ended) = DOMAIN item[c]
  /\ Kind(c) = "generate" /\ In(c, {"hit", "stored"}) # {} => notified[c] # "no"

Refused(c) == In(c, Failed) # {} \/ notified[c] = "error"

\* An embedder returns no usage when the final check fails, and a generator and a
\* reranker none when they succeed.
Returned(c) ==
  IF Refused(c) THEN [state |-> "error", values |-> <<>>, usage |-> usage[c]]
  ELSE IF Aligned(c)
  THEN [state |-> "ok", values |-> Values(c), usage |-> IF Kind(c) \in Single THEN 0 ELSE usage[c]]
  ELSE [state |-> "error", values |-> <<>>, usage |-> IF Kind(c) = "embed" THEN 0 ELSE usage[c]]

\* The report of the call is added to the one before.
Added(c, t) ==
  [usage     |-> t.usage + usage[c],
   hits      |-> t.hits + Cardinality(At(c, {"hit"})),
   misses    |-> t.misses + Cardinality(At(c, Ended \ {"hit", "skipped"})),
   writes    |-> t.writes + Cardinality(In(c, {"stored"})),
   workCalls |-> t.workCalls + Cardinality(In(c, {"stored", "failed", "unstored"})),
   outcomes  |-> IF Kind(c) = "embed" THEN <<>> ELSE Append(t.outcomes, Outcome(c))]

LastMerged(c) ==
  IF Kind(c) \in DOMAIN last THEN [last EXCEPT ![Kind(c)] = Outcome(c)] ELSE last

Return(c) ==
  /\ request[c] # NoRequest /\ result[c] = NoResult /\ Over(c)
  /\ total' = IF Kind(c) = "corpus" THEN total ELSE [total EXCEPT ![Kind(c)] = Added(c, @)]
  /\ last' = LastMerged(c)
  /\ result' = [result EXCEPT ![c] = Returned(c)]
  /\ UNCHANGED <<cache, spent, retries, request, work, usage, notified, paid, known>>

Next ==
  \E c \in Calls :
    \/ \E r \in Requests : Call(c, r)
    \/ \E n \in DOMAIN request[c].inputs : Lookup(c, n)
    \/ \E S \in SUBSET In(c, {"missed"}) : Admit(c, S)
    \/ \E S \in batches[c], a \in Answers : Work(c, S, a) \/ Retry(c, a)
    \/ \E i \in In(c, {"received"}) : Store(c, i)
    \/ Skip(c) \/ Notify(c) \/ Return(c)

Spec == Init /\ [][Next]_vars

-----------------------------------------------------------------------------
(* Properties.                                                             *)

\* The variables have their types; what was received or found is a vector where one
\* is asked for, so no malformed answer is cached as one; batches are disjoint.
TypeOK ==
  /\ DOMAIN cache \subseteq Kinds \X Inputs
  /\ \A key \in DOMAIN cache : cache[key] \in Dimensions \cup (IF key[1] \in Embeds THEN {} ELSE {None})
  /\ spent \in 0 .. Budget /\ retries \in 0 .. MaxRetries
  /\ request \in [Calls -> Requests \cup {NoRequest}]
  /\ \A c \in Calls :
       /\ item[c] \in [Range(request[c].inputs) -> Ended \cup {"waiting", "missed", "working", "received"}]
       /\ value[c] \in [Range(request[c].inputs) -> Dimensions \cup {None}]
       /\ Kind(c) \in Embeds => \A i \in In(c, {"hit", "received", "stored"}) : value[c][i] # None
       /\ UNION batches[c] = In(c, {"working"})
       /\ \A S, T \in batches[c] : S = T \/ S \cap T = {}
       /\ dimensions[c] \in Dimensions \cup {0}
       /\ result[c].state \in {"none", "ok", "error"} /\ notified[c] \in {"no", "yes", "error"}
       /\ {usage[c], paid[c]} \subseteq Nat /\ known[c] \subseteq Kinds \X Inputs
  /\ \A k \in DOMAIN total : {total[k][f] : f \in DOMAIN Zero \ {"outcomes"}} \subseteq Nat

\* However concurrent workers interleave, the vectors one call stores have the same
\* dimensions, a mismatch being rejected before it reaches the cache; a call that
\* succeeds has a cached answer for each of its inputs, and vectors of the same
\* dimensions also when some come from a cache that was filled while the provider
\* answered with others.
SuccessAligned ==
  \A c \in Calls :
    /\ Kind(c) \in Embeds =>
         \A i, j \in In(c, {"received", "stored"}) : value[c][i] = value[c][j]
    /\ result[c].state = "ok" =>
         /\ Len(result[c].values) = Len(request[c].inputs)
         /\ \A n \in DOMAIN result[c].values : Found(c, request[c].inputs[n])
         /\ Kind(c) \in Embeds => \E d \in Dimensions : Range(result[c].values) = {d}

\* What was stored when the call was made, if only by a call that failed later, costs
\* it neither admission nor provider work.
StoredInputsAreFree ==
  \A c \in Calls : \A i \in DOMAIN item[c] :
    Key(c, i) \in known[c] => item[c][i] \in {"waiting", "hit", "skipped"}

\* The total usage of a decorator is what the provider has billed for the calls that
\* have returned, failed ones included, and what no decorator totals is returned;
\* when no Generate call is under way, LastOutcome is the last outcome of the report,
\* in whatever order the callbacks and the ends of the calls came.
ReportsTrackCalls ==
  /\ \A k \in DOMAIN total :
       total[k].usage = MapThenSumSet(LAMBDA c : paid[c],
                                      {c \in Calls : result[c] # NoResult /\ Kind(c) = k})
  /\ \A c \in Calls :
       result[c] # NoResult /\ (Kind(c) = "corpus" \/ (Kind(c) \in Single /\ result[c].state = "error"))
         => result[c].usage = paid[c]
  /\ (\A c \in Calls : Kind(c) = "generate" => result[c] # NoResult) =>
       LET outcomes == total["generate"].outcomes IN
       IF outcomes = <<>> THEN last["generate"].call = "none"
       ELSE last["generate"] = outcomes[Len(outcomes)]

\* The contract of Embedder and Reranker: an error does not lose usage that the
\* provider billed for the call.
BilledUsageIsReturned ==
  \A c \in Calls : result[c].state = "error" => result[c].usage = paid[c]

=============================================================================
