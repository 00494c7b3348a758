---------------------------- MODULE AnsweringProofs ----------------------------
(***************************************************************************)
(* Theorems about one turn of the answering service, for every strategy,   *)
(* every content store, and whatever searchers, rerankers, augmenters and  *)
(* generators return.                                                      *)
(***************************************************************************)
EXTENDS Answering, CollectionTheorems, SequenceTheorems

\* The stages a turn may have.
Names == {"query-generation", "lexical", "vector", "fusion", "hydrate", "reranking",
          "augment", "context", "generation", "batch", "contract"}

\* The place of a stage in the order of a turn: both channels have one place.
Place(name) ==
  CASE name = "query-generation"          -> 0
    [] name \in {"lexical", "vector"}     -> 1
    [] name = "fusion"                    -> 2
    [] name = "hydrate"                   -> 3
    [] name = "reranking"                 -> 4
    [] name = "augment"                   -> 5
    [] name = "context"                   -> 6
    [] name \in {"generation", "batch"}   -> 7
    [] OTHER                              -> 8

\* A stage and the query it is about.
StageType == [name : Names, query : Nat]

\* One channel answers the question alone.
Alone == config.strategy \in {"bm25", "vector"}

\* The stages a turn does not leave out.
Needed ==
  {"hydrate", "context"} \cup (IF Alone THEN {} ELSE {"fusion"})
    \cup (IF config.strategy = "rrf-reranked" THEN {"reranking"} ELSE {})

\* Stages in the order of a turn, to its end and without leaving out what it needs.
Planned(s) ==
  /\ s \in Seq(StageType)
  /\ \A i, j \in DOMAIN s : i < j =>
       \/ Place(s[i].name) < Place(s[j].name)
       \/ Place(s[i].name) = 1 /\ Place(s[j].name) = 1
  /\ s # <<>> => s[Len(s)].name \in {"query-generation", "contract"}
  /\ \A i \in DOMAIN s : s[i].name = "augment" => config.augmented
  /\ \A name \in Needed :
       s # <<>> /\ Place(s[1].name) \in 1 .. Place(name)
         => \E i \in DOMAIN s : s[i].name = name

\* The turn has not failed.
Live == turn \in {"running", "answered"}

\* The turn goes on and the stages up to this place are over.
Passed(place) == Live /\ (todo = <<>> \/ Place(todo[1].name) > place)
Ahead(place) == turn = "idle" \/ (turn = "running" /\ ~Passed(place))

\* The searches of the turn.
Searches ==
  IF Alone THEN 1
  ELSE IF config.strategy = "multi-query" /\ ~degraded THEN 2 * (QueryVariants + 1) ELSE 2

\* The reformulations are still to be made, or will not be.
Generating == turn = "running" /\ todo # <<>> /\ todo[1].name = "query-generation"

\* What is to come is planned, and the searches that are not to come have been made.
PlanInv ==
  /\ turn = "idle" => todo = <<>> /\ channels = <<>> /\ ~degraded
  /\ turn = "running" => todo # <<>>
  /\ turn = "answered" => todo = <<>>
  /\ Live => Planned(todo)
  /\ Generating => /\ channels = <<>> /\ ~degraded
                   /\ config.strategy \in {"multi-query", "hyde"}
  /\ Live /\ ~Generating =>
       /\ Len(channels) <= Searches
       /\ \A i \in DOMAIN todo : Place(todo[i].name) = 1 <=> i <= Searches - Len(channels)
       /\ todo = <<>> => Len(channels) = Searches

\* A turn without reformulations searches the question, and every turn begins with it.
QueryInv ==
  /\ degraded => \A i \in DOMAIN channels : channels[i].query = 0
  /\ degraded /\ Live => \A i \in DOMAIN todo : todo[i].query = 0
  /\ Live /\ ~Generating =>
       IF channels = <<>> THEN todo # <<>> => todo[1].query = 0 ELSE channels[1].query = 0

\* What a search leaves: the channel, its query and its hits.
Channel == [kind : {"lexical", "vector"}, query : Nat, hits : Seq(Nat \ {0})]

\* A channel has a chunk once, and its ranks are those the shares are defined for.
Collapsed(hits) ==
  IsInjective(hits) /\ \A r \in DOMAIN hits : Scale % (RRFConstant + r) = 0

ChannelInv ==
  /\ channels \in Seq(Channel)
  /\ \A i \in DOMAIN channels : Collapsed(channels[i].hits)

\* Several channels are fused at the fusion, not before.
FusedInv == Ahead(2) /\ ~Alone => fused = <<>>

\* The evidence is stored, and comes from the best of the fusion.
Grounds(items) ==
  /\ items \in Seq([id : Stored, text : Stored])
  /\ IsInjective(IdsOf(items))
  /\ \A n \in DOMAIN items : items[n].text = items[n].id

\* The evidence is grounded throughout; without an augmenter it is the best of the fusion.
EvidenceInv ==
  /\ Grounds(evidence)
  /\ Ahead(3) => evidence = <<>>
  /\ Passed(3) /\ ~config.augmented =>
       /\ ToSet(IdsOf(evidence))
            \subseteq ToSet(SubSeq(fused, 1, Min({EvidenceLimit, Len(fused)})))
       /\ Len(evidence) <= IF Passed(4) THEN EvidenceK ELSE EvidenceLimit

\* The model is shown the context of the evidence.
ShownInv ==
  /\ shown \in {<<>>, Labelled(ApplyContextPolicy(evidence))}
  /\ Ahead(6) => shown = <<>>
  /\ Passed(6) => shown = Labelled(ApplyContextPolicy(evidence))

Statuses == {"started", "completed", "failed"}
Observed == [stage : Names, status : Statuses]

\* What the observations are, pair by pair.
Pairs(l, failing) ==
  \A i \in DOMAIN l :
    IF i % 2 = 1 THEN l[i].status = "started"
    ELSE /\ l[i].stage = l[i - 1].stage
         /\ l[i].status \in {"completed", "failed"}
         /\ l[i].status = "failed" => l[i].stage = "query-generation" \/ (i = Len(l) /\ failing)

\* The observations are pairs, the last open while its stage is started, and none is missing.
LogInv ==
  /\ log \in Seq(Observed) /\ Pairs(log, turn = "failed")
  /\ turn = "idle" => log = <<>> /\ ~started
  /\ turn = "running" => (started <=> Len(log) % 2 = 1)
  /\ turn = "running" /\ started =>
       todo[1].name \notin Unobserved /\ log[Len(log)].stage = todo[1].name
  /\ refused => turn = "failed"
  /\ turn = "failed" /\ ~refused => todo[1].name # "query-generation"
  /\ turn = "answered" => log # <<>> /\ log[Len(log)] = Observation("contract", "completed")

\* The types of what is prepared, replied and answered.
PreparedInv ==
  /\ prepared \in [context : Seq([id : Int, text : Nat]), labels : Seq(Stored)]
  /\ result \in [valid : BOOLEAN, abstained : BOOLEAN, citations : Seq(Nat \ {0})]
  /\ raw \in Replies \cup {NoReply}

\* The types of the rest of the state.
Flags ==
  /\ turn \in {"idle", "running", "answered", "failed"} /\ config \in Configs
  /\ started \in BOOLEAN /\ refused \in BOOLEAN /\ degraded \in BOOLEAN
  /\ fused \in Seq(Nat \ {0})

\* The inductive invariant.
IInv ==
  /\ Flags /\ PlanInv /\ QueryInv /\ ChannelInv /\ FusedInv /\ FusionRespectsChannels
  /\ EvidenceInv /\ ShownInv /\ LogInv /\ PreparedInv /\ CitationsGrounded

-----------------------------------------------------------------------------
(* Collapse and fusion.                                                    *)

\* Collapse leaves each chunk once.
LEMMA CollapseLeavesOne ==
  ASSUME NEW hits \in HitLists
  PROVE  Collapse(hits) \in Seq(Nat \ {0}) /\ Collapsed(Collapse(hits))
<1>1. hits \in Seq(Nat \ {0}) /\ \A r \in DOMAIN hits : Scale % (RRFConstant + r) = 0
  BY ProviderAssumption, ScaleAssumption
<1>2. PICK best : best = {r \in DOMAIN hits : \A q \in 1 .. r - 1 : hits[q] # hits[r]}
  OBVIOUS
<1>3. PICK n \in Nat : n = Len(hits) /\ DOMAIN hits = 1 .. n  BY <1>1
<1>4. IsFiniteSet(1 .. n) /\ Cardinality(1 .. n) = n /\ best \in SUBSET (1 .. n)
  <2>1. IsFiniteSet(1 .. n) /\ Cardinality(1 .. n) = IF 1 > n THEN 0 ELSE n - 1 + 1
    BY FS_Interval
  <2>2. Cardinality(1 .. n) = n  BY <2>1
  <2>3. QED  BY <1>2, <1>3, <2>1, <2>2
<1>5. IsFiniteSet(best) /\ Cardinality(best) <= n /\ Cardinality(best) \in Nat
  BY <1>4, FS_Subset, FS_CardinalityType
<1>6. PICK ranks : ranks = Ascending(best)  OBVIOUS
<1>7. /\ IsInjective(ranks) /\ ranks \in Seq(best) /\ Len(ranks) = Cardinality(best)
  BY <1>4, <1>5, <1>6, AscendingLists
<1>8. Collapse(hits) = [k \in DOMAIN ranks |-> hits[ranks[k]]]
  BY <1>2, <1>6 DEF Collapse
<1>9. DOMAIN ranks = 1 .. Cardinality(best) /\ \A k \in DOMAIN ranks : ranks[k] \in best
  BY <1>7
<1>10. Collapse(hits) \in Seq(Nat \ {0})
  <2>1. \A k \in 1 .. Cardinality(best) : hits[ranks[k]] \in Nat \ {0}
    <3>1. \A r \in best : hits[r] \in Nat \ {0}  BY <1>1, <1>3, <1>4
    <3>2. QED  BY <1>9, <3>1
  <2>2. QED  BY <1>5, <1>8, <1>9, <2>1
<1>11. IsInjective(Collapse(hits))
  <2>1. SUFFICES ASSUME NEW k \in DOMAIN ranks, NEW l \in DOMAIN ranks,
                        hits[ranks[k]] = hits[ranks[l]]
                 PROVE  k = l
    BY <1>8 DEF IsInjective
  <2>2. ranks[k] \in best /\ ranks[l] \in best  BY <1>9
  <2>3. ranks[k] = ranks[l]  BY <1>2, <1>3, <2>1, <2>2
  <2>4. QED  BY <1>7, <2>3 DEF IsInjective
<1>12. \A r \in DOMAIN Collapse(hits) : Scale % (RRFConstant + r) = 0
  BY <1>1, <1>3, <1>5, <1>8, <1>9
<1>13. QED  BY <1>10, <1>11, <1>12 DEF Collapsed

\* A channel that the chunks are scored from.
Scored(channel) == channel \in Channel /\ Collapsed(channel.hits)

\* What a rank is worth in a channel, nothing when there is none.
Worth(channel, r) ==
  IF r = 0 THEN 0 ELSE Weight[channel.kind] * (Scale \div (RRFConstant + r))

\* A better rank is worth more.
LEMMA BetterIsMore ==
  ASSUME NEW channel, Scored(channel),
         NEW r \in DOMAIN channel.hits, NEW q \in DOMAIN channel.hits
  PROVE  /\ Worth(channel, r) \in Nat \ {0}
         /\ r < q => Worth(channel, q) < Worth(channel, r)
<1>1. PICK k : k = RRFConstant  OBVIOUS
<1>2. k \in Nat \ {0} /\ Scale \in Nat \ {0}  BY <1>1, LimitAssumption, NumberAssumption
<1>3. PICK w \in Nat \ {0} : w = Weight[channel.kind]
  BY NumberAssumption DEF Scored, Channel
<1>4. r \in Nat \ {0} /\ q \in Nat \ {0}  BY DEF Scored, Channel
<1>5. Scale % (k + r) = 0 /\ Scale % (k + q) = 0  BY <1>1 DEF Scored, Collapsed
<1>6. \A d \in Nat \ {0} : Scale % d = 0 =>
        /\ Scale \div d \in Nat \ {0} /\ Scale = d * (Scale \div d)
  BY <1>2
<1>61. k + r \in Nat \ {0} /\ k + q \in Nat \ {0}  BY <1>2, <1>4
<1>7. PICK a \in Nat \ {0} : a = Scale \div (k + r) /\ Scale = (k + r) * a
  BY <1>61, <1>5, <1>6
<1>8. PICK b \in Nat \ {0} : b = Scale \div (k + q) /\ Scale = (k + q) * b
  BY <1>61, <1>5, <1>6
<1>9. Worth(channel, r) = w * a /\ Worth(channel, q) = w * b
  BY <1>1, <1>3, <1>4, <1>7, <1>8 DEF Worth
<1>10. w * a \in Nat \ {0}  OBVIOUS
<1>11. ASSUME r < q PROVE w * b < w * a
  <2>1. b < a
    <3>1. SUFFICES ASSUME a <= b PROVE FALSE  OBVIOUS
    <3>2. PICK m \in Nat \ {0}, n \in Nat \ {0} : m = k + r /\ n = k + q /\ m < n
      BY <1>2, <1>4, <1>11
    <3>3. m * a <= m * b  BY <3>1
    <3>4. m * b < n * b  BY <3>2
    <3>5. m * a = n * b  BY <1>7, <1>8, <3>2
    <3>6. QED  BY <3>3, <3>4, <3>5
  <2>2. QED  BY <2>1
<1>12. QED  BY <1>9, <1>10, <1>11

\* The rank of a chunk, and what it adds to the score.
LEMMA ShareOfRank ==
  ASSUME NEW channel, Scored(channel), NEW c
  PROVE  /\ RankIn(channel, c) \in DOMAIN channel.hits \cup {0}
         /\ RankIn(channel, c) # 0 => channel.hits[RankIn(channel, c)] = c
         /\ RankIn(channel, c) # 0 <=> c \in ToSet(channel.hits)
         /\ Share(channel, c) = Worth(channel, RankIn(channel, c))
<1>1. PICK hits \in Seq(Nat \ {0}) : hits = channel.hits /\ IsInjective(hits)
  BY DEF Scored, Channel, Collapsed
<1>2. PICK n \in Nat : n = Len(hits) /\ DOMAIN hits = 1 .. n  BY <1>1
<1> DEFINE value == [r \in DOMAIN channel.hits |->
             IF channel.hits[r] = c
             THEN Weight[channel.kind] * (Scale \div (RRFConstant + r)) ELSE 0]
<1>3. /\ DOMAIN value = 1 .. n
      /\ \A r \in 1 .. n : value[r] =
           IF hits[r] = c THEN Weight[channel.kind] * (Scale \div (RRFConstant + r)) ELSE 0
  BY <1>1, <1>2
<1>4. Share(channel, c) = SumOf(value, 1 .. n)
  <2>1. Share(channel, c) = SumOf(value, DOMAIN value)
    BY Zenon DEF Share, SumOf
  <2>2. QED  BY <1>3, <2>1
<1> HIDE DEF value
<1>5. IsFiniteSet(1 .. n)  BY <1>2, FS_Interval
<1>6. RankIn(channel, c) = IF \E r \in 1 .. n : hits[r] = c
                           THEN CHOOSE r \in 1 .. n : hits[r] = c ELSE 0
  <2>1. RankIn(channel, c) = IF \E r \in 1 .. Len(hits) : hits[r] = c
                             THEN CHOOSE r \in DOMAIN hits : hits[r] = c ELSE 0
    BY <1>1 DEF RankIn, Contains
  <2>2. QED  BY <1>2, <2>1, Zenon
<1>7. c \in ToSet(hits) <=> \E r \in 1 .. n : hits[r] = c  BY <1>2 DEF ToSet
<1>8. CASE \E r \in 1 .. n : hits[r] = c
  <2>1. PICK r \in 1 .. n : hits[r] = c /\ r = RankIn(channel, c)  BY <1>6, <1>8
  <2>2. \A q \in (1 .. n) \ {r} : value[q] = 0
    BY <1>1, <1>2, <1>3, <2>1 DEF IsInjective
  <2>3. value[r] = Worth(channel, r)  BY <1>2, <1>3, <2>1 DEF Worth
  <2>4. value[r] \in Int  BY <1>1, <1>2, <2>1, <2>3, BetterIsMore
  <2>5. SumOf(value, 1 .. n) = value[r]  BY <1>5, <2>2, <2>4, SumOfOne
  <2>6. QED  BY <1>1, <1>2, <1>4, <1>7, <1>8, <2>1, <2>3, <2>5
<1>9. CASE ~ \E r \in 1 .. n : hits[r] = c
  <2>1. RankIn(channel, c) = 0  BY <1>6, <1>9
  <2>2. \A q \in 1 .. n : value[q] = 0  BY <1>2, <1>3, <1>9
  <2>3. SumOf(value, 1 .. n) = 0  BY <1>5, <2>2, SumOfZeros
  <2>4. QED  BY <1>1, <1>4, <1>7, <1>9, <2>1, <2>3 DEF Worth
<1>10. QED  BY <1>8, <1>9

\* What the channels found is a finite set of chunks.
LEMMA FoundFinite ==
  ASSUME ChannelInv PROVE IsFiniteSet(Found) /\ Found \in SUBSET (Nat \ {0})
<1>1. PICK n \in Nat : n = Len(channels) /\ DOMAIN channels = 1 .. n  BY DEF ChannelInv
<1>2. \A i \in 1 .. n : channels[i] \in Channel  BY <1>1 DEF ChannelInv
<1> DEFINE f == [i \in 1 .. n |-> ToSet(channels[i].hits)]
<1>3. ASSUME NEW i \in 1 .. n PROVE IsFiniteSet(f[i]) /\ f[i] \subseteq Nat \ {0}
  <2>1. PICK hits \in Seq(Nat \ {0}) : hits = channels[i].hits  BY <1>2 DEF Channel
  <2>2. PICK m \in Nat : DOMAIN hits = 1 .. m  BY <2>1
  <2>3. ToSet(hits) = {hits[r] : r \in 1 .. m}  BY <2>2 DEF ToSet
  <2>4. \A r \in 1 .. m : hits[r] \in Nat \ {0}  BY <2>1, <2>2
  <2>5. hits \in Surjection(1 .. m, ToSet(hits))  BY <2>1, <2>2, <2>3 DEF Surjection
  <2>6. IsFiniteSet(ToSet(hits))  BY <2>5, FS_Interval, FS_Surjection
  <2>7. QED  BY <2>1, <2>3, <2>4, <2>6
<1>4. Found = UNION {f[i] : i \in 1 .. n}  BY <1>1 DEF Found
<1>5. IsFiniteSet(UNION {f[i] : i \in 1 .. n})
  <2>1. f \in Surjection(1 .. n, {f[i] : i \in 1 .. n})  BY DEF Surjection
  <2> HIDE DEF f
  <2>2. IsFiniteSet({f[i] : i \in 1 .. n})  BY <2>1, FS_Interval, FS_Surjection
  <2>3. QED  BY <1>3, <2>2, FS_UNION
<1>6. QED  BY <1>3, <1>4, <1>5

\* What a chunk scores in each channel.
Shares(c) == [i \in DOMAIN channels |-> Share(channels[i], c)]

\* The score of a chunk is the sum of its shares, each a natural number.
LEMMA ScoreTyped ==
  ASSUME ChannelInv, NEW c
  PROVE  /\ Score(c) = SumOf(Shares(c), DOMAIN channels) /\ Score(c) \in Nat
         /\ IsFiniteSet(DOMAIN channels) /\ Maps(Shares(c), DOMAIN channels, Int)
<1>1. IsFiniteSet(DOMAIN channels)
  <2>1. PICK n \in Nat : DOMAIN channels = 1 .. n  BY DEF ChannelInv
  <2>2. QED  BY <2>1, FS_Interval
<1>2. Maps(Shares(c), DOMAIN channels, Nat)
  <2>1. SUFFICES ASSUME NEW i \in DOMAIN channels PROVE Share(channels[i], c) \in Nat
    BY DEF Maps, Shares
  <2>2. Scored(channels[i])  BY DEF Scored, ChannelInv
  <2>3. QED  BY <2>2, ShareOfRank, BetterIsMore DEF Worth
<1>3. Score(c) = SumOf(Shares(c), DOMAIN Shares(c))  BY Zenon DEF Score, Shares, SumOf
<1>4. DOMAIN Shares(c) = DOMAIN channels  BY DEF Shares
<1>5. QED
  <2>1. SumOf(Shares(c), DOMAIN channels) \in Nat  BY <1>1, <1>2, SumTyped
  <2>2. Maps(Shares(c), DOMAIN channels, Int)  BY <1>2 DEF Maps
  <2>3. QED  BY <1>1, <1>3, <1>4, <2>1, <2>2

\* Every channel that finds b ranks a before it.
Beats(a, b) ==
  \A i \in DOMAIN channels :
    LET better == RankIn(channels[i], a)  worse == RankIn(channels[i], b) IN
    worse # 0 => better # 0 /\ better < worse

\* A chunk that beats another has the higher score.
LEMMA BeatsScores ==
  ASSUME ChannelInv, NEW a, NEW b, b \in Found, Beats(a, b)
  PROVE  Score(b) < Score(a)
<1>1. ASSUME NEW i \in DOMAIN channels
      PROVE  /\ Shares(b)[i] <= Shares(a)[i]
             /\ b \in ToSet(channels[i].hits) => Shares(b)[i] < Shares(a)[i]
  <2>1. PICK channel : channel = channels[i] /\ Scored(channel)  BY DEF Scored, ChannelInv
  <2>2. PICK r, q : r = RankIn(channel, a) /\ q = RankIn(channel, b)  OBVIOUS
  <2>3. Shares(a)[i] = Worth(channel, r) /\ Shares(b)[i] = Worth(channel, q)
    BY <2>1, <2>2, ShareOfRank DEF Shares
  <2>4. r \in DOMAIN channel.hits \cup {0} /\ q \in DOMAIN channel.hits \cup {0}
    BY <2>1, <2>2, ShareOfRank
  <2>5. q # 0 => r # 0 /\ r < q  BY <2>1, <2>2 DEF Beats
  <2>6. q # 0 <=> b \in ToSet(channels[i].hits)  BY <2>1, <2>2, ShareOfRank
  <2>7. CASE q = 0
    <3>1. Worth(channel, q) = 0  BY <2>7 DEF Worth
    <3>2. Worth(channel, r) \in Nat  BY <2>1, <2>4, BetterIsMore DEF Worth
    <3>3. QED  BY <2>3, <2>6, <2>7, <3>1, <3>2
  <2>8. CASE q # 0
    <3>1. Worth(channel, q) < Worth(channel, r)  BY <2>1, <2>4, <2>5, <2>8, BetterIsMore
    <3>2. Worth(channel, q) \in Nat /\ Worth(channel, r) \in Nat
      BY <2>1, <2>4, <2>5, <2>8, BetterIsMore
    <3>3. QED  BY <2>3, <3>1, <3>2
  <2>9. QED  BY <2>7, <2>8
<1>2. PICK i \in DOMAIN channels : b \in ToSet(channels[i].hits)  BY DEF Found
<1>3. PICK f, g : f = Shares(b) /\ g = Shares(a)  OBVIOUS
<1>4. PICK S : S = DOMAIN channels  OBVIOUS
<1>5. /\ IsFiniteSet(S) /\ Maps(f, S, Int) /\ Maps(g, S, Int)
      /\ Score(b) = SumOf(f, S) /\ Score(a) = SumOf(g, S)
  BY <1>3, <1>4, ScoreTyped
<1>6. /\ \A x \in S : f[x] <= g[x]
      /\ i \in S /\ f[i] < g[i]
  BY <1>1, <1>2, <1>3, <1>4
<1>7. SumOf(f, S) < SumOf(g, S)  BY <1>5, <1>6, SumGrows
<1>8. QED  BY <1>5, <1>7

\* The order of the fusion ranks without ties.
LEMMA FusionOrders ==
  ASSUME ChannelInv PROVE Orders({p \in Found \X Found : RanksBefore(p)}, Found)
<1>1. \A c \in Found : Score(c) \in Nat /\ c \in Nat  BY ScoreTyped, FoundFinite
<1>2. PICK R : R = {p \in Found \X Found : RanksBefore(p)}  OBVIOUS
<1>3. \A c, d \in Found : <<c, d>> \in R <=>
        Score(c) > Score(d) \/ (Score(c) = Score(d) /\ c < d)
  BY <1>2 DEF RanksBefore
<1>4. Orders(R, Found)  BY <1>1, <1>3 DEF Orders
<1>5. QED  BY <1>2, <1>4

\* Chunks in an order that respects the channels.
Respects(f) ==
  /\ IsInjective(f) /\ ToSet(f) = Found
  /\ \A m, n \in DOMAIN f : Beats(f[m], f[n]) /\ m # n => m < n

\* A fusion in this order respects the channels.
LEMMA FusionRespects ==
  ASSUME ChannelInv, NEW f, f = InOrder(Found, {p \in Found \X Found : RanksBefore(p)})
  PROVE  Respects(f) /\ f \in Seq(Nat \ {0})
<1>1. PICK R : R = {p \in Found \X Found : RanksBefore(p)}  OBVIOUS
<1>2. /\ Lists(f, Found, R) /\ IsInjective(f) /\ ToSet(f) = Found
      /\ f \in Seq(Found)
  BY <1>1, FoundFinite, FusionOrders, InOrderLists
<1>3. f \in Seq(Nat \ {0})  BY <1>2, FoundFinite, SeqMonotonic
<1>4. ASSUME NEW m \in DOMAIN f, NEW n \in DOMAIN f, Beats(f[m], f[n]), m # n
      PROVE  m < n
  <2>1. f[m] \in Found /\ f[n] \in Found  BY <1>2
  <2>2. Score(f[n]) < Score(f[m])  BY <1>4, <2>1, BeatsScores
  <2>3. m \in Nat /\ n \in Nat  BY <1>3
  <2>4. SUFFICES ASSUME n < m PROVE FALSE  BY <1>4, <2>3
  <2>5. <<f[n], f[m]>> \in R  BY <1>2, <2>4 DEF Lists
  <2>6. Score(f[n]) >= Score(f[m])
    <3>1. RanksBefore(<<f[n], f[m]>>)  BY <1>1, <2>5
    <3>2. Score(f[n]) \in Nat /\ Score(f[m]) \in Nat  BY ScoreTyped
    <3>3. QED  BY <3>1, <3>2 DEF RanksBefore
  <2>7. Score(f[n]) \in Nat /\ Score(f[m]) \in Nat  BY ScoreTyped
  <2>8. QED  BY <2>2, <2>6, <2>7
<1>5. Respects(f)  BY <1>2, <1>4 DEF Respects
<1>6. QED  BY <1>3, <1>5

-----------------------------------------------------------------------------
(* The context.                                                            *)

\* An item whose text is in the store, and the runes of a list of them.
StoredItem == [id : Stored, text : Stored]
RunesOf(items) == [n \in DOMAIN items |-> Runes[items[n].text]]

\* The runes used are a sum, which an admitted item adds to.
LEMMA RunesAdd ==
  ASSUME NEW c \in Seq(StoredItem)
  PROVE  /\ UsedRunes(c) \in Nat /\ UsedRunes(<<>>) = 0
         /\ \A x \in StoredItem : UsedRunes(Append(c, x)) = UsedRunes(c) + Runes[x.text]
<1>1. \A d : UsedRunes(d) = SumOf(RunesOf(d), DOMAIN RunesOf(d))
  BY Zenon DEF UsedRunes, RunesOf, SumOf
<1>2. ASSUME NEW d \in Seq(StoredItem)
      PROVE  /\ UsedRunes(d) = SumOf(RunesOf(d), 1 .. Len(d))
             /\ Maps(RunesOf(d), 1 .. Len(d), Nat) /\ IsFiniteSet(1 .. Len(d))
  <2>1. DOMAIN RunesOf(d) = 1 .. Len(d)  BY DEF RunesOf
  <2>2. \A n \in 1 .. Len(d) : d[n].text \in Stored
    <3>1. \A n \in 1 .. Len(d) : d[n] \in StoredItem  OBVIOUS
    <3>2. QED  BY <3>1 DEF StoredItem
  <2>3. Maps(RunesOf(d), 1 .. Len(d), Nat)  BY <2>2, NumberAssumption DEF RunesOf, Maps
  <2>4. QED  BY <1>1, <2>1, <2>3, FS_Interval
<1>3. UsedRunes(c) \in Nat  BY <1>2, SumTyped
<1>4. UsedRunes(<<>>) = 0
  <2>1. DOMAIN RunesOf(<<>>) = {}  BY DEF RunesOf
  <2>2. QED  BY <1>1, <2>1, SumOfNone
<1>5. ASSUME NEW x \in StoredItem
      PROVE  UsedRunes(Append(c, x)) = UsedRunes(c) + Runes[x.text]
  <2>1. PICK d \in Seq(StoredItem) : d = Append(c, x)  BY AppendProperties
  <2>2. PICK n \in Nat, m \in Nat : n = Len(c) /\ Len(d) = m /\ m = n + 1
    BY <2>1, AppendProperties
  <2>3. PICK f, S : f = RunesOf(d) /\ S = 1 .. n  OBVIOUS
  <2>4. 1 .. m = S \cup {m} /\ m \notin S  BY <2>2, <2>3
  <2>5. UsedRunes(d) = SumOf(f, S \cup {m})  BY <1>2, <2>2, <2>3, <2>4
  <2>6. Maps(f, S \cup {m}, Int) /\ IsFiniteSet(S)
    <3>1. Maps(f, 1 .. m, Nat)  BY <1>2, <2>2, <2>3
    <3>2. Maps(f, S \cup {m}, Int)  BY <2>4, <3>1 DEF Maps
    <3>3. QED  BY <2>2, <2>3, <3>2, FS_Interval
  <2>7. SumOf(f, S \cup {m}) = SumOf(f, S) + f[m]  BY <2>4, <2>6, SumAdds
  <2>8. f[m] = Runes[x.text]  BY <2>1, <2>2, <2>3 DEF RunesOf
  <2>9. SumOf(f, S) = UsedRunes(c)
    <3>1. \A i \in S : f[i] = RunesOf(c)[i]  BY <2>1, <2>2, <2>3 DEF RunesOf
    <3>2. Maps(f, S, Int)  BY <2>6 DEF Maps
    <3>3. SumOf(f, S) = SumOf(RunesOf(c), S)  BY <2>6, <3>1, <3>2, SumSame
    <3>4. QED  BY <1>2, <2>2, <2>3, <3>3
  <2>10. QED  BY <2>1, <2>5, <2>7, <2>8, <2>9
<1>6. QED  BY <1>3, <1>4, <1>5

\* The recursion of ApplyContextPolicy, and that it defines a function.
IsAdmission(g, items) ==
  g = [n \in 0 .. Len(items) |-> IF n = 0 THEN <<>> ELSE Admit(g[n - 1], items[n])]

\* Such a list of admissions exists.
LEMMA AdmissionExists ==
  ASSUME NEW items \in Seq(StoredItem)
  PROVE  \E g : IsAdmission(g, items)
<1> DEFINE Upto(g, k) == \A n \in 0 .. k :
             g[n] = IF n = 0 THEN <<>> ELSE Admit(g[n - 1], items[n])
           T == {k \in Nat : \E g : DOMAIN g = 0 .. k /\ Upto(g, k)}
<1>1. 0 \in T
  <2> DEFINE g == [n \in 0 .. 0 |-> <<>>]
  <2>1. DOMAIN g = 0 .. 0 /\ Upto(g, 0)  OBVIOUS
  <2>2. QED  BY <2>1
<1>2. ASSUME NEW k \in Nat, k \in T PROVE k + 1 \in T
  <2>1. PICK g : DOMAIN g = 0 .. k /\ Upto(g, k)  BY <1>2
  <2> DEFINE h == [n \in 0 .. k + 1 |-> IF n = k + 1 THEN Admit(g[k], items[k + 1]) ELSE g[n]]
  <2>2. \A n \in 0 .. k : h[n] = g[n]  OBVIOUS
  <2>3. Upto(h, k + 1)
    <3>1. SUFFICES ASSUME NEW n \in 0 .. k + 1
                   PROVE  h[n] = IF n = 0 THEN <<>> ELSE Admit(h[n - 1], items[n])
      OBVIOUS
    <3>2. CASE n = k + 1
      <4>1. h[n] = Admit(g[k], items[n]) /\ h[n - 1] = g[k] /\ n # 0  BY <2>2, <3>2
      <4>2. QED  BY <4>1
    <3>3. CASE n \in 1 .. k
      <4>1. h[n] = g[n] /\ h[n - 1] = g[n - 1] /\ n # 0  BY <2>2, <3>3
      <4>2. QED  BY <2>1, <3>3, <4>1
    <3>4. CASE n = 0
      <4>1. h[n] = g[n]  BY <2>2, <3>4
      <4>2. QED  BY <2>1, <3>4, <4>1
    <3>5. QED  BY <3>2, <3>3, <3>4
  <2>4. DOMAIN h = 0 .. k + 1  OBVIOUS
  <2>5. QED
    <3> HIDE DEF h, Upto
    <3>1. QED  BY <2>3, <2>4
<1>3. Nat \subseteq T
  <2> HIDE DEF T
  <2>1. QED  BY <1>1, <1>2, NaturalSets
<1>4. PICK g : DOMAIN g = 0 .. Len(items) /\ Upto(g, Len(items))  BY <1>3
<1> DEFINE r == [n \in 0 .. Len(items) |-> g[n]]
<1>5. \A n \in 0 .. Len(items) :
        r[n] = IF n = 0 THEN <<>> ELSE Admit(r[n - 1], items[n])
  <2>1. SUFFICES ASSUME NEW n \in 0 .. Len(items)
                 PROVE  r[n] = IF n = 0 THEN <<>> ELSE Admit(r[n - 1], items[n])
    OBVIOUS
  <2>2. CASE n = 0  BY <1>4, <2>2
  <2>3. CASE n # 0
    <3>1. n - 1 \in 0 .. Len(items)  BY <2>3
    <3>2. r[n] = g[n] /\ r[n - 1] = g[n - 1]  BY <3>1
    <3>3. QED  BY <1>4, <2>3, <3>2
  <2>4. QED  BY <2>2, <2>3
<1>6. IsAdmission(r, items)
  <2>1. r = [n \in 0 .. Len(items) |-> r[n]]  OBVIOUS
  <2> HIDE DEF r
  <2>2. QED  BY <1>5, <2>1 DEF IsAdmission
<1>7. QED  BY <1>6

\* The policy of the context admits the items one after the other.
LEMMA PolicyAdmits ==
  ASSUME NEW items \in Seq(StoredItem)
  PROVE  \E g : IsAdmission(g, items) /\ ApplyContextPolicy(items) = g[Len(items)]
<1>1. ApplyContextPolicy(items) = (CHOOSE g : IsAdmission(g, items))[Len(items)]
  BY Zenon DEF ApplyContextPolicy, IsAdmission
<1>2. PICK g : g = CHOOSE h : IsAdmission(h, items)  OBVIOUS
<1>3. IsAdmission(g, items)  BY <1>2, AdmissionExists, Zenon
<1>4. QED  BY <1>1, <1>2, <1>3

\* What is taken of the first k items: at[i] is where the i-th of them comes from, and an
\* item is left out only if there were enough before it or it did not fit behind them.
Takes(c, at, items, k) ==
  LET before(n) == {m \in Range(at) : m < n} IN
  /\ c \in Seq(StoredItem) /\ at \in [1 .. Len(c) -> 1 .. k]
  /\ \A i, j \in 1 .. Len(c) : i < j => at[i] < at[j]
  /\ \A i \in 1 .. Len(c) : c[i] = items[at[i]]
  /\ IsFiniteSet(Range(at)) /\ Cardinality(Range(at)) = Len(c)
  /\ UsedRunes(c) = SumOf(RunesOf(items), Range(at))
  /\ \A n \in 1 .. k :
       n \in Range(at) <=>
         /\ Cardinality(before(n)) < EvidenceK
         /\ SumOf(RunesOf(items), before(n)) + Runes[items[n].text] <= MaximumContextRunes

\* Each item extends what is taken, or is left out.
LEMMA TakesNext ==
  ASSUME NEW items \in Seq(StoredItem), NEW k \in Nat, k + 1 <= Len(items),
         NEW c, NEW at, Takes(c, at, items, k)
  PROVE  \E new : Takes(Admit(c, items[k + 1]), new, items, k + 1)
<1>1. PICK n : n = k + 1  OBVIOUS
<1>2. PICK x \in StoredItem : x = items[n]  BY <1>1
<1>3. PICK f, S : f = RunesOf(items) /\ S = Range(at)  OBVIOUS
<1>4. n \in Nat /\ n - 1 = k /\ n \in 1 .. Len(items) /\ k < n  BY <1>1
<1>5. f[n] = Runes[x.text]  BY <1>2, <1>3, <1>4 DEF RunesOf
<1>6. PICK l \in Nat : l = Len(c) /\ DOMAIN c = 1 .. l /\ at \in [1 .. l -> 1 .. k]
  <2>1. c \in Seq(StoredItem) /\ at \in [1 .. Len(c) -> 1 .. k]  BY DEF Takes
  <2>2. Len(c) \in Nat /\ DOMAIN c = 1 .. Len(c)  BY <2>1
  <2>3. QED  BY <2>1, <2>2
<1>7. S \subseteq 1 .. k /\ \A i \in 1 .. l : at[i] \in S  BY <1>3, <1>6 DEF Range
<1>8. n \notin S /\ {m \in S : m < n} = S
  <2>1. \A m \in 1 .. k : m < n /\ m # n  BY <1>4
  <2>2. QED  BY <1>7, <2>1
<1>9. /\ IsFiniteSet(S) /\ Cardinality(S) = l /\ UsedRunes(c) = SumOf(f, S)
      /\ c \in Seq(StoredItem)
  BY <1>3, <1>6 DEF Takes
<1>10. \A m \in 1 .. k :
         m \in S <=>
           /\ Cardinality({p \in S : p < m}) < EvidenceK
           /\ SumOf(f, {p \in S : p < m}) + Runes[items[m].text] <= MaximumContextRunes
  BY <1>3 DEF Takes
<1>11. /\ \A i, j \in 1 .. l : i < j => at[i] < at[j]
       /\ \A i \in 1 .. l : c[i] = items[at[i]]
  BY <1>6 DEF Takes
<1>12. \A m \in 1 .. n : m \in 1 .. k \/ m = n  BY <1>4
<1>13. CASE l < EvidenceK /\ UsedRunes(c) + Runes[x.text] <= MaximumContextRunes
  <2>1. Admit(c, x) = Append(c, x)  BY <1>6, <1>13 DEF Admit
  <2>2. PICK d \in Seq(StoredItem) :
           /\ d = Append(c, x) /\ Len(d) = l + 1 /\ d[l + 1] = x
           /\ \A i \in 1 .. l : d[i] = c[i]
    <3>1. PICK d : d = Append(c, x)  OBVIOUS
    <3>2. c \in Seq(StoredItem)  BY <1>9
    <3>3. d \in Seq(StoredItem) /\ Len(d) = l + 1  BY <1>6, <3>1, <3>2, AppendProperties
    <3>4. d[l + 1] = x  BY <1>6, <3>1, <3>2, AppendProperties
    <3>5. \A i \in 1 .. l : d[i] = c[i]  BY <1>6, <3>1, <3>2, AppendProperties
    <3>6. QED  BY <3>1, <3>3, <3>4, <3>5
  <2> DEFINE new == [i \in 1 .. l + 1 |-> IF i = l + 1 THEN n ELSE at[i]]
  <2>3. new \in [1 .. l + 1 -> 1 .. n]  BY <1>4, <1>6
  <2>4. PICK T : T = Range(new)  OBVIOUS
  <2>5. T = S \cup {n}
    <3>1. \A i \in 1 .. l : new[i] = at[i]  OBVIOUS
    <3>2. new[l + 1] = n  OBVIOUS
    <3>3. S = {at[i] : i \in 1 .. l}  BY <1>3, <1>6 DEF Range
    <3>4. T = {new[i] : i \in 1 .. l + 1}  BY <2>4 DEF Range
    <3>5. 1 .. l + 1 = 1 .. l \cup {l + 1}  OBVIOUS
    <3> HIDE DEF new
    <3>6. QED  BY <3>1, <3>2, <3>3, <3>4, <3>5
  <2>6. \A m \in 1 .. n : {p \in T : p < m} = {p \in S : p < m}  BY <1>4, <2>5
  <2>7. \A i, j \in 1 .. l + 1 : i < j => new[i] < new[j]
    <3>1. SUFFICES ASSUME NEW i \in 1 .. l + 1, NEW j \in 1 .. l + 1, i < j
                   PROVE  new[i] < new[j]
      OBVIOUS
    <3>2. i \in 1 .. l /\ new[i] = at[i] /\ at[i] \in 1 .. k  BY <1>6, <3>1
    <3>3. CASE j = l + 1
      <4>1. new[j] = n  BY <3>3
      <4>2. QED  BY <1>4, <3>2, <4>1
    <3>4. CASE j # l + 1
      <4>1. j \in 1 .. l /\ new[j] = at[j]  BY <3>4
      <4>2. QED  BY <1>11, <3>1, <3>2, <4>1
    <3>5. QED  BY <3>3, <3>4
  <2>8. \A i \in 1 .. l + 1 : d[i] = items[new[i]]  BY <1>2, <1>11, <2>2
  <2>9. IsFiniteSet(T) /\ Cardinality(T) = l + 1  BY <1>8, <1>9, <2>5, FS_AddElement
  <2>10. UsedRunes(d) = SumOf(f, T)
    <3>1. UsedRunes(d) = UsedRunes(c) + Runes[x.text]  BY <1>9, <2>2, RunesAdd
    <3>2. \A m \in S \cup {n} : f[m] \in Int
      <4>1. \A m \in 1 .. Len(items) : f[m] = Runes[items[m].text] /\ items[m] \in StoredItem
        BY <1>3 DEF RunesOf
      <4>2. \A m \in 1 .. Len(items) : f[m] \in Int  BY <4>1, NumberAssumption DEF StoredItem
      <4>3. QED  BY <1>4, <1>7, <4>2
    <3>3. Maps(f, S \cup {n}, Int)  BY <3>2 DEF Maps
    <3>4. SumOf(f, S \cup {n}) = SumOf(f, S) + f[n]
      <4>1. IsFiniteSet(S) /\ n \notin S  BY <1>8, <1>9
      <4>2. QED  BY <3>3, <4>1, SumAdds
    <3>5. QED  BY <1>5, <1>9, <2>5, <3>1, <3>4
  <2>11. \A m \in 1 .. n :
           m \in T <=>
             /\ Cardinality({p \in T : p < m}) < EvidenceK
             /\ SumOf(f, {p \in T : p < m}) + Runes[items[m].text] <= MaximumContextRunes
    <3>1. SUFFICES ASSUME NEW m \in 1 .. n
          PROVE  m \in T <=>
             /\ Cardinality({p \in S : p < m}) < EvidenceK
             /\ SumOf(f, {p \in S : p < m}) + Runes[items[m].text] <= MaximumContextRunes
      BY <2>6
    <3>2. CASE m \in 1 .. k
      <4>1. m # n  BY <1>4, <3>2
      <4>2. m \in T <=> m \in S  BY <2>5, <4>1
      <4>3. QED  BY <1>10, <3>2, <4>2
    <3>3. CASE m = n  BY <1>2, <1>8, <1>9, <1>13, <2>5, <3>3
    <3>4. QED  BY <1>12, <3>2, <3>3
  <2>12. Takes(d, new, items, n)
    <3> HIDE DEF new
    <3>1. QED  BY <1>3, <2>2, <2>3, <2>4, <2>7, <2>8, <2>9, <2>10, <2>11 DEF Takes
  <2>13. QED
    <3> HIDE DEF new
    <3>1. QED  BY <1>1, <1>2, <2>1, <2>2, <2>12
<1>14. CASE ~(l < EvidenceK /\ UsedRunes(c) + Runes[x.text] <= MaximumContextRunes)
  <2>1. Admit(c, x) = c  BY <1>6, <1>14 DEF Admit
  <2>2. at \in [1 .. l -> 1 .. n]  BY <1>4, <1>6
  <2>3. \A m \in 1 .. n :
           m \in S <=>
             /\ Cardinality({p \in S : p < m}) < EvidenceK
             /\ SumOf(f, {p \in S : p < m}) + Runes[items[m].text] <= MaximumContextRunes
    <3>1. SUFFICES ASSUME NEW m \in 1 .. n
          PROVE  m \in S <=>
             /\ Cardinality({p \in S : p < m}) < EvidenceK
             /\ SumOf(f, {p \in S : p < m}) + Runes[items[m].text] <= MaximumContextRunes
      OBVIOUS
    <3>2. CASE m \in 1 .. k  BY <1>10, <3>2
    <3>3. CASE m = n  BY <1>2, <1>8, <1>9, <1>14, <3>3
    <3>4. QED  BY <1>12, <3>2, <3>3
  <2>4. Takes(c, at, items, n)  BY <1>3, <1>6, <1>9, <1>11, <2>2, <2>3 DEF Takes
  <2>5. QED  BY <1>1, <1>2, <2>1, <2>4
<1>15. QED  BY <1>13, <1>14

\* The context is taken from the items.
LEMMA PolicyTakes ==
  ASSUME NEW items \in Seq(StoredItem)
  PROVE  \E at : Takes(ApplyContextPolicy(items), at, items, Len(items))
<1>1. PICK g : IsAdmission(g, items) /\ ApplyContextPolicy(items) = g[Len(items)]
  BY PolicyAdmits
<1> DEFINE T == {k \in Nat : k <= Len(items) => \E at : Takes(g[k], at, items, k)}
<1>2. 0 \in T
  <2>1. g[0] = <<>>  BY <1>1 DEF IsAdmission
  <2> DEFINE at == [i \in 1 .. 0 |-> i]
  <2>2. Range(at) = {}  BY DEF Range
  <2>3. Takes(<<>>, at, items, 0)
    <3>1. UsedRunes(<<>>) = 0  BY RunesAdd
    <3>2. SumOf(RunesOf(items), {}) = 0  BY SumOfNone
    <3>3. at \in [1 .. Len(<<>>) -> 1 .. 0] /\ Len(<<>>) = 0  OBVIOUS
    <3> HIDE DEF at
    <3>4. QED  BY <2>2, <3>1, <3>2, <3>3, FS_EmptySet DEF Takes
  <2>4. QED
    <3> HIDE DEF at
    <3>1. QED  BY <2>1, <2>3
<1>3. ASSUME NEW k \in Nat, k \in T PROVE k + 1 \in T
  <2>1. SUFFICES ASSUME k + 1 <= Len(items) PROVE \E at : Takes(g[k + 1], at, items, k + 1)
    OBVIOUS
  <2>2. PICK at : Takes(g[k], at, items, k)  BY <1>3, <2>1
  <2>3. g[k + 1] = Admit(g[k], items[k + 1])  BY <1>1, <2>1 DEF IsAdmission
  <2>4. QED  BY <2>1, <2>2, <2>3, TakesNext
<1>4. Nat \subseteq T
  <2> HIDE DEF T
  <2>1. QED  BY <1>2, <1>3, NaturalSets
<1>5. QED  BY <1>1, <1>4

\* The items of the context are items of the evidence, and are all that may be in it.
LEMMA ContextTaken ==
  ASSUME Grounds(evidence)
  PROVE  /\ Grounds(ApplyContextPolicy(evidence))
         /\ shown = Labelled(ApplyContextPolicy(evidence)) =>
              \E at \in [DOMAIN shown -> DOMAIN evidence] : ShownFrom(at)
<1>1. PICK e \in Seq(StoredItem) : e = evidence  BY DEF Grounds, StoredItem
<1>2. PICK c : c = ApplyContextPolicy(e)  OBVIOUS
<1>3. PICK at : Takes(c, at, e, Len(e))  BY <1>2, PolicyTakes
<1>4. PICK l \in Nat, k \in Nat :
        l = Len(c) /\ k = Len(e) /\ DOMAIN c = 1 .. l /\ DOMAIN e = 1 .. k
  <2>1. c \in Seq(StoredItem)  BY <1>3 DEF Takes
  <2>2. QED  BY <2>1
<1>5. /\ c \in Seq(StoredItem) /\ at \in [1 .. l -> 1 .. k]
      /\ \A i, j \in 1 .. l : i < j => at[i] < at[j]
      /\ \A i \in 1 .. l : c[i] = e[at[i]]
  BY <1>3, <1>4 DEF Takes
<1>6. Grounds(c)
  <2>1. c \in Seq([id : Stored, text : Stored])  BY <1>5 DEF StoredItem
  <2>2. \A i \in 1 .. l : c[i].text = c[i].id  BY <1>1, <1>4, <1>5 DEF Grounds
  <2>3. ASSUME NEW i \in 1 .. l, NEW j \in 1 .. l, c[i].id = c[j].id PROVE i = j
    <3>1. at[i] \in 1 .. k /\ at[j] \in 1 .. k  BY <1>5
    <3>2. e[at[i]].id = e[at[j]].id  BY <1>5, <2>3
    <3>3. at[i] = at[j]
      <4>1. \A x, y \in DOMAIN e : e[x].id = e[y].id => x = y
        BY <1>1 DEF Grounds, IdsOf, IsInjective
      <4>2. QED  BY <1>4, <3>1, <3>2, <4>1
    <3>4. at[i] \in Int /\ at[j] \in Int /\ ~(at[i] < at[j]) /\ ~(at[j] < at[i])
      BY <3>1, <3>3
    <3>5. ~(i < j) /\ ~(j < i)  BY <1>5, <3>4
    <3>6. QED  BY <3>5
  <2>4. IsInjective(IdsOf(c))  BY <1>4, <2>3 DEF IsInjective, IdsOf
  <2>5. QED  BY <1>4, <2>1, <2>2, <2>4 DEF Grounds
<1>7. ASSUME shown = Labelled(c)
      PROVE  /\ DOMAIN shown = 1 .. l
             /\ \A n \in 1 .. l : shown[n].text = c[n].text
  <2>1. \A n \in 1 .. l : c[n] \in StoredItem  BY <1>4, <1>5
  <2>2. CASE config.style = "ordinal"
    <3>1. shown = [n \in 1 .. l |-> [c[n] EXCEPT !.id = Label(n)]]
      BY <1>4, <1>7, <2>2 DEF Labelled
    <3>2. \A n \in 1 .. l : [c[n] EXCEPT !.id = Label(n)].text = c[n].text
      BY <2>1 DEF StoredItem
    <3>3. QED  BY <3>1, <3>2
  <2>3. CASE config.style # "ordinal"  BY <1>4, <1>7, <2>3 DEF Labelled
  <2>4. QED  BY <2>2, <2>3
<1>8. \A n \in 1 .. k :
        n \in Range(at) <=>
          /\ Cardinality({m \in Range(at) : m < n}) < EvidenceK
          /\ SumOf(RunesOf(e), {m \in Range(at) : m < n}) + Runes[e[n].text]
               <= MaximumContextRunes
  BY <1>3, <1>4 DEF Takes
<1>9. \A n \in 1 .. k : RunesOf(e)[n] = Runes[e[n].text]  BY <1>4 DEF RunesOf
<1>10. ASSUME shown = Labelled(c)
       PROVE  at \in [DOMAIN shown -> DOMAIN e] /\ ShownFrom(at)
  <2>1. DOMAIN shown = 1 .. l /\ \A n \in 1 .. l : shown[n].text = c[n].text
    BY <1>7, <1>10
  <2>2. at \in [DOMAIN shown -> DOMAIN e] /\ DOMAIN at = 1 .. l  BY <1>4, <1>5, <2>1
  <2>3. \A n \in DOMAIN at : shown[n].text = e[at[n]].text  BY <1>5, <2>1, <2>2
  <2>4. \A n \in DOMAIN e :
          n \in Range(at) <=>
            /\ Cardinality({m \in Range(at) : m < n}) < EvidenceK
            /\ SumOf(RunesOf(e), {m \in Range(at) : m < n}) + RunesOf(e)[n]
                 <= MaximumContextRunes
    BY <1>4, <1>8, <1>9
  <2>5. RunesOf(e) = [m \in DOMAIN evidence |-> Runes[evidence[m].text]]
    BY <1>1 DEF RunesOf
  <2>6. \A n \in DOMAIN evidence :
          n \in Range(at) <=>
            /\ Cardinality({m \in Range(at) : m < n}) < EvidenceK
            /\ SumOf([m \in DOMAIN evidence |-> Runes[evidence[m].text]],
                      {m \in Range(at) : m < n})
                 + [m \in DOMAIN evidence |-> Runes[evidence[m].text]][n]
                 <= MaximumContextRunes
    BY <1>1, <2>4, <2>5, Zenon
  <2>7. /\ \A m, n \in DOMAIN at : m < n => at[m] < at[n]
        /\ \A n \in DOMAIN at : shown[n].text = evidence[at[n]].text
    BY <1>1, <1>5, <2>2, <2>3
  <2>8. ShownFrom(at)  BY <2>6, <2>7, Zenon DEF ShownFrom, SumOf
  <2>9. QED  BY <2>2, <2>8
<1>11. QED  BY <1>1, <1>2, <1>6, <1>10

-----------------------------------------------------------------------------
(* The stages of a turn.                                                   *)

\* The places of the stages.
LEMMA Places ==
  /\ \A name \in Names : Place(name) \in 0 .. 8
  /\ \A name \in Names : Place(name) = 0 <=> name = "query-generation"
  /\ \A name \in Names : Place(name) = 1 <=> name \in {"lexical", "vector"}
  /\ \A name \in Names : Place(name) = 8 <=> name = "contract"
  /\ \A name \in Needed : name \in Names /\ Place(name) \in 2 .. 6
  /\ \A name \in Needed, other \in Names : Place(name) = Place(other) => name = other
  /\ Place("fusion") = 2 /\ Place("hydrate") = 3 /\ Place("reranking") = 4
  /\ Place("augment") = 5 /\ Place("context") = 6 /\ Place("contract") = 8
  /\ Place("generation") = 7 /\ Place("batch") = 7 /\ Place("query-generation") = 0
  /\ Place("lexical") = 1 /\ Place("vector") = 1
<1>1. \A name \in Names : Place(name) \in 0 .. 8  BY DEF Names, Place
<1>2. \A name \in Names : Place(name) = 0 <=> name = "query-generation"
  BY DEF Names, Place
<1>3. \A name \in Names : Place(name) = 1 <=> name \in {"lexical", "vector"}
  BY DEF Names, Place
<1>4. \A name \in Names : Place(name) = 8 <=> name = "contract"  BY DEF Names, Place
<1>5. \A name \in Needed : name \in Names /\ Place(name) \in 2 .. 6
  BY DEF Names, Needed, Place
<1>6. \A name \in Needed, other \in Names : Place(name) = Place(other) => name = other
  BY DEF Names, Needed, Place
<1>7. QED  BY <1>1, <1>2, <1>3, <1>4, <1>5, <1>6 DEF Place

\* The rest of a plan is a plan, which leaves out nothing that is needed.
LEMMA RestPlanned ==
  ASSUME NEW s, Planned(s), s # <<>>, s[1].name # "query-generation"
  PROVE  /\ Planned(Tail(s)) /\ Len(s) \in Nat \ {0} /\ Len(Tail(s)) = Len(s) - 1
         /\ DOMAIN s = 1 .. Len(s) /\ DOMAIN Tail(s) = 1 .. Len(s) - 1
         /\ \A i \in DOMAIN Tail(s) : Tail(s)[i] = s[i + 1]
         /\ Tail(s) = <<>> <=> s[1].name = "contract"
         /\ Tail(s) # <<>> =>
              /\ \/ Place(s[1].name) < Place(Tail(s)[1].name)
                 \/ Place(s[1].name) = 1 /\ Place(Tail(s)[1].name) = 1
              /\ \A name \in Needed :
                   Place(s[1].name) < Place(name) => Place(Tail(s)[1].name) <= Place(name)
<1>1. PICK n \in Nat \ {0} : n = Len(s) /\ DOMAIN s = 1 .. n /\ s \in Seq(StageType)
  BY DEF Planned
<1>2. PICK t \in Seq(StageType) : t = Tail(s)  BY <1>1, HeadTailProperties
<1>3. Len(t) = n - 1 /\ DOMAIN t = 1 .. n - 1 /\ \A i \in 1 .. n - 1 : t[i] = s[i + 1]
  BY <1>1, <1>2
<1>4. \A i \in 1 .. n : s[i].name \in Names
  <2>1. \A i \in 1 .. n : s[i] \in StageType  BY <1>1
  <2>2. QED  BY <2>1 DEF StageType
<1>5. \A i, j \in 1 .. n : i < j =>
        \/ Place(s[i].name) < Place(s[j].name)
        \/ Place(s[i].name) = 1 /\ Place(s[j].name) = 1
  BY <1>1 DEF Planned
<1>6. s[n].name \in {"query-generation", "contract"}  BY <1>1 DEF Planned
<1>7. \A name \in Needed : Place(s[1].name) \in 1 .. Place(name)
         => \E i \in 1 .. n : s[i].name = name
  BY <1>1 DEF Planned
<1>8. \A i \in 1 .. n : Place(s[i].name) \in 1 .. 8
  <2>1. Place(s[1].name) \in 1 .. 8  BY <1>1, <1>4, Places
  <2>2. ASSUME NEW i \in 1 .. n, i # 1 PROVE Place(s[i].name) \in 1 .. 8
    <3>1. Place(s[1].name) < Place(s[i].name) \/ Place(s[i].name) = 1
      BY <1>1, <1>5, <2>2
    <3>2. Place(s[i].name) \in 0 .. 8  BY <1>4, Places
    <3>3. QED  BY <2>1, <3>1, <3>2
  <2>3. QED  BY <2>1, <2>2
<1>9. s[n].name = "contract"
  <2>1. Place(s[n].name) # 0  BY <1>1, <1>8
  <2>2. QED  BY <1>6, <2>1, Places
<1>10. t = <<>> <=> s[1].name = "contract"
  <2>1. CASE n = 1  BY <1>2, <1>3, <1>9, <2>1
  <2>2. CASE n > 1
    <3>1. Place(s[n].name) = 8  BY <1>9, Places
    <3>2. Place(s[1].name) < 8  BY <1>1, <1>5, <2>2, <3>1
    <3>3. s[1].name # "contract"  BY <3>2, Places
    <3>4. t # <<>>  BY <1>3, <2>2
    <3>5. QED  BY <3>3, <3>4
  <2>3. QED  BY <1>1, <2>1, <2>2
<1>11. ASSUME t # <<>>, NEW name \in Needed, Place(t[1].name) <= Place(name)
       PROVE  \E i \in 1 .. n - 1 : t[i].name = name
  <2>1. n > 1 /\ t[1] = s[2]  BY <1>1, <1>3, <1>11
  <2>2. Place(name) \in 2 .. 6  BY Places
  <2>3. Place(s[1].name) < Place(s[2].name) \/ (Place(s[1].name) = 1 /\ Place(s[2].name) = 1)
    BY <1>1, <1>5, <2>1
  <2>4. Place(s[1].name) \in 1 .. 8 /\ Place(s[2].name) \in 1 .. 8  BY <1>1, <1>8, <2>1
  <2>5. Place(s[1].name) < Place(name)  BY <1>11, <2>1, <2>2, <2>3, <2>4
  <2>6. PICK i \in 1 .. n : s[i].name = name  BY <1>7, <2>2, <2>4, <2>5
  <2>7. i # 1  BY <2>2, <2>4, <2>5, <2>6
  <2>8. i - 1 \in 1 .. n - 1 /\ t[i - 1] = s[i]  BY <1>1, <1>3, <2>7
  <2>9. QED  BY <2>6, <2>8
<1>12. ASSUME t # <<>>, NEW name \in Needed, Place(s[1].name) < Place(name)
       PROVE  Place(t[1].name) <= Place(name)
  <2>1. n > 1 /\ t[1] = s[2]  BY <1>1, <1>3, <1>12
  <2>2. Place(name) \in 2 .. 6  BY Places
  <2>3. Place(s[1].name) \in 1 .. 8 /\ Place(s[2].name) \in 1 .. 8  BY <1>1, <1>8, <2>1
  <2>4. PICK i \in 1 .. n : s[i].name = name  BY <1>7, <1>12, <2>2, <2>3
  <2>5. i # 1  BY <1>12, <2>2, <2>4
  <2>6. CASE i = 2  BY <2>1, <2>2, <2>4, <2>6
  <2>7. CASE i # 2
    <3>1. 2 < i  BY <2>5, <2>7
    <3>2. Place(s[2].name) < Place(s[i].name) \/ Place(s[i].name) = 1
      BY <1>1, <1>5, <2>1, <3>1
    <3>3. QED  BY <2>1, <2>2, <2>3, <2>4, <3>2
  <2>8. QED  BY <2>6, <2>7
<1>13. Planned(t)
  <2>1. \A i, j \in 1 .. n - 1 : i < j =>
          \/ Place(t[i].name) < Place(t[j].name)
          \/ Place(t[i].name) = 1 /\ Place(t[j].name) = 1
    <3>1. SUFFICES ASSUME NEW i \in 1 .. n - 1, NEW j \in 1 .. n - 1, i < j
                   PROVE  \/ Place(t[i].name) < Place(t[j].name)
                          \/ Place(t[i].name) = 1 /\ Place(t[j].name) = 1
      OBVIOUS
    <3>2. t[i] = s[i + 1] /\ t[j] = s[j + 1]  BY <1>3
    <3>3. i + 1 \in 1 .. n /\ j + 1 \in 1 .. n /\ i + 1 < j + 1  BY <1>1, <3>1
    <3>4. QED  BY <1>5, <3>2, <3>3
  <2>2. t # <<>> => t[Len(t)].name = "contract"
    <3>1. t # <<>> => n - 1 \in 1 .. n - 1 /\ t[n - 1] = s[n - 1 + 1]  BY <1>1, <1>3
    <3>2. n - 1 + 1 = n  OBVIOUS
    <3>3. QED  BY <1>3, <1>9, <3>1, <3>2
  <2>3. \A name \in Needed :
          t # <<>> /\ Place(t[1].name) \in 1 .. Place(name)
            => \E i \in DOMAIN t : t[i].name = name
    <3>1. \A name \in Needed : Place(name) \in 2 .. 6  BY Places
    <3>2. QED  BY <1>3, <1>11, <3>1
  <2>4. \A i \in DOMAIN t : t[i].name = "augment" => config.augmented
    <3>1. \A i \in 1 .. n : s[i].name = "augment" => config.augmented  BY <1>1 DEF Planned
    <3>2. \A i \in 1 .. n - 1 : i + 1 \in 1 .. n  BY <1>1
    <3>3. QED  BY <1>3, <3>1, <3>2
  <2>5. QED  BY <1>2, <1>3, <2>1, <2>2, <2>3, <2>4 DEF Planned
<1>14. t # <<>> =>
         \/ Place(s[1].name) < Place(t[1].name)
         \/ Place(s[1].name) = 1 /\ Place(t[1].name) = 1
  <2>1. SUFFICES ASSUME t # <<>>
                 PROVE  \/ Place(s[1].name) < Place(t[1].name)
                        \/ Place(s[1].name) = 1 /\ Place(t[1].name) = 1
    OBVIOUS
  <2>2. n > 1 /\ t[1] = s[2]  BY <1>1, <1>3, <2>1
  <2>3. QED  BY <1>1, <1>5, <2>2
<1>15. QED  BY <1>1, <1>2, <1>3, <1>10, <1>12, <1>13, <1>14

\* A plan from this place on, for the question.
From(s, place) ==
  /\ Planned(s) /\ s # <<>> /\ Place(s[1].name) >= place
  /\ \A i \in DOMAIN s : s[i].query = 0
  /\ \A name \in Needed : Place(name) >= place => Place(s[1].name) <= Place(name)

\* A stage before a plan makes a plan.
LEMMA Joins ==
  ASSUME NEW place \in 2 .. 5, NEW s, From(s, place + 1),
         NEW name \in Names, Place(name) = place, name = "augment" => config.augmented
  PROVE  From(<<Stage(name, 0)>> \o s, place)
<1>1. PICK x : x = Stage(name, 0) /\ x \in StageType /\ x.name = name /\ x.query = 0
  <2>1. [name |-> name, query |-> 0] \in StageType  BY DEF StageType
  <2>2. QED  BY <2>1 DEF Stage
<1>2. PICK n \in Nat \ {0} : n = Len(s) /\ DOMAIN s = 1 .. n /\ s \in Seq(StageType)
  <2>1. s \in Seq(StageType) /\ s # <<>>  BY DEF From, Planned
  <2>2. Len(s) \in Nat /\ DOMAIN s = 1 .. Len(s) /\ Len(s) # 0  BY <2>1, EmptySeq, LenProperties
  <2>3. QED  BY <2>1, <2>2
<1>3. <<x>> \in Seq(StageType) /\ Len(<<x>>) = 1 /\ <<x>>[1] = x  BY <1>1
<1>31. PICK t : t = <<x>> \o s  OBVIOUS
<1>32. t \in Seq(StageType) /\ Len(t) = 1 + n
       /\ \A i \in 1 .. 1 + n : t[i] = IF i <= 1 THEN <<x>>[i] ELSE s[i - 1]
  BY <1>2, <1>3, <1>31, ConcatProperties
<1>4. /\ Len(t) = n + 1 /\ DOMAIN t = 1 .. n + 1 /\ t[1] = x
      /\ \A i \in 2 .. n + 1 : t[i] = s[i - 1]
  BY <1>2, <1>3, <1>32
<1>5. \A i, j \in 1 .. n : i < j =>
        \/ Place(s[i].name) < Place(s[j].name)
        \/ Place(s[i].name) = 1 /\ Place(s[j].name) = 1
  BY <1>2 DEF From, Planned
<1>6. \A i \in 1 .. n : Place(s[i].name) \in Nat
  <2>1. \A i \in 1 .. n : s[i] \in StageType  BY <1>2
  <2>2. \A i \in 1 .. n : s[i].name \in Names  BY <2>1 DEF StageType
  <2>3. \A i \in 1 .. n : Place(s[i].name) \in 0 .. 8  BY <2>2, Places
  <2>4. QED  BY <2>3
<1>7. \A i \in 1 .. n : Place(s[i].name) > place
  <2>1. Place(s[1].name) > place  BY <1>2, <1>6 DEF From
  <2>2. ASSUME NEW i \in 1 .. n, i # 1 PROVE Place(s[i].name) > place
    <3>1. Place(s[1].name) < Place(s[i].name) \/ Place(s[1].name) = 1
      BY <1>2, <1>5, <2>2
    <3>2. QED  BY <1>2, <1>6, <2>1, <3>1
  <2>3. QED  BY <2>1, <2>2
<1>8. \A i, j \in 1 .. n + 1 : i < j => Place(t[i].name) < Place(t[j].name)
                                  \/ (Place(t[i].name) = 1 /\ Place(t[j].name) = 1)
  <2>1. SUFFICES ASSUME NEW i \in 1 .. n + 1, NEW j \in 1 .. n + 1, i < j
                 PROVE  Place(t[i].name) < Place(t[j].name)
                          \/ (Place(t[i].name) = 1 /\ Place(t[j].name) = 1)
    OBVIOUS
  <2>2. t[j] = s[j - 1] /\ j - 1 \in 1 .. n  BY <1>4, <2>1
  <2>3. CASE i = 1  BY <1>1, <1>4, <1>7, <2>2, <2>3
  <2>4. CASE i # 1
    <3>1. t[i] = s[i - 1] /\ i - 1 \in 1 .. n /\ i - 1 < j - 1  BY <1>4, <2>1, <2>4
    <3>2. QED  BY <1>5, <2>2, <3>1
  <2>5. QED  BY <2>3, <2>4
<1>9. t[Len(t)].name \in {"query-generation", "contract"}
  <2>1. t[n + 1] = s[n]  BY <1>4
  <2>2. s[n].name \in {"query-generation", "contract"}  BY <1>2 DEF From, Planned
  <2>3. QED  BY <1>4, <2>1, <2>2
<1>10. ASSUME NEW other \in Needed, place <= Place(other)
       PROVE  \E i \in 1 .. n + 1 : t[i].name = other
  <2>1. CASE Place(other) = place
    <3>1. other = name  BY <2>1, Places
    <3>2. QED  BY <1>1, <1>4, <3>1
  <2>2. CASE Place(other) # place
    <3>1. Place(other) >= place + 1 /\ Place(other) \in 2 .. 6  BY <1>10, <2>2, Places
    <3>2. Place(s[1].name) \in 1 .. Place(other)  BY <1>2, <1>6, <1>7, <3>1 DEF From
    <3>3. PICK i \in 1 .. n : s[i].name = other  BY <1>2, <3>2 DEF From, Planned
    <3>4. i + 1 \in 2 .. n + 1 /\ t[i + 1] = s[i]  BY <1>4
    <3>5. QED  BY <3>3, <3>4
  <2>3. QED  BY <2>1, <2>2
<1>11. Planned(t)
  <2>1. \A other \in Needed :
          t # <<>> /\ Place(t[1].name) \in 1 .. Place(other)
            => \E i \in DOMAIN t : t[i].name = other
    BY <1>1, <1>4, <1>10
  <2>2. \A i \in DOMAIN t : t[i].name = "augment" => config.augmented
    <3>1. \A i \in 1 .. n : s[i].name = "augment" => config.augmented
      BY <1>2 DEF From, Planned
    <3>2. \A i \in 2 .. n + 1 : i - 1 \in 1 .. n  OBVIOUS
    <3>3. QED  BY <1>1, <1>4, <3>1, <3>2
  <2>3. QED  BY <1>32, <1>4, <1>8, <1>9, <2>1, <2>2 DEF Planned
<1>12. \A i \in 1 .. n + 1 : t[i].query = 0
  <2>1. \A i \in 1 .. n : s[i].query = 0  BY <1>2 DEF From
  <2>2. \A i \in 2 .. n + 1 : i - 1 \in 1 .. n  OBVIOUS
  <2>3. QED  BY <1>1, <1>4, <2>1, <2>2
<1>13. t # <<>>  BY <1>4
<1>14. From(t, place)  BY <1>1, <1>4, <1>11, <1>12, <1>13 DEF From
<1>15. QED  BY <1>1, <1>31, <1>14

\* A place that nothing needs can be skipped.
LEMMA Skips ==
  ASSUME NEW place \in 2 .. 5, NEW s, From(s, place + 1),
         \A name \in Needed : Place(name) # place
  PROVE  From(s, place)
<1>1. s \in Seq(StageType) /\ s # <<>>  BY DEF From, Planned
<1>2. Place(s[1].name) \in Nat
  <2>1. s[1] \in StageType  BY <1>1
  <2>2. QED  BY <2>1, Places DEF StageType
<1>3. \A name \in Needed : Place(name) >= place => Place(name) >= place + 1  BY Places
<1>4. QED  BY <1>2, <1>3 DEF From

\* One sequence after another.
Joined(s, t) == s \o t

\* It does not matter which of three are joined first.
LEMMA Associative ==
  ASSUME NEW S, NEW s \in Seq(S), NEW t \in Seq(S), NEW u \in Seq(S)
  PROVE  Joined(s, t) \in Seq(S) /\ Joined(Joined(s, t), u) = Joined(s, Joined(t, u))
BY ConcatAssociative, ConcatProperties DEF Joined

\* Five sequences one after the other.
LEMMA JoinedInTurn ==
  ASSUME NEW S, NEW a \in Seq(S), NEW h \in Seq(S), NEW b \in Seq(S), NEW c \in Seq(S),
         NEW r \in Seq(S)
  PROVE  Joined(Joined(Joined(Joined(a, h), b), c), r)
           = Joined(a, Joined(h, Joined(b, Joined(c, r))))
<1>1. \A s, t \in Seq(S) : Joined(s, t) \in Seq(S) BY Associative
<1>2. PICK x \in Seq(S) : x = Joined(a, h)  BY <1>1
<1>3. PICK y \in Seq(S) : y = Joined(x, b)  BY <1>1
<1>4. PICK z \in Seq(S) : z = Joined(c, r)  BY <1>1
<1>5. PICK w \in Seq(S) : w = Joined(b, z)  BY <1>1
<1>6. Joined(Joined(y, c), r) = Joined(y, z)  BY <1>4, Associative
<1>7. Joined(Joined(x, b), z) = Joined(x, w)  BY <1>5, Associative
<1>8. Joined(Joined(a, h), w) = Joined(a, Joined(h, w))  BY Associative
<1>9. QED  BY <1>2, <1>3, <1>4, <1>5, <1>6, <1>7, <1>8

\* What follows the searches.
LEMMA AfterSearchPlanned == ASSUME config \in Configs PROVE From(AfterSearch, 2)
<1>1. From(AfterRetrieval, 6) /\ AfterRetrieval \in Seq(StageType)
  <2>1. PICK middle \in {"generation", "batch"} :
          AfterRetrieval = <<Stage("context", 0), Stage(middle, 0), Stage("contract", 0)>>
    BY DEF AfterRetrieval
  <2>2. PICK r : r = <<Stage("context", 0), Stage(middle, 0), Stage("contract", 0)>>  OBVIOUS
  <2>3. r \in Seq(StageType) /\ Len(r) = 3  BY <2>2 DEF StageType, Names, Stage
  <2>4. r[1].name = "context" /\ r[2].name = middle /\ r[3].name = "contract"
    BY <2>2 DEF Stage
  <2>5. \A i \in 1 .. 3 : r[i].query = 0  BY <2>2 DEF Stage
  <2>6. Place(r[1].name) = 6 /\ Place(r[2].name) = 7 /\ Place(r[3].name) = 8
    BY <2>4, Places
  <2>7. \A name \in Needed : 6 <= Place(name) => name = "context"
    <3>1. "context" \in Names  BY DEF Names
    <3>2. QED  BY <3>1, Places
  <2>8. DOMAIN r = 1 .. 3  BY <2>3
  <2>9. \A i, j \in 1 .. 3 : i < j => Place(r[i].name) < Place(r[j].name)  BY <2>6
  <2>10. Planned(r)  BY <2>3, <2>4, <2>6, <2>7, <2>8, <2>9 DEF Planned
  <2>11. From(r, 6)  BY <2>3, <2>5, <2>6, <2>7, <2>8, <2>10, Places DEF From
  <2>12. QED  BY <2>1, <2>2, <2>3, <2>11
<1> DEFINE a == IF Alone THEN <<>> ELSE <<Stage("fusion", 0)>>
           h == <<Stage("hydrate", 0)>>
           b == IF config.strategy = "rrf-reranked" THEN <<Stage("reranking", 0)>> ELSE <<>>
           c == IF config.augmented THEN <<Stage("augment", 0)>> ELSE <<>>
           r == AfterRetrieval
<1>2. /\ a \in Seq(StageType) /\ h \in Seq(StageType) /\ b \in Seq(StageType)
      /\ c \in Seq(StageType) /\ r \in Seq(StageType)
  <2>1. \A name \in Names : Stage(name, 0) \in StageType  BY DEF StageType, Stage
  <2>2. {"fusion", "hydrate", "reranking", "augment"} \subseteq Names  BY DEF Names
  <2>3. \A x \in StageType : <<x>> \in Seq(StageType)  OBVIOUS
  <2>4. <<>> \in Seq(StageType)  OBVIOUS
  <2>5. QED  BY <1>1, <2>1, <2>2, <2>3, <2>4
<1>3. AfterSearch = a \o h \o b \o c \o r  BY DEF AfterSearch, Alone
<1> HIDE DEF r
<1>4. From(c \o r, 5) /\ c \o r \in Seq(StageType)
  <2>1. From(c \o r, 5)
    <3>1. CASE config.augmented
      <4>1. "augment" \in Names  BY DEF Names
      <4>2. From(r, 5 + 1)  BY <1>1 DEF r
      <4>3. QED  BY <3>1, <4>1, <4>2, Joins, Places
    <3>2. CASE ~config.augmented
      <4>1. \A name \in Needed : Place(name) # 5  BY Places DEF Needed
      <4>2. From(r, 5 + 1)  BY <1>1 DEF r
      <4>3. From(r, 5)  BY <4>1, <4>2, Skips
      <4>4. c \o r = r  BY <1>2, <3>2
      <4>5. QED  BY <4>3, <4>4
    <3>3. QED  BY <3>1, <3>2
  <2>2. QED  BY <1>2, <2>1
<1> HIDE DEF c
<1>5. From(b \o (c \o r), 4) /\ b \o (c \o r) \in Seq(StageType)
  <2>1. From(c \o r, 4 + 1)  BY <1>4
  <2>2. From(b \o (c \o r), 4)
    <3>1. CASE config.strategy = "rrf-reranked"
      <4>1. "reranking" \in Names  BY DEF Names
      <4>2. QED  BY <2>1, <3>1, <4>1, Joins, Places
    <3>2. CASE config.strategy # "rrf-reranked"
      <4>1. \A name \in Needed : Place(name) # 4  BY <3>2, Places DEF Needed
      <4>2. From(c \o r, 4)  BY <2>1, <4>1, Skips
      <4>3. b \o (c \o r) = c \o r  BY <1>4, <3>2
      <4>4. QED  BY <4>2, <4>3
    <3>3. QED  BY <3>1, <3>2
  <2>3. QED  BY <1>2, <1>4, <2>2
<1> HIDE DEF b
<1>6. From(h \o (b \o (c \o r)), 3) /\ h \o (b \o (c \o r)) \in Seq(StageType)
  <2>1. From(b \o (c \o r), 3 + 1)  BY <1>5
  <2>2. "hydrate" \in Names  BY DEF Names
  <2>3. From(h \o (b \o (c \o r)), 3)  BY <2>1, <2>2, Joins, Places
  <2>4. QED  BY <1>2, <1>5, <2>3
<1> HIDE DEF h
<1>7. From(a \o (h \o (b \o (c \o r))), 2)
  <2>1. From(h \o (b \o (c \o r)), 2 + 1)  BY <1>6
  <2>2. CASE ~Alone
    <3>1. "fusion" \in Names  BY DEF Names
    <3>2. QED  BY <2>1, <2>2, <3>1, Joins, Places
  <2>3. CASE Alone
    <3>1. \A name \in Needed : Place(name) # 2  BY <2>3, Places DEF Needed
    <3>2. From(h \o (b \o (c \o r)), 2)  BY <2>1, <3>1, Skips
    <3>3. a \o (h \o (b \o (c \o r))) = h \o (b \o (c \o r))  BY <1>6, <2>3
    <3>4. QED  BY <3>2, <3>3
  <2>4. QED  BY <2>2, <2>3
<1>8. AfterSearch = a \o (h \o (b \o (c \o r)))
  <2> HIDE DEF a
  <2>1. PICK v \in Seq(StageType), w \in Seq(StageType), x \in Seq(StageType),
             y \in Seq(StageType), z \in Seq(StageType) :
          v = a /\ w = h /\ x = b /\ y = c /\ z = r
    BY <1>2, Zenon
  <2>2. Joined(Joined(Joined(Joined(v, w), x), y), z)
          = Joined(v, Joined(w, Joined(x, Joined(y, z))))
    BY JoinedInTurn
  <2>3. QED  BY <1>3, <2>1, <2>2, Zenon DEF Joined
<1>9. QED  BY <1>7, <1>8

\* A plan that begins with n searches, the first of the question, all of them if plain.
SearchPlan(s, n, plain) ==
  /\ Planned(s) /\ s # <<>>
  /\ \A i \in DOMAIN s : Place(s[i].name) = 1 <=> i <= n
  /\ s[1].query = 0 /\ (plain => \A i \in DOMAIN s : s[i].query = 0)

\* Searches and what follows them make such a plan.
LEMMA SearchesFirst ==
  ASSUME config \in Configs, NEW t \in Seq(StageType), t # <<>>, t[1].query = 0,
         \A i \in DOMAIN t : Place(t[i].name) = 1,
         NEW plain \in BOOLEAN, plain => \A i \in DOMAIN t : t[i].query = 0
  PROVE  SearchPlan(t \o AfterSearch, Len(t), plain)
<1>1. PICK a : a = AfterSearch /\ From(a, 2)  BY AfterSearchPlanned
<1>2. PICK n \in Nat \ {0} : n = Len(t) /\ DOMAIN t = 1 .. n
  <2>1. Len(t) \in Nat /\ DOMAIN t = 1 .. Len(t) /\ Len(t) # 0  BY EmptySeq, LenProperties
  <2>2. QED  BY <2>1
<1>3. PICK m \in Nat \ {0} : m = Len(a) /\ DOMAIN a = 1 .. m /\ a \in Seq(StageType)
  <2>1. a \in Seq(StageType) /\ a # <<>>  BY <1>1 DEF From, Planned
  <2>2. Len(a) \in Nat /\ DOMAIN a = 1 .. Len(a) /\ Len(a) # 0  BY <2>1, EmptySeq, LenProperties
  <2>3. QED  BY <2>1, <2>2
<1>4. PICK s : s = t \o a  OBVIOUS
<1>5. /\ s \in Seq(StageType) /\ Len(s) = n + m
      /\ \A i \in 1 .. n + m : s[i] = IF i <= n THEN t[i] ELSE a[i - n]
  BY <1>2, <1>3, <1>4, ConcatProperties
<1>6. DOMAIN s = 1 .. n + m /\ s # <<>>  BY <1>2, <1>3, <1>5
<1>7. /\ \A i \in 1 .. n : i \in 1 .. n + m /\ s[i] = t[i] /\ Place(s[i].name) = 1
      /\ \A i \in 1 .. n + m : i > n => s[i] = a[i - n] /\ i - n \in 1 .. m
  <2>1. ASSUME NEW i \in 1 .. n PROVE i \in 1 .. n + m /\ s[i] = t[i]
    BY <1>2, <1>3, <1>5
  <2>2. ASSUME NEW i \in 1 .. n + m, i > n PROVE s[i] = a[i - n] /\ i - n \in 1 .. m
    BY <1>2, <1>3, <1>5, <2>2
  <2>3. \A i \in 1 .. n : Place(t[i].name) = 1  BY <1>2
  <2>4. QED  BY <2>1, <2>2, <2>3
<1>8. \A i \in 1 .. m : Place(a[i].name) \in 2 .. 8
  <2>1. \A i \in 1 .. m : a[i] \in StageType  BY <1>3
  <2>2. \A i \in 1 .. m : a[i].name \in Names  BY <2>1 DEF StageType
  <2>3. \A i \in 1 .. m : Place(a[i].name) \in 0 .. 8  BY <2>2, Places
  <2>4. Place(a[1].name) >= 2  BY <1>1 DEF From
  <2>5. \A i \in 1 .. m : i > 1 =>
          Place(a[1].name) < Place(a[i].name) \/ Place(a[1].name) = 1
    BY <1>1, <1>3 DEF From, Planned
  <2>6. QED  BY <1>3, <2>3, <2>4, <2>5
<1>9. \A i \in 1 .. n + m : Place(s[i].name) = 1 <=> i <= n
  <2>1. ASSUME NEW i \in 1 .. n + m PROVE Place(s[i].name) = 1 <=> i <= n
    <3>1. CASE i <= n  BY <1>2, <1>7, <3>1
    <3>2. CASE i > n  BY <1>7, <1>8, <3>2
    <3>3. QED  BY <1>2, <3>1, <3>2
  <2>2. QED  BY <2>1
<1>10. Planned(s)
  <2>1. ASSUME NEW i \in 1 .. n + m, NEW j \in 1 .. n + m, i < j
        PROVE  \/ Place(s[i].name) < Place(s[j].name)
               \/ Place(s[i].name) = 1 /\ Place(s[j].name) = 1
    <3>1. CASE j <= n  BY <1>2, <1>9, <2>1, <3>1
    <3>2. CASE j > n /\ i <= n
      <4>1. Place(s[i].name) = 1  BY <1>9, <3>2
      <4>2. Place(s[j].name) \in 2 .. 8  BY <1>7, <1>8, <3>2
      <4>3. QED  BY <4>1, <4>2
    <3>3. CASE i > n
      <4>1. s[i] = a[i - n] /\ s[j] = a[j - n] /\ i - n \in 1 .. m /\ j - n \in 1 .. m
        BY <1>2, <1>7, <2>1, <3>3
      <4>2. i - n < j - n  BY <1>2, <2>1
      <4>3. QED  BY <1>1, <1>3, <4>1, <4>2 DEF From, Planned
    <3>4. QED  BY <1>2, <3>1, <3>2, <3>3
  <2>2. s[Len(s)].name \in {"query-generation", "contract"}
    <3>1. n + m \in 1 .. n + m /\ n + m > n /\ (n + m) - n = m  BY <1>2, <1>3
    <3>2. s[n + m] = a[m]  BY <1>7, <3>1
    <3>3. QED  BY <1>1, <1>3, <1>5, <3>2 DEF From, Planned
  <2>3. \A i \in DOMAIN s : s[i].name = "augment" => config.augmented
    <3>1. \A i \in 1 .. n : s[i].name # "augment"
      <4>1. \A i \in 1 .. n : Place(s[i].name) = 1  BY <1>7
      <4>2. QED  BY <4>1, Places
    <3>2. \A i \in 1 .. m : a[i].name = "augment" => config.augmented
      BY <1>1, <1>3 DEF From, Planned
    <3>3. QED  BY <1>2, <1>6, <1>7, <3>1, <3>2
  <2>4. ASSUME NEW name \in Needed PROVE \E i \in DOMAIN s : s[i].name = name
    <3>1. Place(name) \in 2 .. 6  BY Places
    <3>2. Place(a[1].name) \in 1 .. Place(name)  BY <1>1, <1>3, <1>8, <3>1 DEF From
    <3>3. PICK i \in 1 .. m : a[i].name = name  BY <1>1, <1>3, <3>2 DEF From, Planned
    <3>4. n + i \in 1 .. n + m /\ n + i > n /\ (n + i) - n = i  BY <1>2, <1>3
    <3>5. s[n + i] = a[i]  BY <1>7, <3>4
    <3>6. QED  BY <1>6, <3>3, <3>4, <3>5
  <2>5. QED  BY <1>5, <1>6, <2>1, <2>2, <2>3, <2>4 DEF Planned
<1>11. s[1].query = 0  BY <1>2, <1>7
<1>12. ASSUME plain, NEW i \in 1 .. n + m PROVE s[i].query = 0
  <2>1. CASE i <= n  BY <1>2, <1>7, <1>12, <2>1
  <2>2. CASE i > n
    <3>1. \A k \in 1 .. m : a[k].query = 0  BY <1>1, <1>3 DEF From
    <3>2. QED  BY <1>7, <2>2, <3>1
  <2>3. QED  BY <1>2, <2>1, <2>2
<1>13. SearchPlan(s, n, plain)  BY <1>6, <1>9, <1>10, <1>11, <1>12 DEF SearchPlan
<1>14. QED  BY <1>1, <1>2, <1>4, <1>13

\* Both channels are searched first.
LEMMA BothFirst ==
  ASSUME config \in Configs, NEW query \in Nat, NEW plain \in BOOLEAN, plain => query = 0
  PROVE  SearchPlan(BothChannels(0, query) \o AfterSearch, 2, plain)
<1>1. PICK t : t = BothChannels(0, query)  OBVIOUS
<1>2. t = <<Stage("lexical", 0), Stage("vector", query)>>  BY <1>1 DEF BothChannels
<1>3. Stage("lexical", 0) \in StageType /\ Stage("vector", query) \in StageType
  BY DEF Stage, StageType, Names
<1>4. t \in Seq(StageType) /\ Len(t) = 2 /\ t # <<>>  BY <1>2, <1>3
<1>5. DOMAIN t = 1 .. 2 /\ t[1] = Stage("lexical", 0) /\ t[2] = Stage("vector", query)
  BY <1>2, <1>4
<1>6. t[1].query = 0 /\ t[2].query = query  BY <1>5 DEF Stage
<1>7. Place(t[1].name) = 1 /\ Place(t[2].name) = 1  BY <1>5, Places DEF Stage
<1>8. SearchPlan(t \o AfterSearch, Len(t), plain)
  <2>1. \A i \in DOMAIN t : i = 1 \/ i = 2  BY <1>5
  <2>2. \A i \in DOMAIN t : Place(t[i].name) = 1  BY <1>7, <2>1
  <2>3. plain => \A i \in DOMAIN t : t[i].query = 0  BY <1>6, <2>1
  <2>4. QED  BY <1>4, <1>6, <2>2, <2>3, SearchesFirst
<1>9. QED  BY <1>1, <1>4, <1>8

\* The turn begins with reformulations of the question.
Reformulates == config.strategy \in {"multi-query", "hyde"}

\* The plan a turn begins with.
LEMMA StrategyPlanned ==
  ASSUME config \in Configs
  PROVE  IF Reformulates
         THEN Planned(Strategy) /\ Strategy = <<Stage("query-generation", 0)>>
         ELSE SearchPlan(Strategy, IF Alone THEN 1 ELSE 2, TRUE)
<1>1. config.strategy \in Strategies  BY ConfigAssumption
<1>2. CASE Reformulates
  <2>1. Strategy = <<Stage("query-generation", 0)>>  BY <1>2 DEF Reformulates, Strategy
  <2>2. PICK s : s = <<Stage("query-generation", 0)>>  OBVIOUS
  <2>3. s \in Seq(StageType) /\ Len(s) = 1 /\ s[1].name = "query-generation" /\ DOMAIN s = 1 .. 1
    <3>1. Stage("query-generation", 0) \in StageType  BY DEF Stage, StageType, Names
    <3>2. Stage("query-generation", 0).name = "query-generation"  BY DEF Stage
    <3>3. QED  BY <2>2, <3>1, <3>2
  <2>4. Place(s[1].name) = 0  BY <2>3, Places
  <2>5. Planned(s)  BY <2>3, <2>4 DEF Planned
  <2>6. QED  BY <1>2, <2>1, <2>2, <2>5
<1>3. CASE Alone
  <2>1. PICK name \in {"lexical", "vector"} : Strategy = <<Stage(name, 0)>> \o AfterSearch
    BY <1>3 DEF Alone, Strategy
  <2>2. PICK t : t = <<Stage(name, 0)>>  OBVIOUS
  <2>3. t \in Seq(StageType) /\ Len(t) = 1 /\ t # <<>> /\ DOMAIN t = 1 .. 1
        /\ t[1].name = name /\ t[1].query = 0
    <3>1. Stage(name, 0) \in StageType  BY DEF Stage, StageType, Names
    <3>2. Stage(name, 0).name = name /\ Stage(name, 0).query = 0  BY DEF Stage
    <3>3. QED  BY <2>2, <3>1, <3>2
  <2>4. Place(t[1].name) = 1  BY <2>3, Places
  <2>5. SearchPlan(t \o AfterSearch, Len(t), TRUE)
    <3>1. \A i \in DOMAIN t : i = 1  BY <2>3
    <3>2. \A i \in DOMAIN t : Place(t[i].name) = 1 /\ t[i].query = 0  BY <2>3, <2>4, <3>1
    <3>3. QED  BY <2>3, <3>2, SearchesFirst
  <2>6. ~Reformulates  BY <1>3 DEF Alone, Reformulates
  <2>7. QED  BY <1>3, <2>1, <2>2, <2>3, <2>5, <2>6
<1>4. CASE ~Reformulates /\ ~Alone
  <2>1. Strategy = BothChannels(0, 0) \o AfterSearch
    BY <1>1, <1>4 DEF Alone, Reformulates, Strategies, Strategy
  <2>2. SearchPlan(BothChannels(0, 0) \o AfterSearch, 2, TRUE)  BY BothFirst
  <2>3. QED  BY <1>4, <2>1, <2>2
<1>5. QED  BY <1>2, <1>3, <1>4

\* The plan after query generation, of every reformulation or of the question alone.
LEMMA VariantsPlanned ==
  ASSUME config \in Configs, Reformulates, NEW usable \in BOOLEAN
  PROVE  SearchPlan(WithVariants(usable),
           IF config.strategy = "multi-query" /\ usable THEN 2 * (QueryVariants + 1) ELSE 2,
           ~usable)
<1>1. CASE config.strategy = "hyde"
  <2>1. PICK q \in {0, 1} : q = IF usable THEN 1 ELSE 0  OBVIOUS
  <2>2. WithVariants(usable) = BothChannels(0, q) \o AfterSearch
    BY <1>1, <2>1 DEF WithVariants
  <2>3. SearchPlan(BothChannels(0, q) \o AfterSearch, 2, ~usable)
    BY <2>1, BothFirst
  <2>4. QED  BY <1>1, <2>2, <2>3
<1>2. CASE config.strategy = "multi-query"
  <2>1. PICK v \in Nat : v = IF usable THEN QueryVariants ELSE 0  BY LimitAssumption
  <2>2. PICK n \in Nat \ {0} : n = 2 * (v + 1)  OBVIOUS
  <2>3. PICK t : t = [i \in 1 .. n |->
                       Stage(IF i % 2 = 1 THEN "lexical" ELSE "vector", (i - 1) \div 2)]
    OBVIOUS
  <2>4. WithVariants(usable) = t \o AfterSearch  BY <1>2, <2>1, <2>2, <2>3 DEF WithVariants
  <2>5. ASSUME NEW i \in 1 .. n
        PROVE  t[i] \in StageType /\ t[i].name \in {"lexical", "vector"}
               /\ t[i].query = (i - 1) \div 2
    <3>1. PICK q \in Nat : q = (i - 1) \div 2  OBVIOUS
    <3>2. PICK name \in {"lexical", "vector"} : name = IF i % 2 = 1 THEN "lexical" ELSE "vector"
      OBVIOUS
    <3>3. t[i] = [name |-> name, query |-> q]  BY <2>3, <3>1, <3>2 DEF Stage
    <3>4. QED  BY <3>1, <3>3 DEF StageType, Names
  <2>6. t \in Seq(StageType) /\ Len(t) = n /\ t # <<>> /\ DOMAIN t = 1 .. n
    <3>1. DOMAIN t = 1 .. n  BY <2>3
    <3>2. t \in [1 .. n -> StageType]  BY <2>3, <2>5
    <3>3. t \in Seq(StageType) /\ Len(t) = n  BY <3>2
    <3>4. t # <<>>  BY <3>3
    <3>5. QED  BY <3>1, <3>3, <3>4
  <2>7. \A i \in DOMAIN t : Place(t[i].name) = 1  BY <2>5, <2>6, Places
  <2>8. t[1].query = 0
    <3>1. (1 - 1) \div 2 = 0  OBVIOUS
    <3>2. QED  BY <2>2, <2>5, <3>1
  <2>9. ~usable => \A i \in DOMAIN t : t[i].query = 0
    <3>1. ASSUME ~usable, NEW i \in 1 .. n PROVE (i - 1) \div 2 = 0
      <4>1. i \in 1 .. 2  BY <2>1, <2>2, <3>1
      <4>2. QED  BY <4>1
    <3>2. QED  BY <2>5, <2>6, <3>1
  <2>10. SearchPlan(t \o AfterSearch, Len(t), ~usable)
    BY <2>6, <2>7, <2>8, <2>9, SearchesFirst
  <2>11. QED  BY <1>2, <2>1, <2>2, <2>4, <2>6, <2>10
<1>3. QED  BY <1>1, <1>2 DEF Reformulates

-----------------------------------------------------------------------------
(* How a step goes on with the turn.                                       *)

\* The turn goes on to the next stage, or is over; or it fails.
Moves ==
  /\ turn = "running" /\ todo # <<>> /\ todo[1].name # "query-generation"
  /\ todo' = Tail(todo) /\ started' = FALSE /\ config' = config
  /\ turn' = IF Tail(todo) = <<>> THEN "answered" ELSE turn
Halts == turn = "running" /\ turn' = "failed" /\ UNCHANGED <<config, todo, started>>

\* What is planned depends on the configuration of the turn only.
LEMMA PlannedFrame ==
  ASSUME config' = config, NEW s  PROVE  Planned(s)' <=> Planned(s)
<1>1. Needed' = Needed  BY DEF Needed, Alone
<1>2. QED  BY <1>1 DEF Planned

\* The turn goes on with the rest of the plan.
LEMMA MovesOn ==
  ASSUME PlanInv, Moves
  PROVE  /\ turn' \in {"running", "answered"} /\ Live /\ Live' /\ ~Generating /\ ~Generating'
         /\ Planned(todo) /\ Planned(todo)'
         /\ turn' = "answered" <=> todo' = <<>>
         /\ turn' = "answered" <=> todo[1].name = "contract"
         /\ Place(todo[1].name) \in 1 .. 8
<1>1. PICK s : s = todo  OBVIOUS
<1>2. Planned(s) /\ s # <<>> /\ s[1].name # "query-generation" /\ Live
  BY <1>1 DEF Moves, PlanInv, Live
<1>3. PICK r : r = Tail(s)  OBVIOUS
<1>4. Planned(r) /\ (r = <<>> <=> s[1].name = "contract")
  BY <1>2, <1>3, RestPlanned
<1>5. todo' = r /\ turn' = IF r = <<>> THEN "answered" ELSE "running"
  BY <1>1, <1>3 DEF Moves
<1>6. Planned(r)'  BY <1>4, PlannedFrame DEF Moves
<1>7. Planned(todo)'  BY <1>5, <1>6
<1>8. r # <<>> => r[1].name # "query-generation"
  <2>1. SUFFICES ASSUME r # <<>> PROVE Place(r[1].name) # 0
    BY Places
  <2>2. Place(s[1].name) < Place(r[1].name) \/ Place(r[1].name) = 1
    BY <1>2, <1>3, <2>1, RestPlanned
  <2>3. s[1].name \in Names
    <3>1. s \in Seq(StageType) /\ s # <<>>  BY <1>2 DEF Planned
    <3>2. s[1] \in StageType  BY <3>1
    <3>3. QED  BY <3>2 DEF StageType
  <2>4. Place(s[1].name) \in 0 .. 8  BY <2>3, Places
  <2>5. QED  BY <2>2, <2>4
<1>9. s[1].name \in Names
  <2>1. s \in Seq(StageType)  BY <1>2 DEF Planned
  <2>2. s[1] \in StageType  BY <1>2, <2>1
  <2>3. QED  BY <2>2 DEF StageType
<1>10. Place(s[1].name) \in 1 .. 8
  <2>1. Place(s[1].name) \in 0 .. 8 /\ Place(s[1].name) # 0  BY <1>2, <1>9, Places
  <2>2. QED  BY <2>1
<1>11. turn' \in {"running", "answered"} /\ Live' /\ (turn' = "answered" <=> todo' = <<>>)
  BY <1>5 DEF Live
<1>12. ~Generating'  BY <1>5, <1>8 DEF Generating
<1>13. ~Generating  BY <1>1, <1>2 DEF Generating
<1>14. QED  BY <1>1, <1>2, <1>4, <1>5, <1>7, <1>10, <1>11, <1>12, <1>13

\* What it has passed it has passed for good, and it passes what it needs one by one.
LEMMA MovesPast ==
  ASSUME PlanInv, Moves, NEW p \in 1 .. 8
  PROVE  /\ Passed(p) <=> p < Place(todo[1].name)
         /\ Ahead(p) <=> ~Passed(p)
         /\ Ahead(p)' <=> ~Passed(p)'
         /\ Passed(p) => Passed(p)'
         /\ p # 1 /\ p = Place(todo[1].name) => Passed(p)'
         /\ \A name \in Needed :
              p = Place(name) /\ Place(todo[1].name) < p => ~Passed(p)'
<1>1. PICK s : s = todo  OBVIOUS
<1>2. /\ Planned(s) /\ s # <<>> /\ s[1].name # "query-generation"
      /\ turn = "running" /\ Place(s[1].name) \in 1 .. 8
  BY <1>1, MovesOn DEF Moves, PlanInv, Live
<1>3. PICK r : r = Tail(s)  OBVIOUS
<1>4. todo' = r /\ turn' = IF r = <<>> THEN "answered" ELSE "running"
  BY <1>1, <1>3 DEF Moves
<1>5. Passed(p) <=> p < Place(s[1].name)  BY <1>1, <1>2 DEF Passed, Live
<1>6. Passed(p)' <=> (r = <<>> \/ Place(r[1].name) > p)  BY <1>4 DEF Passed, Live
<1>7. /\ Planned(r) /\ (r = <<>> <=> s[1].name = "contract")
      /\ r # <<>> =>
           /\ \/ Place(s[1].name) < Place(r[1].name)
              \/ Place(s[1].name) = 1 /\ Place(r[1].name) = 1
           /\ \A name \in Needed :
                Place(s[1].name) < Place(name) => Place(r[1].name) <= Place(name)
  BY <1>2, <1>3, RestPlanned
<1>8. r # <<>> => Place(r[1].name) \in 0 .. 8
  <2>1. r # <<>> => r[1] \in StageType
    <3>1. r \in Seq(StageType)  BY <1>7 DEF Planned
    <3>2. QED  BY <3>1
  <2>2. r # <<>> => r[1].name \in Names  BY <2>1 DEF StageType
  <2>3. QED  BY <2>2, Places
<1>9. Passed(p) => Passed(p)'  BY <1>2, <1>5, <1>6, <1>7, <1>8
<1>10. p # 1 /\ p = Place(s[1].name) => Passed(p)'  BY <1>2, <1>6, <1>7, <1>8
<1>11. ASSUME NEW name \in Needed, p = Place(name), Place(s[1].name) < p
       PROVE  ~Passed(p)'
  <2>1. r # <<>>
    <3>1. p \in 2 .. 6  BY <1>11, Places
    <3>2. Place(s[1].name) # 8  BY <1>11, <3>1
    <3>3. QED  BY <1>7, <3>2, Places
  <2>2. QED  BY <1>2, <1>6, <1>7, <1>8, <1>11, <2>1
<1>12. Ahead(p) <=> ~Passed(p)  BY <1>2 DEF Ahead
<1>13. Ahead(p)' <=> ~Passed(p)'
  <2>1. turn' = "answered" => Passed(p)'  BY <1>4, <1>6
  <2>2. turn' \in {"running", "answered"}  BY <1>4
  <2>3. turn' = "running" => (Ahead(p)' <=> ~Passed(p)')  BY DEF Ahead
  <2>4. turn' = "answered" => ~Ahead(p)'  BY DEF Ahead
  <2>5. QED  BY <2>1, <2>2, <2>3, <2>4
<1>14. QED  BY <1>1, <1>5, <1>9, <1>10, <1>11, <1>12, <1>13

\* A turn that has failed passes nothing and has nothing ahead.
LEMMA HaltsThere ==
  ASSUME Halts
  PROVE  ~Live' /\ ~Generating' /\ \A p \in 1 .. 8 : ~Passed(p)' /\ ~Ahead(p)'
BY DEF Halts, Live, Generating, Passed, Ahead

\* A search, or another stage, keeps the plan.
LEMMA PlanMoves ==
  ASSUME PlanInv, QueryInv, ChannelInv, config \in Configs, Moves, degraded' = degraded,
         \/ Place(todo[1].name) # 1 /\ channels' = channels
         \/ /\ Place(todo[1].name) = 1
            /\ \E c \in Channel : c.query = todo[1].query /\ channels' = Append(channels, c)
  PROVE  PlanInv' /\ QueryInv' /\ (Place(todo[1].name) = 1 => Len(channels) < Searches)
<1>1. PICK s : s = todo  OBVIOUS
<1>2. /\ Planned(s) /\ s # <<>> /\ s[1].name # "query-generation"
      /\ turn = "running" /\ Place(s[1].name) \in 1 .. 8 /\ Live /\ ~Generating
  BY <1>1, MovesOn DEF Moves
<1>3. PICK r : r = Tail(s)  OBVIOUS
<1>4. PICK n \in Nat \ {0} : n = Len(s) /\ DOMAIN s = 1 .. n
  BY <1>2, RestPlanned
<1>5. /\ Planned(r) /\ DOMAIN r = 1 .. n - 1 /\ \A i \in 1 .. n - 1 : r[i] = s[i + 1]
      /\ (r = <<>> <=> s[1].name = "contract")
  BY <1>2, <1>3, <1>4, RestPlanned
<1>6. todo' = r  BY <1>1, <1>3 DEF Moves
<1>7. PICK m \in Nat \ {0} : m = Searches /\ m = Searches'
  <2>1. Searches' = Searches  BY DEF Moves, Searches, Alone
  <2>2. QueryVariants \in Nat  BY LimitAssumption
  <2>3. Searches \in Nat \ {0}  BY <2>2 DEF Searches
  <2>4. QED  BY <2>1, <2>3
<1>8. PICK k \in Nat : k = Len(channels) /\ channels \in Seq(Channel) /\ DOMAIN channels = 1 .. k
  BY DEF ChannelInv
<1>9. k <= m /\ \A i \in 1 .. n : Place(s[i].name) = 1 <=> i <= m - k
  BY <1>1, <1>2, <1>4, <1>7, <1>8 DEF PlanInv
<1>10. Place(s[1].name) = 1 <=> 1 <= m - k  BY <1>4, <1>9
<1>11. \A i \in 1 .. n - 1 : Place(r[i].name) = 1 <=> i + 1 <= m - k
  <2>1. \A i \in 1 .. n - 1 : i + 1 \in 1 .. n  BY <1>4
  <2>2. QED  BY <1>5, <1>9, <2>1
<1>12. CASE Place(s[1].name) = 1
  <2>1. PICK c \in Channel : c.query = s[1].query /\ channels' = Append(channels, c)
    BY <1>1, <1>12
  <2>2. PICK d : d = Append(channels, c)  OBVIOUS
  <2>3. /\ Len(d) = k + 1 /\ DOMAIN d = 1 .. k + 1 /\ d[k + 1] = c
        /\ \A i \in 1 .. k : d[i] = channels[i]
    BY <1>8, <2>2, AppendProperties
  <2>4. channels' = d  BY <2>1, <2>2
  <2>5. k + 1 <= m /\ \A i \in 1 .. n - 1 : Place(r[i].name) = 1 <=> i <= m - (k + 1)
    BY <1>4, <1>7, <1>8, <1>10, <1>11, <1>12
  <2>6. r # <<>>  BY <1>5, <1>12, Places
  <2>7. PlanInv'
    <3>1. turn' = "running" /\ todo' # <<>>  BY <1>2, <1>6, <2>6, MovesOn
    <3>2. Planned(todo)' /\ ~Generating'  BY MovesOn
    <3>3. Len(channels') <= Searches'  BY <1>7, <2>3, <2>4, <2>5
    <3>4. \A i \in DOMAIN todo' : Place(todo'[i].name) = 1 <=> i <= Searches' - Len(channels')
      BY <1>5, <1>6, <1>7, <2>3, <2>4, <2>5
    <3>5. QED  BY <3>1, <3>2, <3>3, <3>4 DEF PlanInv
  <2>8. degraded => \A i \in 1 .. k + 1 : d[i].query = 0
    <3>1. degraded => s[1].query = 0  BY <1>1, <1>2, <1>4 DEF QueryInv
    <3>2. degraded => \A i \in 1 .. k : channels[i].query = 0  BY <1>8 DEF QueryInv
    <3>3. QED  BY <1>8, <2>1, <2>3, <3>1, <3>2
  <2>9. degraded => \A i \in 1 .. n - 1 : r[i].query = 0
    <3>1. degraded => \A i \in 1 .. n : s[i].query = 0  BY <1>1, <1>2, <1>4 DEF QueryInv
    <3>2. \A i \in 1 .. n - 1 : i + 1 \in 1 .. n  BY <1>4
    <3>3. QED  BY <1>5, <3>1, <3>2
  <2>10. d[1].query = 0
    <3>1. CASE k = 0
      <4>1. channels = <<>>  BY <1>8, <3>1
      <4>2. s[1].query = 0  BY <1>1, <1>2, <4>1 DEF QueryInv
      <4>3. QED  BY <2>1, <2>3, <3>1, <4>2
    <3>2. CASE k # 0
      <4>1. channels # <<>> /\ 1 \in 1 .. k  BY <1>8, <3>2
      <4>2. channels[1].query = 0  BY <1>2, <4>1 DEF QueryInv
      <4>3. QED  BY <2>3, <4>1, <4>2
    <3>3. QED  BY <3>1, <3>2
  <2>11. d # <<>>  BY <1>8, <2>3
  <2>12. QueryInv'
    BY <1>5, <1>6, <2>3, <2>4, <2>8, <2>9, <2>10, <2>11 DEF QueryInv
  <2>13. k < m  BY <1>7, <1>8, <2>5
  <2>14. QED  BY <1>7, <1>8, <2>7, <2>12, <2>13
<1>13. CASE Place(s[1].name) # 1
  <2>1. channels' = channels  BY <1>1, <1>13
  <2>2. k = m  BY <1>7, <1>8, <1>9, <1>10, <1>13
  <2>3. \A i \in 1 .. n - 1 : Place(r[i].name) = 1 <=> i <= m - k
    BY <1>4, <1>11, <2>2
  <2>4. PlanInv'
    <3>1. /\ turn' = "running" => todo' # <<>>
          /\ turn' = "answered" => todo' = <<>>
          /\ turn' # "idle" /\ Planned(todo)' /\ ~Generating'
      BY MovesOn
    <3>2. Len(channels') = Searches'  BY <1>7, <1>8, <2>1, <2>2
    <3>3. \A i \in DOMAIN todo' : Place(todo'[i].name) = 1 <=> i <= Searches' - Len(channels')
      BY <1>5, <1>6, <1>7, <1>8, <2>1, <2>3
    <3>4. Searches' \in Nat  BY <1>7
    <3>5. Len(channels') <= Searches'  BY <3>2, <3>4
    <3>6. QED  BY <3>1, <3>2, <3>3, <3>5 DEF PlanInv
  <2>5. degraded => \A i \in 1 .. n - 1 : r[i].query = 0
    <3>1. degraded => \A i \in 1 .. n : s[i].query = 0  BY <1>1, <1>2, <1>4 DEF QueryInv
    <3>2. \A i \in 1 .. n - 1 : i + 1 \in 1 .. n  BY <1>4
    <3>3. QED  BY <1>5, <3>1, <3>2
  <2>6. channels # <<>>  BY <1>7, <1>8, <2>2
  <2>7. channels[1].query = 0  BY <1>2, <2>6 DEF QueryInv
  <2>8. degraded => \A i \in DOMAIN channels : channels[i].query = 0  BY DEF QueryInv
  <2>9. QueryInv'
    BY <1>5, <1>6, <2>1, <2>5, <2>6, <2>7, <2>8 DEF QueryInv
  <2>10. QED  BY <1>1, <1>13, <2>4, <2>9
<1>14. QED  BY <1>12, <1>13

\* A turn that fails keeps what is left of the plan invariant.
LEMMA PlanHalts ==
  ASSUME QueryInv, Halts, degraded' = degraded, channels' = channels
  PROVE  PlanInv' /\ QueryInv'
<1>1. ~Live' /\ ~Generating' /\ turn' = "failed"  BY HaltsThere DEF Halts
<1>2. PlanInv'  BY <1>1 DEF PlanInv
<1>3. QueryInv'  BY <1>1 DEF QueryInv
<1>4. QED  BY <1>2, <1>3

-----------------------------------------------------------------------------
(* The observations.                                                       *)

\* One more observation, of the start of a stage or of the end of the stage that started.
LEMMA PairsAppend ==
  ASSUME NEW l \in Seq(Observed), Pairs(l, FALSE), NEW o \in Observed, NEW failing \in BOOLEAN,
         IF o.status = "started" THEN Len(l) % 2 = 0
         ELSE /\ Len(l) % 2 = 1 /\ l[Len(l)].stage = o.stage
              /\ o.status = "failed" => o.stage = "query-generation" \/ failing
  PROVE  /\ Append(l, o) \in Seq(Observed) /\ Pairs(Append(l, o), failing)
         /\ Len(Append(l, o)) = Len(l) + 1 /\ Append(l, o)[Len(l) + 1] = o
<1>1. PICK n \in Nat : n = Len(l) /\ DOMAIN l = 1 .. n  OBVIOUS
<1>2. PICK a : a = Append(l, o)  OBVIOUS
<1>3. /\ a \in Seq(Observed) /\ Len(a) = n + 1 /\ DOMAIN a = 1 .. n + 1 /\ a[n + 1] = o
      /\ \A i \in 1 .. n : a[i] = l[i]
  BY <1>1, <1>2, AppendProperties
<1>4. o.status \in Statuses  BY DEF Observed
<1>5. ASSUME NEW i \in 1 .. n + 1
      PROVE  IF i % 2 = 1 THEN a[i].status = "started"
             ELSE /\ a[i].stage = a[i - 1].stage
                  /\ a[i].status \in {"completed", "failed"}
                  /\ a[i].status = "failed"
                       => a[i].stage = "query-generation" \/ (i = n + 1 /\ failing)
  <2>1. CASE i <= n
    <3>1. i \in 1 .. n /\ a[i] = l[i] /\ (i % 2 # 1 => i - 1 \in 1 .. n)  BY <1>3, <2>1
    <3>2. i % 2 # 1 => a[i - 1] = l[i - 1]  BY <1>3, <3>1
    <3>3. IF i % 2 = 1 THEN l[i].status = "started"
          ELSE /\ l[i].stage = l[i - 1].stage
               /\ l[i].status \in {"completed", "failed"}
               /\ l[i].status = "failed" => l[i].stage = "query-generation"
      BY <1>1, <3>1 DEF Pairs
    <3>4. QED  BY <3>1, <3>2, <3>3
  <2>2. CASE i = n + 1
    <3>1. CASE o.status = "started"
      <4>1. i % 2 = 1  BY <1>1, <2>2, <3>1
      <4>2. QED  BY <1>3, <2>2, <3>1, <4>1
    <3>2. CASE o.status # "started"
      <4>1. n % 2 = 1 /\ l[n].stage = o.stage  BY <1>1, <3>2
      <4>2. i % 2 # 1 /\ n \in 1 .. n /\ i - 1 = n  BY <1>1, <2>2, <4>1
      <4>3. a[i] = o /\ a[i - 1] = l[n]  BY <1>3, <2>2, <4>2
      <4>4. o.status \in {"completed", "failed"}  BY <1>4, <3>2 DEF Statuses
      <4>5. QED  BY <2>2, <3>2, <4>1, <4>2, <4>3, <4>4
    <3>3. QED  BY <3>1, <3>2
  <2>3. QED  BY <2>1, <2>2
<1>6. Pairs(a, failing)  BY <1>3, <1>5 DEF Pairs
<1>7. QED  BY <1>1, <1>2, <1>3, <1>6

\* The stage a turn is at.
LEMMA StageHere ==
  ASSUME PlanInv, turn = "running"
  PROVE  /\ todo # <<>> /\ Planned(todo) /\ todo[1] \in StageType
         /\ todo[1].name \in Names /\ Place(todo[1].name) \in 0 .. 8
<1>1. PICK s : s = todo  OBVIOUS
<1>2. Planned(s) /\ s # <<>>  BY <1>1 DEF PlanInv, Live
<1>3. s \in Seq(StageType)  BY <1>2 DEF Planned
<1>4. s[1] \in StageType  BY <1>2, <1>3
<1>5. s[1].name \in Names  BY <1>4 DEF StageType
<1>6. QED  BY <1>1, <1>2, <1>4, <1>5, Places

\* A stage that started ends.
LEMMA LogFinishes ==
  ASSUME PlanInv, LogInv, turn = "running", started, NEW status \in {"completed", "failed"},
         status = "failed" => todo[1].name = "query-generation",
         log' = Append(log, Observation(todo[1].name, status)), refused' = refused,
         started' = FALSE, turn' \in {"running", "answered"},
         turn' = "answered" => todo[1].name = "contract"
  PROVE  LogInv'
<1>1. PICK name \in Names : name = todo[1].name  BY StageHere
<1>2. PICK l \in Seq(Observed) : l = log /\ Pairs(l, FALSE)  BY DEF LogInv
<1>3. Len(l) % 2 = 1 /\ l[Len(l)].stage = name /\ ~refused  BY <1>1, <1>2 DEF LogInv
<1>4. PICK o \in Observed :
        o = Observation(name, status) /\ o.stage = name /\ o.status = status
  <2>1. [stage |-> name, status |-> status] \in Observed  BY DEF Observed, Statuses
  <2>2. QED  BY <2>1 DEF Observation
<1>5. status # "started"  OBVIOUS
<1>6. /\ Append(l, o) \in Seq(Observed) /\ Pairs(Append(l, o), FALSE)
      /\ Len(Append(l, o)) = Len(l) + 1 /\ Append(l, o)[Len(l) + 1] = o
  BY <1>1, <1>2, <1>3, <1>4, <1>5, PairsAppend
<1>7. PICK a : a = Append(l, o) /\ log' = a  BY <1>1, <1>2, <1>4
<1>8. Len(a) % 2 # 1 /\ a # <<>> /\ a[Len(a)] = o
  <2>1. PICK n \in Nat : n = Len(l)  OBVIOUS
  <2>2. (n + 1) % 2 # 1 /\ n + 1 # 0
    <3>1. \A k \in Nat : k % 2 = 1 => (k + 1) % 2 # 1 /\ k + 1 # 0  OBVIOUS
    <3>2. QED  BY <1>3, <2>1, <3>1
  <2>3. Len(a) = n + 1 /\ a[n + 1] = o  BY <1>6, <1>7, <2>1
  <2>4. QED  BY <2>2, <2>3
<1>9. turn' = "answered" => a[Len(a)] = Observation("contract", "completed")
  BY <1>1, <1>4, <1>8
<1>10. ~refused'  BY <1>3
<1>11. /\ log' \in Seq(Observed) /\ Pairs(log, turn = "failed")'
       /\ turn' # "idle" /\ turn' # "failed"
  <2>1. (turn' = "failed") = FALSE  OBVIOUS
  <2>2. QED  BY <1>6, <1>7, <2>1
<1>12. QED  BY <1>7, <1>8, <1>9, <1>10, <1>11 DEF LogInv

\* A turn that fails leaves the stage it fails in open, or records its failure.
LEMMA LogHalts ==
  ASSUME PlanInv, LogInv, turn = "running", turn' = "failed", todo' = todo,
         \/ log' = log
         \/ started /\ log' = Append(log, Observation(todo[1].name, "failed")),
         refused' \/ todo[1].name # "query-generation"
  PROVE  LogInv'
<1>1. PICK l \in Seq(Observed) : l = log /\ Pairs(l, FALSE)  BY DEF LogInv
<1>2. log' \in Seq(Observed) /\ Pairs(log', TRUE)
  <2>1. CASE log' = log
    <3>1. Pairs(l, TRUE)  BY <1>1 DEF Pairs
    <3>2. QED  BY <1>1, <2>1, <3>1
  <2>2. CASE started /\ log' = Append(log, Observation(todo[1].name, "failed"))
    <3>1. PICK name \in Names : name = todo[1].name  BY StageHere
    <3>2. Len(l) % 2 = 1 /\ l[Len(l)].stage = name  BY <1>1, <2>2, <3>1 DEF LogInv
    <3>3. PICK o \in Observed :
            o = Observation(name, "failed") /\ o.stage = name /\ o.status = "failed"
      <4>1. [stage |-> name, status |-> "failed"] \in Observed  BY DEF Observed, Statuses
      <4>2. QED  BY <4>1 DEF Observation
    <3>4. Append(l, o) \in Seq(Observed) /\ Pairs(Append(l, o), TRUE)
      BY <1>1, <3>2, <3>3, PairsAppend
    <3>5. QED  BY <1>1, <2>2, <3>1, <3>3, <3>4
  <2>3. QED  BY <2>1, <2>2
<1>3. Pairs(log, turn = "failed")'
  <2>1. (turn' = "failed") = TRUE  OBVIOUS
  <2>2. QED  BY <1>2, <2>1
<1>4. QED  BY <1>2, <1>3 DEF LogInv

\* A stage that is not observed ends.
LEMMA LogPasses ==
  ASSUME LogInv, turn = "running", todo[1].name \in Unobserved, log' = log,
         refused' = refused, started' = FALSE, turn' = "running"
  PROVE  LogInv'
<1>1. ~started /\ ~refused /\ ~(Len(log) % 2 = 1)  BY DEF LogInv
<1>2. Pairs(log, turn = "failed")'
  <2>1. (turn' = "failed") = (turn = "failed")  OBVIOUS
  <2>2. QED  BY <2>1 DEF LogInv
<1>3. QED  BY <1>1, <1>2 DEF LogInv

\* The end of a stage: the turn goes on, or it fails.
LEMMA StageEnds ==
  ASSUME PlanInv, LogInv, NEW name \in Names \ Unobserved, name # "query-generation",
         Ready(name), Finish("completed", Tail(todo)), config' = config
  PROVE  LogInv' /\ refused' \in {refused, TRUE} /\ (Moves \/ Halts)
<1>1. turn = "running" /\ todo # <<>> /\ todo[1].name = name /\ started
  BY DEF Ready, At
<1>2. CASE /\ log' = Append(log, Observation(todo[1].name, "completed"))
           /\ Advance(Tail(todo)) /\ UNCHANGED refused
  <2>1. Moves  BY <1>1, <1>2 DEF Moves, Advance
  <2>2. /\ turn' \in {"running", "answered"}
        /\ turn' = "answered" => todo[1].name = "contract"
    BY <2>1, MovesOn
  <2>3. LogInv'
    <3>1. started' = FALSE /\ refused' = refused  BY <1>2 DEF Advance
    <3>2. "completed" \in {"completed", "failed"}  OBVIOUS
    <3>3. QED  BY <1>1, <1>2, <2>2, <3>1, <3>2, LogFinishes
  <2>4. QED  BY <1>2, <2>1, <2>3
<1>3. CASE refused' = TRUE /\ UNCHANGED log /\ Stop
  <2>1. Halts  BY <1>1, <1>3 DEF Halts, Stop
  <2>2. LogInv'  BY <1>1, <1>3, <2>1, LogHalts DEF Halts
  <2>3. QED  BY <1>3, <2>1, <2>2
<1>4. QED  BY <1>2, <1>3 DEF Finish

\* A stage that fails the turn.
LEMMA StageStops ==
  ASSUME PlanInv, LogInv, turn = "running", todo[1].name # "query-generation",
         FailSilently \/ (started /\ FailStage), config' = config
  PROVE  LogInv' /\ refused' = refused /\ Halts
<1>1. Halts /\ refused' = refused  BY DEF Halts, FailSilently, FailStage, Stop
<1>2. log' = log \/ (started /\ log' = Append(log, Observation(todo[1].name, "failed")))
  BY DEF FailSilently, FailStage
<1>3. LogInv'  BY <1>1, <1>2, LogHalts DEF Halts
<1>4. QED  BY <1>1, <1>3

\* A stage that is not observed, and goes on with the turn.
LEMMA StagePasses ==
  ASSUME PlanInv, LogInv, NEW name \in Unobserved, Ready(name), Advance(Tail(todo)),
         log' = log, refused' = refused, config' = config
  PROVE  LogInv' /\ Moves
<1>1. turn = "running" /\ todo # <<>> /\ todo[1].name = name  BY DEF Ready, At
<1>2. Moves  BY <1>1 DEF Moves, Advance, Unobserved
<1>3. turn' = "running"  BY <1>1, <1>2, MovesOn DEF Unobserved
<1>4. LogInv'  BY <1>1, <1>3, LogPasses DEF Advance
<1>5. QED  BY <1>2, <1>4

-----------------------------------------------------------------------------
(* What a step that goes on or fails leaves as it was.                     *)

Goes == Moves \/ Halts

\* The configuration decides these, and nothing else does.
LEMMA ConfigFrame ==
  ASSUME config' = config
  PROVE  /\ EvidenceLimit' = EvidenceLimit /\ Alone' = Alone /\ Needed' = Needed
         /\ \A items : Labelled(items)' = Labelled(items)
<1>1. EvidenceLimit' = EvidenceLimit /\ Alone' = Alone  BY DEF EvidenceLimit, Alone
<1>2. Needed' = Needed  BY DEF Needed, Alone
<1>3. \A items : Labelled(items)' = Labelled(items)  BY DEF Labelled
<1>4. QED  BY <1>1, <1>2, <1>3

\* What the channels, the fusion and the plan are stays true of them.
LEMMA RetrievalKept ==
  ASSUME PlanInv, QueryInv, ChannelInv, FusedInv, FusionRespectsChannels, config \in Configs,
         Goes, UNCHANGED <<channels, fused, degraded>>, Moves => Place(todo[1].name) # 1
  PROVE  PlanInv' /\ QueryInv' /\ ChannelInv' /\ FusedInv' /\ FusionRespectsChannels'
<1>1. PlanInv' /\ QueryInv'  BY PlanMoves, PlanHalts DEF Goes
<1>2. ChannelInv'  BY DEF ChannelInv
<1>3. FusedInv'
  <2>1. Ahead(2)' => Ahead(2)
    <3>1. 2 \in 1 .. 8  OBVIOUS
    <3>2. QED  BY <3>1, MovesPast, HaltsThere DEF Goes
  <2>2. Alone' = Alone  BY ConfigFrame DEF Goes, Moves, Halts
  <2>3. QED  BY <2>1, <2>2 DEF FusedInv
<1>4. FusionRespectsChannels'
  <2>1. Found' = Found  BY DEF Found
  <2>2. QED  BY <2>1 DEF FusionRespectsChannels
<1>5. QED  BY <1>1, <1>2, <1>3, <1>4

\* The evidence stays as it was, and where it comes from.
LEMMA EvidenceKept ==
  ASSUME PlanInv, EvidenceInv, Goes, evidence' = evidence,
         Moves => Place(todo[1].name) \notin {3, 4},
         fused' = fused \/ Place(todo[1].name) \in 1 .. 2
  PROVE  EvidenceInv'
<1>1. Grounds(evidence)'  BY DEF EvidenceInv
<1>2. CASE Halts
  <2>1. ~Passed(3)' /\ ~Ahead(3)'
    <3>1. 3 \in 1 .. 8  OBVIOUS
    <3>2. QED  BY <1>2, <3>1, HaltsThere
  <2>2. QED  BY <1>1, <2>1 DEF EvidenceInv
<1>3. CASE Moves
  <2>1. 3 \in 1 .. 8 /\ 4 \in 1 .. 8  OBVIOUS
  <2>2. Place(todo[1].name) \in 1 .. 8 /\ Place(todo[1].name) \notin {3, 4}
    BY <1>3, MovesOn
  <2>3. Ahead(3)' => Ahead(3)  BY <1>3, <2>1, MovesPast
  <2>4. Place(todo[1].name) < 3 => ~Passed(3)'
    <3>1. "hydrate" \in Needed /\ Place("hydrate") = 3  BY Places DEF Needed
    <3>2. QED  BY <1>3, <2>1, <3>1, MovesPast
  <2>5. Place(todo[1].name) > 4 => Passed(3) /\ Passed(4)  BY <1>3, <2>1, <2>2, MovesPast
  <2>6. EvidenceLimit' = EvidenceLimit /\ config' = config  BY <1>3, ConfigFrame DEF Moves
  <2>7. CASE Place(todo[1].name) < 3
    <3>1. ~Passed(3)'  BY <2>4, <2>7
    <3>2. QED  BY <1>1, <2>3, <3>1 DEF EvidenceInv
  <2>8. CASE Place(todo[1].name) > 4
    <3>1. fused' = fused  BY <2>8
    <3>2. Passed(3) /\ Passed(4)  BY <2>5, <2>8
    <3>3. ~config.augmented =>
            /\ ToSet(IdsOf(evidence))
                 \subseteq ToSet(SubSeq(fused, 1, Min({EvidenceLimit, Len(fused)})))
            /\ Len(evidence) <= EvidenceK
      BY <3>2 DEF EvidenceInv
    <3>4. Passed(4)'  BY <1>3, <2>1, <3>2, MovesPast
    <3>5. (ToSet(IdsOf(evidence))
             \subseteq ToSet(SubSeq(fused, 1, Min({EvidenceLimit, Len(fused)}))))'
            <=> ToSet(IdsOf(evidence))
                 \subseteq ToSet(SubSeq(fused, 1, Min({EvidenceLimit, Len(fused)})))
      BY <2>6, <3>1
    <3>6. QED  BY <1>1, <2>3, <2>6, <3>3, <3>4, <3>5 DEF EvidenceInv
  <2>9. QED  BY <2>2, <2>7, <2>8
<1>4. QED  BY <1>2, <1>3 DEF Goes

\* What the model is shown stays as it was.
LEMMA ShownKept ==
  ASSUME PlanInv, ShownInv, Goes, shown' = shown,
         \/ evidence' = evidence /\ (Moves => Place(todo[1].name) # 6)
         \/ Place(todo[1].name) < 6
  PROVE  ShownInv'
<1>1. 6 \in 1 .. 8  OBVIOUS
<1>2. turn = "running"  BY DEF Goes, Moves, Halts
<1>3. Place(todo[1].name) \in 0 .. 8  BY <1>2, StageHere
<1>4. CASE Place(todo[1].name) < 6
  <2>1. shown = <<>>
    <3>1. Ahead(6)  BY <1>2, <1>3, <1>4, StageHere DEF Ahead, Passed
    <3>2. QED  BY <3>1 DEF ShownInv
  <2>2. ~Passed(6)'
    <3>1. "context" \in Needed /\ Place("context") = 6  BY Places DEF Needed
    <3>2. Moves => ~Passed(6)'  BY <1>1, <1>4, <3>1, MovesPast
    <3>3. Halts => ~Passed(6)'  BY <1>1, HaltsThere
    <3>4. QED  BY <3>2, <3>3 DEF Goes
  <2>3. QED  BY <2>1, <2>2 DEF ShownInv
<1>5. CASE evidence' = evidence /\ Place(todo[1].name) >= 6 /\ (Moves => Place(todo[1].name) # 6)
  <2>1. Labelled(ApplyContextPolicy(evidence))' = Labelled(ApplyContextPolicy(evidence))
    <3>1. PICK c : c = ApplyContextPolicy(evidence) /\ c = ApplyContextPolicy(evidence')
      BY <1>5
    <3>2. Labelled(c)' = Labelled(c)  BY ConfigFrame DEF Goes, Moves, Halts
    <3>3. QED  BY <3>1, <3>2
  <2>2. CASE Halts
    <3>1. ~Passed(6)' /\ ~Ahead(6)'  BY <1>1, <2>2, HaltsThere
    <3>2. QED  BY <2>1, <3>1 DEF ShownInv
  <2>3. CASE Moves
    <3>1. Passed(6) /\ Passed(6)' /\ ~Ahead(6)'  BY <1>1, <1>3, <1>5, <2>3, MovesPast
    <3>2. QED  BY <2>1, <3>1 DEF ShownInv
  <2>4. QED  BY <2>2, <2>3 DEF Goes
<1>6. QED  BY <1>3, <1>4, <1>5

\* An answer is not there yet.
LEMMA NotAnswered ==
  ASSUME turn' # "answered"  PROVE CitationsGrounded'
BY DEF CitationsGrounded

\* A step that goes on ends the turn at the contract only.
LEMMA AnswersLast ==
  ASSUME PlanInv, Goes, Moves => todo[1].name # "contract"  PROVE turn' # "answered"
BY MovesOn DEF Goes, Halts

\* Its type stays.
LEMMA FlagsKept ==
  ASSUME Flags, PlanInv, Goes, refused' \in {refused, TRUE}, degraded' \in BOOLEAN,
         fused' \in Seq(Nat \ {0})
  PROVE  Flags'
<1>1. turn' \in {"idle", "running", "answered", "failed"}  BY MovesOn DEF Goes, Halts
<1>2. config' = config /\ started' \in BOOLEAN  BY DEF Goes, Moves, Halts, Flags
<1>3. QED  BY <1>1, <1>2 DEF Flags

-----------------------------------------------------------------------------
(* The steps of retrieval.                                                 *)

\* What the fusion is to the channels, in the state after a step.
LEMMA FusionAfter ==
  ASSUME NEW f, fused' = f, Respects(f)'  PROVE FusionRespectsChannels'
BY DEF FusionRespectsChannels, Respects, Beats

\* The fusion lists the chunks of the channels by their scores.
LEMMA FuseKeeps == ASSUME IInv, Fuse PROVE IInv'
<1>1. turn = "running" /\ todo # <<>> /\ todo[1].name = "fusion" /\ Place(todo[1].name) = 2
  BY Places DEF Fuse, Ready, At
<1>2. LogInv' /\ refused' \in {refused, TRUE} /\ Goes
  <2>1. "fusion" \in Names \ Unobserved  BY DEF Names, Unobserved
  <2>2. QED  BY <2>1, StageEnds DEF IInv, Fuse, Goes
<1>3. PICK f : f = fused' /\ f = InOrder(Found, {p \in Found \X Found : RanksBefore(p)})
  BY DEF Fuse
<1>4. Respects(f) /\ f \in Seq(Nat \ {0})  BY <1>3, FusionRespects DEF IInv
<1>5. FusionRespectsChannels'
  <2>1. Respects(f)' <=> Respects(f)  BY DEF Fuse, Respects, Found, Beats
  <2>2. QED  BY <1>3, <1>4, <2>1, FusionAfter
<1>6. PlanInv' /\ QueryInv' /\ Flags' /\ ChannelInv'
  <2>1. PlanInv' /\ QueryInv'  BY <1>1, <1>2, PlanMoves, PlanHalts DEF IInv, Flags, Fuse, Goes
  <2>2. Flags'  BY <1>2, <1>3, <1>4, FlagsKept DEF IInv, Flags, Fuse
  <2>3. ChannelInv'  BY DEF IInv, ChannelInv, Fuse
  <2>4. QED  BY <2>1, <2>2, <2>3
<1>7. FusedInv'
  <2>1. ~Ahead(2)'
    <3>1. 2 \in 1 .. 8  OBVIOUS
    <3>2. QED  BY <1>1, <1>2, <3>1, MovesPast, HaltsThere DEF IInv, Goes
  <2>2. QED  BY <2>1 DEF FusedInv
<1>8. EvidenceInv' /\ ShownInv'
  BY <1>1, <1>2, EvidenceKept, ShownKept DEF IInv, Fuse
<1>9. PreparedInv' /\ CitationsGrounded'
  <2>1. turn' # "answered"  BY <1>1, <1>2, AnswersLast DEF IInv
  <2>2. QED  BY <2>1, NotAnswered DEF IInv, PreparedInv, Fuse
<1>10. QED  BY <1>2, <1>5, <1>6, <1>7, <1>8, <1>9 DEF IInv

\* A step that fails the turn and changes nothing else.
LEMMA FailureKeeps ==
  ASSUME IInv, LogInv', Halts, refused' = refused,
         UNCHANGED <<channels, degraded, fused, evidence, prepared, shown, raw, result>>
  PROVE  IInv'
<1>1. Goes /\ ~Moves  BY DEF Goes, Halts, Moves
<1>2. PlanInv' /\ QueryInv' /\ ChannelInv' /\ FusedInv' /\ FusionRespectsChannels'
  BY <1>1, RetrievalKept DEF IInv, Flags
<1>3. Flags'  BY <1>1, FlagsKept DEF IInv, Flags
<1>4. EvidenceInv' /\ ShownInv'  BY <1>1, EvidenceKept, ShownKept DEF IInv
<1>5. PreparedInv'  BY DEF IInv, PreparedInv
<1>6. CitationsGrounded'  BY NotAnswered DEF Halts
<1>7. QED  BY <1>2, <1>3, <1>4, <1>5, <1>6 DEF IInv

\* A stage that is observed fails the turn.
LEMMA StageFailsKeeps == ASSUME IInv, StageFails PROVE IInv'
<1>1. PICK name \in {"lexical", "vector", "reranking", "generation", "fusion"} : Ready(name)
  BY DEF StageFails
<1>2. turn = "running" /\ todo[1].name # "query-generation" /\ started
  BY <1>1 DEF Ready, At, Unobserved
<1>3. LogInv' /\ refused' = refused /\ Halts  BY <1>2, StageStops DEF IInv, StageFails
<1>4. QED  BY <1>3, FailureKeeps DEF StageFails

\* The store or the augmenter fails the turn.
LEMMA RetrievalFailsKeeps == ASSUME IInv, RetrievalFails PROVE IInv'
<1>1. turn = "running" /\ todo[1].name # "query-generation"
  BY DEF RetrievalFails, Ready, At
<1>2. LogInv' /\ refused' = refused /\ Halts  BY <1>1, StageStops DEF IInv, RetrievalFails
<1>3. QED  BY <1>2, FailureKeeps DEF RetrievalFails

\* A contract that does not hold fails the turn.
LEMMA InterpretFailsKeeps == ASSUME IInv, InterpretFails PROVE IInv'
<1>1. turn = "running" /\ todo[1].name # "query-generation"
  BY DEF InterpretFails, Ready, At
<1>2. LogInv' /\ refused' = refused /\ Halts  BY <1>1, StageStops DEF IInv, InterpretFails
<1>3. QED  BY <1>2, FailureKeeps DEF InterpretFails

\* A search is to come only while some are left.
LEMMA SearchesLeft ==
  ASSUME PlanInv, ChannelInv, turn = "running", Place(todo[1].name) = 1
  PROVE  Len(channels) < Searches
<1>1. PICK s : s = todo  OBVIOUS
<1>2. s # <<>> /\ Planned(s) /\ s[1].name \in Names  BY <1>1, StageHere
<1>3. s[1].name # "query-generation"  BY <1>1, Places
<1>4. PICK n \in Nat \ {0} : DOMAIN s = 1 .. n  BY <1>2, <1>3, RestPlanned
<1>5. ~Generating /\ Live  BY <1>1, <1>3 DEF Generating, Live
<1>6. PICK k \in Nat : k = Len(channels)  BY DEF ChannelInv
<1>7. PICK m \in Nat : m = Searches
  <2>1. QueryVariants \in Nat  BY LimitAssumption
  <2>2. QED  BY <2>1 DEF Searches
<1>8. 1 <= m - k  BY <1>1, <1>4, <1>5, <1>6, <1>7 DEF PlanInv
<1>9. QED  BY <1>6, <1>7, <1>8

\* One channel alone is the fusion, and respects itself.
LEMMA AloneRespects ==
  ASSUME NEW h \in Seq(Nat \ {0}), Collapsed(h), NEW kind, NEW query,
         channels' = <<[kind |-> kind, query |-> query, hits |-> h]>>
  PROVE  Respects(h)'
<1>1. PICK d : d = <<[kind |-> kind, query |-> query, hits |-> h]>>  OBVIOUS
<1>2. DOMAIN d = {1} /\ d[1].hits = h  BY <1>1
<1>3. Found' = ToSet(h)
  <2>1. Found' = UNION {ToSet(d[i].hits) : i \in DOMAIN d}  BY <1>1 DEF Found
  <2>2. QED  BY <1>2, <2>1
<1>4. IsInjective(h)  BY DEF Collapsed
<1>5. PICK n \in Nat : n = Len(h) /\ DOMAIN h = 1 .. n  OBVIOUS
<1>6. ASSUME NEW m \in DOMAIN h PROVE RankIn(d[1], h[m]) = m
  <2>1. Contains(h, h[m])  BY <1>5 DEF Contains
  <2>2. RankIn(d[1], h[m]) = CHOOSE r \in DOMAIN h : h[r] = h[m]
    BY <1>2, <2>1 DEF RankIn
  <2>3. \A r \in DOMAIN h : h[r] = h[m] => r = m  BY <1>4, <1>6 DEF IsInjective
  <2>4. QED  BY <1>6, <2>2, <2>3
<1>7. ASSUME NEW m \in DOMAIN h, NEW k \in DOMAIN h, Beats(h[m], h[k])', m # k PROVE m < k
  <2>1. RankIn(d[1], h[k]) # 0 =>
          RankIn(d[1], h[m]) # 0 /\ RankIn(d[1], h[m]) < RankIn(d[1], h[k])
    BY <1>1, <1>2, <1>7 DEF Beats
  <2>2. k # 0  BY <1>5
  <2>3. QED  BY <1>6, <2>1, <2>2
<1>8. QED  BY <1>3, <1>4, <1>7 DEF Respects

\* A search adds its channel, collapsed, whatever the searcher returned.
LEMMA SearchKeeps == ASSUME IInv, NEW hits \in HitLists, Search(hits) PROVE IInv'
<1>1. PICK name \in {"lexical", "vector"} : Ready(name)  BY DEF Search
<1>2. turn = "running" /\ todo # <<>> /\ todo[1].name = name /\ Place(todo[1].name) = 1
  BY <1>1, Places DEF Ready, At
<1>3. LogInv' /\ refused' \in {refused, TRUE} /\ Goes
  <2>1. name \in Names \ Unobserved /\ name # "query-generation"  BY DEF Names, Unobserved
  <2>2. QED  BY <1>1, <2>1, StageEnds DEF IInv, Search, Goes
<1>4. PICK h \in Seq(Nat \ {0}) : h = Collapse(hits) /\ Collapsed(h)  BY CollapseLeavesOne
<1>5. PICK query \in Nat : query = todo[1].query
  <2>1. todo[1] \in StageType  BY <1>2, StageHere DEF IInv
  <2>2. QED  BY <2>1 DEF StageType
<1>6. PICK c \in Channel : c = [kind |-> name, query |-> query, hits |-> h]
                          /\ c.query = query /\ c.hits = h
  <2>1. PICK c : c = [kind |-> name, query |-> query, hits |-> h]  OBVIOUS
  <2>2. c \in Channel /\ c.query = query /\ c.hits = h  BY <2>1 DEF Channel
  <2>3. QED  BY <2>1, <2>2
<1>7. channels' = Append(channels, c)  BY <1>2, <1>4, <1>5, <1>6 DEF Search
<1>8. PICK k \in Nat : k = Len(channels) /\ channels \in Seq(Channel) /\ DOMAIN channels = 1 .. k
  BY DEF IInv, ChannelInv
<1>9. /\ channels' \in Seq(Channel) /\ DOMAIN channels' = 1 .. k + 1 /\ channels'[k + 1] = c
      /\ \A i \in 1 .. k : channels'[i] = channels[i]
  <2>1. PICK d : d = Append(channels, c)  OBVIOUS
  <2>2. /\ d \in Seq(Channel) /\ Len(d) = k + 1 /\ d[k + 1] = c
        /\ \A i \in 1 .. k : d[i] = channels[i]
    BY <1>8, <2>1, AppendProperties
  <2>3. DOMAIN d = 1 .. k + 1  BY <1>8, <2>2
  <2>4. QED  BY <1>7, <2>1, <2>2, <2>3
<1>10. ChannelInv'
  <2>1. \A i \in 1 .. k : Collapsed(channels[i].hits)  BY <1>8 DEF IInv, ChannelInv
  <2>2. \A i \in 1 .. k + 1 : Collapsed(channels'[i].hits)
    <3>1. ASSUME NEW i \in 1 .. k PROVE Collapsed(channels'[i].hits)  BY <1>9, <2>1
    <3>2. Collapsed(channels'[k + 1].hits)  BY <1>4, <1>6, <1>9
    <3>3. \A i \in 1 .. k + 1 : i \in 1 .. k \/ i = k + 1  BY <1>8
    <3>4. QED  BY <3>1, <3>2, <3>3
  <2>3. QED  BY <1>9, <2>2 DEF ChannelInv
<1>11. PlanInv' /\ QueryInv'
  <2>1. CASE Moves
    BY <1>2, <1>5, <1>6, <1>7, <2>1, PlanMoves DEF IInv, Flags, Search
  <2>2. CASE Halts
    <3>1. ~Live' /\ ~Generating' /\ turn' = "failed"  BY <2>2, HaltsThere DEF Halts
    <3>2. degraded => todo[1].query = 0
      <4>1. 1 \in DOMAIN todo
        <5>1. PICK s : s = todo  OBVIOUS
        <5>2. s # <<>> /\ s \in Seq(StageType)  BY <1>2, <5>1, StageHere DEF IInv, Planned
        <5>3. 1 \in DOMAIN s  BY <5>2
        <5>4. QED  BY <5>1, <5>3
      <4>2. QED  BY <1>2, <4>1 DEF IInv, QueryInv, Live
    <3>3. degraded => \A i \in 1 .. k : channels[i].query = 0
      BY <1>8 DEF IInv, QueryInv
    <3>4. degraded' => \A i \in 1 .. k + 1 : channels'[i].query = 0
      BY <1>5, <1>6, <1>8, <1>9, <3>2, <3>3 DEF Search
    <3>5. QED  BY <1>9, <3>1, <3>4 DEF PlanInv, QueryInv
  <2>3. QED  BY <1>3, <2>1, <2>2 DEF Goes
<1>12. fused' = IF Alone THEN h ELSE fused  BY <1>4 DEF Search, Alone
<1>13. fused' \in Seq(Nat \ {0})  BY <1>12 DEF IInv, Flags
<1>14. ~Alone => fused = <<>>
  <2>1. Ahead(2)  BY <1>2 DEF Ahead, Passed
  <2>2. QED  BY <2>1 DEF IInv, FusedInv
<1>15. FusedInv'
  <2>1. Alone' = Alone  BY DEF Search, Alone
  <2>2. QED  BY <1>12, <1>14, <2>1 DEF FusedInv
<1>16. FusionRespectsChannels'
  <2>1. CASE ~Alone  BY <1>12, <1>14, <2>1 DEF FusionRespectsChannels
  <2>2. CASE Alone
    <3>1. k = 0  BY <1>2, <1>8, <2>2, SearchesLeft DEF IInv, Searches
    <3>2. channels = <<>>  BY <1>8, <3>1
    <3>3. channels' = <<c>>  BY <1>7, <3>2
    <3>4. Respects(h)'  BY <1>4, <1>6, <3>3, AloneRespects
    <3>5. QED  BY <1>12, <2>2, <3>4, FusionAfter
  <2>3. QED  BY <2>1, <2>2
<1>17. EvidenceInv' /\ ShownInv'
  BY <1>2, <1>3, EvidenceKept, ShownKept DEF IInv, Search
<1>18. PreparedInv' /\ CitationsGrounded'
  <2>1. turn' # "answered"  BY <1>2, <1>3, AnswersLast DEF IInv
  <2>2. QED  BY <2>1, NotAnswered DEF IInv, PreparedInv, Search
<1>19. Flags'  BY <1>3, <1>13, FlagsKept DEF IInv, Flags, Search
<1>20. QED
  BY <1>3, <1>10, <1>11, <1>15, <1>16, <1>17, <1>18, <1>19 DEF IInv

-----------------------------------------------------------------------------
(* The steps before retrieval.                                             *)

\* Before the fusion nothing is found to take evidence from.
LEMMA NothingYet ==
  ASSUME ChannelInv, FusedInv, FusionRespectsChannels, EvidenceInv, ShownInv,
         Ahead(2), Ahead(3), Ahead(6), ~Passed(3)', ~Passed(6)',
         UNCHANGED <<config, channels, fused, evidence, shown>>
  PROVE  ChannelInv' /\ FusedInv' /\ FusionRespectsChannels' /\ EvidenceInv' /\ ShownInv'
<1>1. ChannelInv'  BY DEF ChannelInv
<1>2. FusedInv'
  <2>1. Alone' = Alone  BY ConfigFrame
  <2>2. QED  BY <2>1 DEF FusedInv
<1>3. FusionRespectsChannels'
  <2>1. Found' = Found  BY DEF Found
  <2>2. QED  BY <2>1 DEF FusionRespectsChannels
<1>4. EvidenceInv'
  <2>1. Grounds(evidence)' /\ evidence' = <<>>  BY DEF EvidenceInv
  <2>2. QED  BY <2>1 DEF EvidenceInv
<1>5. ShownInv'
  <2>1. shown' = <<>>  BY DEF ShownInv
  <2>2. QED  BY <2>1 DEF ShownInv
<1>6. QED  BY <1>1, <1>2, <1>3, <1>4, <1>5

\* A plan of searches, or of reformulations, in force.
LEMMA PlanBegins ==
  ASSUME config \in Configs, config' = config, turn' = "running", channels' = <<>>,
         NEW s, todo' = s, NEW n,
         SearchPlan(s, n, degraded'), n = Searches'
  PROVE  PlanInv' /\ QueryInv' /\ Place(s[1].name) = 1 /\ s # <<>>
<1>1. PICK m \in Nat \ {0} : m = n /\ m = Searches'
  <2>1. QueryVariants \in Nat  BY LimitAssumption
  <2>2. Searches' \in Nat \ {0}  BY <2>1 DEF Searches
  <2>3. QED  BY <2>2
<1>2. Planned(s) /\ s # <<>> /\ s \in Seq(StageType)  BY DEF SearchPlan, Planned
<1>3. 1 \in DOMAIN s  BY <1>2
<1>4. Place(s[1].name) = 1  BY <1>1, <1>3 DEF SearchPlan
<1>5. ~Generating'  BY <1>4, Places DEF Generating
<1>6. Planned(todo)'
  <2>1. Planned(s)'  BY <1>2, PlannedFrame
  <2>2. QED  BY <2>1
<1>7. Len(channels') = 0  OBVIOUS
<1>8. \A i \in DOMAIN todo' : Place(todo'[i].name) = 1 <=> i <= Searches' - Len(channels')
  BY <1>1, <1>7 DEF SearchPlan
<1>9. Len(channels') <= Searches'  BY <1>1, <1>7
<1>10. PlanInv'  BY <1>2, <1>5, <1>6, <1>8, <1>9 DEF PlanInv
<1>11. degraded' => \A i \in DOMAIN s : s[i].query = 0  BY DEF SearchPlan
<1>12. s[1].query = 0  BY DEF SearchPlan
<1>13. QueryInv'  BY <1>11, <1>12 DEF QueryInv
<1>14. QED  BY <1>2, <1>4, <1>10, <1>13

\* A turn begins with the plan of its strategy.
LEMMA BeginKeeps == ASSUME IInv, Begin PROVE IInv'
<1>1. turn = "idle" /\ turn' = "running" /\ config' = config /\ config \in Configs
      /\ channels = <<>> /\ ~degraded
  BY DEF Begin, IInv, PlanInv, Flags
<1>2. PICK s : s = Strategy /\ todo' = s  BY DEF Begin
<1>3. Reformulates =>
        Planned(s) /\ s = <<Stage("query-generation", 0)>>
  BY <1>1, <1>2, StrategyPlanned
<1>4. ~Reformulates => SearchPlan(s, IF Alone THEN 1 ELSE 2, TRUE)
  BY <1>1, <1>2, StrategyPlanned
<1>5. PlanInv' /\ QueryInv' /\ Place(s[1].name) \in {0, 1} /\ s # <<>>
  <2>1. CASE Reformulates
    <3>1. s[1].name = "query-generation" /\ s # <<>>  BY <1>3, <2>1 DEF Stage
    <3>2. Generating' /\ Live'  BY <1>1, <1>2, <3>1 DEF Generating, Live
    <3>3. Planned(todo)'
      <4>1. Planned(s)'  BY <1>1, <1>3, <2>1, PlannedFrame
      <4>2. QED  BY <1>2, <4>1
    <3>4. PlanInv'
      BY <1>1, <1>2, <2>1, <3>1, <3>2, <3>3 DEF PlanInv, Begin, Reformulates
    <3>5. QueryInv'  BY <1>1, <3>2 DEF QueryInv, Begin
    <3>6. Place(s[1].name) = 0  BY <3>1, Places
    <3>7. QED  BY <3>1, <3>4, <3>5, <3>6
  <2>2. CASE ~Reformulates
    <3>1. PICK n : n = IF Alone THEN 1 ELSE 2  OBVIOUS
    <3>2. n = Searches'  BY <1>1, <2>2, <3>1 DEF Searches, Alone, Reformulates
    <3>3. SearchPlan(s, n, degraded')
      <4>1. SearchPlan(s, n, TRUE)  BY <1>4, <2>2, <3>1
      <4>2. QED  BY <4>1 DEF SearchPlan
    <3>4. channels' = <<>>  BY <1>1 DEF Begin
    <3>5. QED  BY <1>1, <1>2, <3>2, <3>3, <3>4, PlanBegins
  <2>3. QED  BY <2>1, <2>2
<1>6. \A p \in {3, 6} : ~Passed(p)'  BY <1>1, <1>2, <1>5 DEF Passed, Live
<1>7. Ahead(2) /\ Ahead(3) /\ Ahead(6)  BY <1>1 DEF Ahead
<1>8. ChannelInv' /\ FusedInv' /\ FusionRespectsChannels' /\ EvidenceInv' /\ ShownInv'
  BY <1>6, <1>7, NothingYet DEF IInv, Begin
<1>9. LogInv'
  <2>1. log = <<>> /\ ~started /\ ~refused  BY <1>1 DEF IInv, LogInv
  <2>2. log' = <<>> /\ ~started' /\ ~refused'  BY <2>1 DEF Begin
  <2>3. <<>> \in Seq(Observed) /\ Len(<<>>) % 2 # 1  OBVIOUS
  <2>4. Pairs(<<>>, FALSE)  BY DEF Pairs
  <2>5. Pairs(log, turn = "failed")'  BY <1>1, <2>2, <2>4
  <2>6. QED  BY <1>1, <2>2, <2>3, <2>5 DEF LogInv
<1>10. PreparedInv' /\ CitationsGrounded'
  BY <1>1, NotAnswered DEF IInv, PreparedInv, Begin
<1>11. Flags'  BY DEF IInv, Flags, Begin
<1>12. QED  BY <1>5, <1>8, <1>9, <1>10, <1>11 DEF IInv

\* Query generation, whatever comes of it, is followed by the searches it leaves.
LEMMA GenerationKeeps ==
  ASSUME IInv, Ready("query-generation"), NEW usable \in BOOLEAN,
         NEW status \in {"completed", "failed"}, Finish(status, WithVariants(usable)),
         degraded' = ~usable,
         UNCHANGED <<config, channels, fused, evidence, prepared, shown, raw, result>>
  PROVE  IInv'
<1>1. turn = "running" /\ todo # <<>> /\ todo[1].name = "query-generation" /\ started
      /\ Place(todo[1].name) = 0
  BY Places DEF Ready, At, Unobserved
<1>2. /\ Generating /\ channels = <<>> /\ config \in Configs /\ Reformulates
  BY <1>1 DEF IInv, PlanInv, Generating, Flags, Reformulates
<1>3. PICK s : s = WithVariants(usable)  OBVIOUS
<1>4. PICK n : n = IF config.strategy = "multi-query" /\ usable
                   THEN 2 * (QueryVariants + 1) ELSE 2
  OBVIOUS
<1>5. SearchPlan(s, n, ~usable)  BY <1>2, <1>3, <1>4, VariantsPlanned
<1>6. n = Searches'  BY <1>2, <1>4 DEF Searches, Alone, Reformulates
<1>7. s # <<>>  BY <1>5 DEF SearchPlan
<1>8. \/ /\ log' = Append(log, Observation(todo[1].name, status))
         /\ todo' = s /\ started' = FALSE /\ turn' = "running" /\ refused' = refused
      \/ refused' = TRUE /\ log' = log /\ Halts
  BY <1>1, <1>3, <1>7 DEF Finish, Advance, Stop, Halts
<1>9. Ahead(2) /\ Ahead(3) /\ Ahead(6)  BY <1>1 DEF Ahead, Passed
<1>10. PlanInv' /\ QueryInv' /\ LogInv' /\ ~Passed(3)' /\ ~Passed(6)' /\ Flags'
       /\ turn' # "answered"
  <2>1. CASE /\ log' = Append(log, Observation(todo[1].name, status))
             /\ todo' = s /\ started' = FALSE /\ turn' = "running" /\ refused' = refused
    <3>1. LogInv'  BY <1>1, <2>1, LogFinishes DEF IInv
    <3>2. PlanInv' /\ QueryInv' /\ Place(s[1].name) = 1
      BY <1>2, <1>5, <1>6, <2>1, PlanBegins
    <3>3. ~Passed(3)' /\ ~Passed(6)'  BY <1>7, <2>1, <3>2 DEF Passed, Live
    <3>4. Flags'  BY <2>1 DEF IInv, Flags
    <3>5. QED  BY <2>1, <3>1, <3>2, <3>3, <3>4
  <2>2. CASE refused' = TRUE /\ log' = log /\ Halts
    <3>1. LogInv'  BY <1>1, <2>2, LogHalts DEF IInv, Halts
    <3>2. ~Live' /\ ~Generating' /\ turn' = "failed" /\ ~Passed(3)' /\ ~Passed(6)'
      <4>1. 3 \in 1 .. 8 /\ 6 \in 1 .. 8  OBVIOUS
      <4>2. QED  BY <2>2, <4>1, HaltsThere DEF Halts
    <3>3. PlanInv' /\ QueryInv'  BY <1>2, <3>2 DEF PlanInv, QueryInv
    <3>4. Flags'  BY <2>2 DEF IInv, Flags, Halts
    <3>5. QED  BY <3>1, <3>2, <3>3, <3>4
  <2>3. QED  BY <1>8, <2>1, <2>2
<1>11. ChannelInv' /\ FusedInv' /\ FusionRespectsChannels' /\ EvidenceInv' /\ ShownInv'
  BY <1>9, <1>10, NothingYet DEF IInv
<1>12. PreparedInv' /\ CitationsGrounded'
  BY <1>10, NotAnswered DEF IInv, PreparedInv
<1>13. QED  BY <1>10, <1>11, <1>12 DEF IInv

\* Without reformulations the turn is degraded and searches the question.
LEMMA GenerateNothingKeeps == ASSUME IInv, GenerateNothing PROVE IInv'
<1>1. degraded' = ~FALSE  BY DEF GenerateNothing
<1>2. QED  BY <1>1, GenerationKeeps DEF GenerateNothing

\* With reformulations it searches each of them.
LEMMA GenerateVariantsKeeps == ASSUME IInv, GenerateVariants PROVE IInv'
<1>1. degraded = FALSE
  BY DEF GenerateVariants, Ready, At, IInv, PlanInv, Generating, Flags
<1>2. degraded' = ~TRUE  BY <1>1 DEF GenerateVariants
<1>3. QED  BY <1>2, GenerationKeeps DEF GenerateVariants

-----------------------------------------------------------------------------
(* The start of a stage.                                                   *)

\* A stage begins a call of its own, or goes on with the observations of the call.
LEMMA CallLog ==
  ASSUME LogInv, turn = "running", ~started
  PROVE  LogOfCall \in Seq(Observed) /\ Pairs(LogOfCall, FALSE) /\ Len(LogOfCall) % 2 = 0
<1>1. log \in Seq(Observed) /\ Pairs(log, FALSE) /\ Len(log) % 2 # 1  BY DEF LogInv
<1>2. PICK n \in Nat : n = Len(log)  BY <1>1
<1>3. n % 2 = 0  BY <1>1, <1>2
<1>4. <<>> \in Seq(Observed) /\ Pairs(<<>>, FALSE) /\ Len(<<>>) % 2 = 0  BY DEF Pairs
<1>5. LogOfCall = log \/ LogOfCall = <<>>  BY DEF LogOfCall
<1>6. QED  BY <1>1, <1>2, <1>3, <1>4, <1>5

\* A step that leaves the turn where it is keeps all but the observations.
LEMMA TurnStays ==
  ASSUME IInv, LogInv', started' \in BOOLEAN, refused' \in BOOLEAN,
         UNCHANGED <<turn, todo, config, channels, degraded, fused, evidence, prepared, shown,
                     raw, result>>
  PROVE  IInv'
<1>1. Live' <=> Live  BY DEF Live
<1>2. Generating' <=> Generating  BY DEF Generating
<1>3. PlanInv'
  <2>1. Searches' = Searches  BY DEF Searches, Alone
  <2>2. PICK s : s = todo  OBVIOUS
  <2>3. Planned(s)' <=> Planned(s)  BY PlannedFrame
  <2>4. Planned(todo)' <=> Planned(todo)  BY <2>2, <2>3
  <2>5. QED  BY <1>1, <1>2, <2>1, <2>4 DEF IInv, PlanInv
<1>4. QueryInv'  BY <1>1, <1>2 DEF IInv, QueryInv
<1>5. FusedInv'
  <2>1. Ahead(2)' <=> Ahead(2)  BY DEF Ahead, Passed, Live
  <2>2. Alone' = Alone  BY ConfigFrame
  <2>3. QED  BY <2>1, <2>2 DEF IInv, FusedInv
<1>6. EvidenceInv'
  <2>1. /\ Ahead(3)' <=> Ahead(3)
        /\ (Passed(3)' <=> Passed(3)) /\ (Passed(4)' <=> Passed(4))
    BY DEF Ahead, Passed, Live
  <2>2. EvidenceLimit' = EvidenceLimit  BY ConfigFrame
  <2>3. QED  BY <2>1, <2>2 DEF IInv, EvidenceInv
<1>7. ShownInv'
  <2>1. (Ahead(6)' <=> Ahead(6)) /\ (Passed(6)' <=> Passed(6))
    BY DEF Ahead, Passed, Live
  <2>2. Labelled(ApplyContextPolicy(evidence))' = Labelled(ApplyContextPolicy(evidence))
    <3>1. PICK c : c = ApplyContextPolicy(evidence) /\ c = ApplyContextPolicy(evidence')
      OBVIOUS
    <3>2. Labelled(c)' = Labelled(c)  BY ConfigFrame
    <3>3. QED  BY <3>1, <3>2
  <2>3. QED  BY <2>1, <2>2 DEF IInv, ShownInv
<1>8. ChannelInv' /\ PreparedInv' /\ FusionRespectsChannels'
  <2>1. Found' = Found  BY DEF Found
  <2>2. QED  BY <2>1 DEF IInv, ChannelInv, PreparedInv, FusionRespectsChannels
<1>9. CitationsGrounded'
  <2>1. PICK q : q = prepared /\ q = prepared'  OBVIOUS
  <2>2. ContextChunks(q)' = ContextChunks(q)  BY DEF ContextChunks, ChunkOf
  <2>3. QED  BY <2>1, <2>2 DEF IInv, CitationsGrounded
<1>10. Flags'  BY DEF IInv, Flags
<1>11. QED
  BY <1>3, <1>4, <1>5, <1>6, <1>7, <1>8, <1>9, <1>10 DEF IInv

\* A stage records that it starts, or the observer ends the turn.
LEMMA StartStageKeeps == ASSUME IInv, StartStage PROVE IInv'
<1>1. turn = "running" /\ ~started /\ todo[1].name \notin Unobserved /\ config' = config
  BY DEF StartStage
<1>2. PICK l \in Seq(Observed) : l = LogOfCall /\ Pairs(l, FALSE) /\ Len(l) % 2 = 0
  BY <1>1, CallLog DEF IInv
<1>3. UNCHANGED <<config, channels, degraded, fused, evidence, prepared, shown, raw, result>>
  BY DEF StartStage
<1>4. CASE /\ started' = TRUE
           /\ log' = Append(LogOfCall, Observation(todo[1].name, "started"))
           /\ UNCHANGED <<turn, todo, refused>>
  <2>1. PICK name \in Names : name = todo[1].name  BY <1>1, StageHere DEF IInv
  <2>2. PICK o \in Observed :
          o = Observation(name, "started") /\ o.stage = name /\ o.status = "started"
    <3>1. [stage |-> name, status |-> "started"] \in Observed  BY DEF Observed, Statuses
    <3>2. QED  BY <3>1 DEF Observation
  <2>3. PICK a : a = Append(l, o) /\ log' = a  BY <1>2, <1>4, <2>1, <2>2
  <2>4. a \in Seq(Observed) /\ Pairs(a, FALSE) /\ Len(a) = Len(l) + 1 /\ a[Len(l) + 1] = o
    BY <1>2, <2>2, <2>3, PairsAppend
  <2>5. Len(a) % 2 = 1
    <3>1. \A k \in Nat : k % 2 = 0 => (k + 1) % 2 = 1  OBVIOUS
    <3>2. QED  BY <1>2, <2>4, <3>1
  <2>6. LogInv'
    <3>1. Pairs(log, turn = "failed")'
      <4>1. (turn' = "failed") = FALSE  BY <1>1, <1>4
      <4>2. QED  BY <2>3, <2>4, <4>1
    <3>2. log' \in Seq(Observed) /\ Len(log') % 2 = 1 /\ log'[Len(log')].stage = todo[1].name
      BY <2>1, <2>2, <2>3, <2>4, <2>5
    <3>3. ~refused  BY <1>1 DEF IInv, LogInv
    <3>4. QED  BY <1>1, <1>4, <3>1, <3>2, <3>3 DEF LogInv
  <2>7. UNCHANGED <<turn, todo, config, channels, degraded, fused, evidence, prepared, shown,
                    raw, result>>
    BY <1>3, <1>4
  <2>8. started' \in BOOLEAN /\ refused' \in BOOLEAN  BY <1>4 DEF IInv, Flags
  <2>9. QED  BY <2>6, <2>7, <2>8, TurnStays, Zenon
<1>5. CASE refused' = TRUE /\ log' = LogOfCall /\ Stop
  <2>1. Halts  BY <1>1, <1>5 DEF Halts, Stop
  <2>2. Goes /\ ~Moves  BY <2>1 DEF Goes, Halts, Moves
  <2>3. LogInv'
    <3>1. Pairs(l, TRUE)  BY <1>2 DEF Pairs
    <3>2. Pairs(log, turn = "failed")'
      <4>1. (turn' = "failed") = TRUE  BY <2>1 DEF Halts
      <4>2. QED  BY <1>2, <1>5, <3>1, <4>1
    <3>3. QED  BY <1>2, <1>5, <2>1, <3>2 DEF LogInv, Halts
  <2>4. PlanInv' /\ QueryInv' /\ ChannelInv' /\ FusedInv' /\ FusionRespectsChannels'
    BY <1>3, <2>2, RetrievalKept DEF IInv, Flags
  <2>5. Flags'  BY <1>3, <1>5, <2>2, FlagsKept DEF IInv, Flags
  <2>6. EvidenceInv' /\ ShownInv'  BY <1>3, <2>2, EvidenceKept, ShownKept DEF IInv
  <2>7. PreparedInv'  BY <1>3 DEF IInv, PreparedInv
  <2>8. CitationsGrounded'  BY <2>1, NotAnswered DEF Halts
  <2>9. QED  BY <2>3, <2>4, <2>5, <2>6, <2>7, <2>8 DEF IInv
<1>6. QED  BY <1>4, <1>5 DEF StartStage

-----------------------------------------------------------------------------
(* The evidence.                                                           *)

\* The lesser of two numbers.
LEMMA MinOfTwo ==
  ASSUME NEW a \in Nat, NEW b \in Nat
  PROVE  Min({a, b}) \in Nat /\ Min({a, b}) <= a /\ Min({a, b}) <= b
<1>1. PICK x \in {a, b} : \A y \in {a, b} : x =< y
  <2>1. CASE a <= b  BY <2>1
  <2>2. CASE b <= a  BY <2>2
  <2>3. QED  BY <2>1, <2>2
<1>2. Min({a, b}) \in {a, b} /\ \A y \in {a, b} : Min({a, b}) =< y  BY <1>1 DEF Min
<1>3. QED  BY <1>2

\* Distinct stored chunks, with the texts the store has for them, are grounded.
LEMMA LoadedGrounds ==
  ASSUME NEW ids \in Seq(Nat \ {0}), Loads(ids), IsInjective(ids),
         NEW items, items = [n \in DOMAIN ids |-> Item(ids[n], ids[n])]
  PROVE  Grounds(items) /\ IdsOf(items) = ids /\ Len(items) = Len(ids)
<1>1. PICK k \in Nat : k = Len(ids) /\ DOMAIN ids = 1 .. k  OBVIOUS
<1>2. \A n \in 1 .. k : ids[n] \in Stored  BY <1>1 DEF Loads, ToSet
<1>3. ASSUME NEW n \in 1 .. k
      PROVE  /\ items[n] \in [id : Stored, text : Stored]
             /\ items[n].id = ids[n] /\ items[n].text = ids[n]
  <2>1. items[n] = [id |-> ids[n], text |-> ids[n]]  BY <1>1 DEF Item
  <2>2. QED  BY <1>2, <2>1
<1>4. items \in Seq([id : Stored, text : Stored]) /\ Len(items) = k /\ DOMAIN items = 1 .. k
  <2>1. DOMAIN items = 1 .. k  BY <1>1
  <2>2. items = [n \in 1 .. k |-> items[n]]  BY <1>1
  <2>3. items \in [1 .. k -> [id : Stored, text : Stored]]  BY <1>3, <2>2
  <2>4. QED  BY <2>1, <2>3
<1>5. IdsOf(items) = ids
  <2>1. ids = [n \in 1 .. k |-> ids[n]]  BY <1>1
  <2>2. IdsOf(items) = [n \in 1 .. k |-> items[n].id]  BY <1>4 DEF IdsOf
  <2>3. QED  BY <1>3, <2>1, <2>2
<1>6. QED  BY <1>1, <1>3, <1>4, <1>5 DEF Grounds

\* The evidence of a stage that changes it, when the stage may leave it to the next ones.
LEMMA EvidenceChanges ==
  ASSUME PlanInv, Goes, Grounds(evidence)', Place(todo[1].name) \in 3 .. 5,
         Moves /\ ~config.augmented =>
           (/\ ToSet(IdsOf(evidence))
                 \subseteq ToSet(SubSeq(fused, 1, Min({EvidenceLimit, Len(fused)})))
            /\ Len(evidence) <= IF Passed(4) THEN EvidenceK ELSE EvidenceLimit)'
  PROVE  EvidenceInv'
<1>1. 3 \in 1 .. 8  OBVIOUS
<1>2. CASE Halts
  <2>1. ~Passed(3)' /\ ~Ahead(3)'  BY <1>1, <1>2, HaltsThere
  <2>2. QED  BY <2>1 DEF EvidenceInv
<1>3. CASE Moves
  <2>1. Passed(3)' /\ ~Ahead(3)'
    <3>1. CASE Place(todo[1].name) = 3  BY <1>1, <1>3, <3>1, MovesPast
    <3>2. CASE Place(todo[1].name) # 3
      <4>1. Place(todo[1].name) > 3  BY <3>2
      <4>2. QED  BY <1>1, <1>3, <4>1, MovesPast
    <3>3. QED  BY <3>1, <3>2
  <2>2. config' = config  BY <1>3 DEF Moves
  <2>3. QED  BY <1>3, <2>1, <2>2 DEF EvidenceInv
<1>4. QED  BY <1>2, <1>3 DEF Goes

\* A stage that only changes the evidence.
LEMMA EvidenceOnly ==
  ASSUME IInv, Goes, EvidenceInv', LogInv', refused' \in {refused, TRUE},
         Place(todo[1].name) \in 3 .. 5,
         UNCHANGED <<channels, degraded, fused, prepared, shown, raw, result>>
  PROVE  IInv'
<1>1. PlanInv' /\ QueryInv' /\ ChannelInv' /\ FusedInv' /\ FusionRespectsChannels'
  BY RetrievalKept DEF IInv, Flags
<1>2. Flags'  BY FlagsKept DEF IInv, Flags
<1>3. ShownInv'  BY ShownKept DEF IInv
<1>4. turn' # "answered"  BY AnswersLast, Places DEF IInv
<1>5. PreparedInv' /\ CitationsGrounded'  BY <1>4, NotAnswered DEF IInv, PreparedInv
<1>6. QED  BY <1>1, <1>2, <1>3, <1>5 DEF IInv

\* Hydration makes evidence of the best of the fusion.
LEMMA HydrateKeeps == ASSUME IInv, Hydrate PROVE IInv'
<1>1. turn = "running" /\ todo # <<>> /\ todo[1].name = "hydrate" /\ Place(todo[1].name) = 3
  BY Places DEF Hydrate, Ready, At
<1>2. LogInv' /\ refused' = refused /\ Moves
  <2>1. "hydrate" \in Unobserved  BY DEF Unobserved
  <2>2. QED  BY <2>1, StagePasses DEF IInv, Hydrate
<1>3. PICK best : best = Min({EvidenceLimit, Len(fused)})  OBVIOUS
<1>4. EvidenceLimit \in Nat /\ (config.strategy # "rrf-reranked" => EvidenceLimit = EvidenceK)
  BY LimitAssumption DEF EvidenceLimit
<1>5. PICK k \in Nat : k = Len(fused) /\ fused \in Seq(Nat \ {0}) /\ DOMAIN fused = 1 .. k
  BY DEF IInv, Flags
<1>6. best \in Nat /\ best <= EvidenceLimit /\ best <= k  BY <1>3, <1>4, <1>5, MinOfTwo
<1>7. PICK ids : ids = SubSeq(fused, 1, best)  OBVIOUS
<1>8. ids \in Seq(Nat \ {0}) /\ Len(ids) = best
  <2>1. \A i \in 1 .. best : fused[i] \in Nat \ {0}  BY <1>5, <1>6
  <2>2. ids \in Seq(Nat \ {0}) /\ Len(ids) = IF 1 <= best THEN best - 1 + 1 ELSE 0
    BY <1>6, <1>7, <2>1, SubSeqProperties
  <2>3. QED  BY <1>6, <2>2
<1>9. Loads(ids) /\ IsInjective(ids)
      /\ evidence' = [n \in DOMAIN ids |-> Item(ids[n], ids[n])]
  BY <1>3, <1>7 DEF Hydrate
<1>10. PICK e : e = evidence' /\ Grounds(e) /\ IdsOf(e) = ids /\ Len(e) = best
  BY <1>8, <1>9, LoadedGrounds
<1>11. Grounds(evidence)'  BY <1>10
<1>12. Passed(4)' => EvidenceLimit = EvidenceK
  <2>1. CASE config.strategy = "rrf-reranked"
    <3>1. "reranking" \in Needed /\ Place("reranking") = 4 /\ 4 \in 1 .. 8
      BY <2>1, Places DEF Needed
    <3>2. ~Passed(4)'  BY <1>1, <1>2, <3>1, MovesPast DEF IInv
    <3>3. QED  BY <3>2
  <2>2. QED  BY <1>4, <2>1
<1>13. EvidenceLimit' = EvidenceLimit  BY ConfigFrame DEF Hydrate
<1>14. fused' = fused  BY DEF Hydrate
<1>15. (/\ ToSet(IdsOf(evidence))
             \subseteq ToSet(SubSeq(fused, 1, Min({EvidenceLimit, Len(fused)})))
        /\ Len(evidence) <= IF Passed(4) THEN EvidenceK ELSE EvidenceLimit)'
  <2>1. ToSet(IdsOf(evidence'))
          \subseteq ToSet(SubSeq(fused', 1, Min({EvidenceLimit', Len(fused')})))
    BY <1>3, <1>7, <1>10, <1>13, <1>14
  <2>2. Len(evidence') <= IF Passed(4)' THEN EvidenceK ELSE EvidenceLimit'
    BY <1>4, <1>6, <1>10, <1>12, <1>13
  <2>3. QED  BY <2>1, <2>2
<1>16. EvidenceInv'  BY <1>1, <1>2, <1>11, <1>15, EvidenceChanges DEF IInv, Goes
<1>17. QED  BY <1>1, <1>2, <1>16, EvidenceOnly DEF Hydrate, Goes

\* The augmenter replaces the evidence by other stored chunks.
LEMMA AugmentKeeps == ASSUME IInv, NEW ids \in EvidenceLists, Augment(ids) PROVE IInv'
<1>1. turn = "running" /\ todo # <<>> /\ todo[1].name = "augment" /\ Place(todo[1].name) = 5
  BY Places DEF Augment, Ready, At
<1>2. config.augmented
  <2>1. PICK s : s = todo  OBVIOUS
  <2>2. Planned(s) /\ s # <<>>  BY <1>1, <2>1, StageHere DEF IInv
  <2>3. 1 \in DOMAIN s  BY <2>2 DEF Planned
  <2>4. QED  BY <1>1, <2>1, <2>2, <2>3 DEF Planned
<1>3. ids \in Seq(Nat \ {0})  BY ProviderAssumption
<1>4. CASE IsInjective(ids) /\ Loads(ids)
  <2>1. LogInv' /\ refused' = refused /\ Moves
    <3>1. "augment" \in Unobserved  BY DEF Unobserved
    <3>2. QED  BY <1>4, <3>1, StagePasses DEF IInv, Augment
  <2>2. evidence' = [n \in DOMAIN ids |-> Item(ids[n], ids[n])]  BY <1>4 DEF Augment
  <2>3. PICK e : e = evidence' /\ Grounds(e)  BY <1>3, <1>4, <2>2, LoadedGrounds
  <2>4. Grounds(evidence)'  BY <2>3
  <2>5. EvidenceInv'  BY <1>1, <1>2, <2>1, <2>4, EvidenceChanges DEF IInv, Goes
  <2>6. QED  BY <1>1, <2>1, <2>5, EvidenceOnly DEF Augment, Goes
<1>5. CASE ~(IsInjective(ids) /\ Loads(ids))
  <2>1. FailSilently /\ evidence' = evidence  BY <1>5 DEF Augment
  <2>2. LogInv' /\ refused' = refused /\ Halts
    BY <1>1, <2>1, StageStops DEF IInv, Augment
  <2>3. QED  BY <2>1, <2>2, FailureKeeps DEF Augment
<1>6. QED  BY <1>4, <1>5

\* The reranker orders the candidates, and drops the last of them.
LEMMA RerankKeeps == ASSUME IInv, NEW ids \in EvidenceLists, Rerank(ids) PROVE IInv'
<1>1. turn = "running" /\ todo # <<>> /\ todo[1].name = "reranking" /\ Place(todo[1].name) = 4
      /\ started
  BY Places DEF Rerank, Ready, At, Unobserved
<1>2. CASE ~ValidReranking(ids)
  <2>1. FailStage /\ evidence' = evidence  BY <1>2 DEF Rerank
  <2>2. LogInv' /\ refused' = refused /\ Halts
    BY <1>1, <2>1, StageStops DEF IInv, Rerank
  <2>3. QED  BY <2>1, <2>2, FailureKeeps DEF Rerank
<1>3. CASE ValidReranking(ids)
  <2>1. LogInv' /\ refused' \in {refused, TRUE} /\ Goes
    <3>1. "reranking" \in Names \ Unobserved  BY DEF Names, Unobserved
    <3>2. QED  BY <1>3, <3>1, StageEnds DEF IInv, Rerank, Goes
  <2>2. PICK e : e = evidence /\ Grounds(e)  BY DEF IInv, EvidenceInv
  <2>3. PICK m \in Nat : m = Len(e) /\ DOMAIN e = 1 .. m
        /\ \A n \in 1 .. m : e[n] \in [id : Stored, text : Stored] /\ e[n].text = e[n].id
    <3>1. e \in Seq([id : Stored, text : Stored])  BY <2>2 DEF Grounds
    <3>2. PICK k \in Nat : k = Len(e) /\ DOMAIN e = 1 .. k  BY <3>1
    <3>3. \A n \in 1 .. k : e[n] \in [id : Stored, text : Stored]
      <4>1. PICK T : T = [id : Stored, text : Stored]  OBVIOUS
      <4>2. e \in Seq(T)  BY <3>1, <4>1
      <4>3. \A n \in 1 .. k : e[n] \in T  BY <3>2, <4>2
      <4>4. QED  BY <4>1, <4>3
    <3>4. \A n \in 1 .. k : e[n].text = e[n].id  BY <2>2, <3>2 DEF Grounds
    <3>5. QED  BY <3>2, <3>3, <3>4
  <2>4. /\ ids \in Seq(Nat \ {0}) /\ Len(ids) = Min({EvidenceK, m})
        /\ ToSet(ids) \subseteq ToSet(IdsOf(e)) /\ IsInjective(ids)
    BY <1>3, <2>2, <2>3, ProviderAssumption DEF ValidReranking
  <2>5. PICK k \in Nat : k = Len(ids) /\ DOMAIN ids = 1 .. k  BY <2>4
  <2>6. k <= EvidenceK
    <3>1. EvidenceK \in Nat  BY LimitAssumption
    <3>2. QED  BY <2>3, <2>4, <2>5, <3>1, MinOfTwo
  <2>7. ASSUME NEW n \in 1 .. k
        PROVE  \E i \in 1 .. m : e[i].id = ids[n]
    <3>1. ids[n] \in ToSet(ids)  BY <2>5 DEF ToSet
    <3>2. ids[n] \in ToSet(IdsOf(e))  BY <2>4, <3>1
    <3>3. QED  BY <2>3, <3>2 DEF ToSet, IdsOf
  <2>8. PICK f : f = evidence' /\ f = [n \in 1 .. k |->
                                         CHOOSE item \in ToSet(e) : item.id = ids[n]]
    BY <1>3, <2>2, <2>5 DEF Rerank
  <2>9. ASSUME NEW n \in 1 .. k
        PROVE  f[n] \in [id : Stored, text : Stored] /\ f[n].id = ids[n] /\ f[n].text = f[n].id
    <3>1. PICK i \in 1 .. m : e[i].id = ids[n]  BY <2>7
    <3>2. e[i] \in ToSet(e)  BY <2>3 DEF ToSet
    <3>3. f[n] \in ToSet(e) /\ f[n].id = ids[n]  BY <2>8, <3>1, <3>2
    <3>4. PICK j \in 1 .. m : f[n] = e[j]  BY <2>3, <3>3 DEF ToSet
    <3>5. QED  BY <2>3, <3>3, <3>4
  <2>10. /\ f \in Seq([id : Stored, text : Stored]) /\ Len(f) = k /\ DOMAIN f = 1 .. k
    <3>1. DOMAIN f = 1 .. k  BY <2>8
    <3>2. f = [n \in 1 .. k |-> f[n]]  BY <2>8
    <3>3. PICK T : T = [id : Stored, text : Stored]  OBVIOUS
    <3>4. f \in [1 .. k -> T]  BY <2>9, <3>2, <3>3
    <3>5. f \in Seq(T) /\ Len(f) = k  BY <3>4
    <3>6. QED  BY <3>1, <3>3, <3>5
  <2>11. IdsOf(f) = ids
    <3>1. ids = [n \in 1 .. k |-> ids[n]]  BY <2>4, <2>5
    <3>2. IdsOf(f) = [n \in 1 .. k |-> f[n].id]  BY <2>10 DEF IdsOf
    <3>3. QED  BY <2>9, <3>1, <3>2
  <2>12. Grounds(f)  BY <2>4, <2>9, <2>10, <2>11 DEF Grounds
  <2>13. Grounds(evidence)'  BY <2>8, <2>12
  <2>14. ASSUME Moves, ~config.augmented
         PROVE  (/\ ToSet(IdsOf(evidence))
                     \subseteq ToSet(SubSeq(fused, 1, Min({EvidenceLimit, Len(fused)})))
                 /\ Len(evidence) <= IF Passed(4) THEN EvidenceK ELSE EvidenceLimit)'
    <3>1. Passed(3) /\ Passed(4)'
      <4>1. 3 \in 1 .. 8 /\ 4 \in 1 .. 8  OBVIOUS
      <4>2. QED  BY <1>1, <2>14, <4>1, MovesPast DEF IInv
    <3>2. PICK best : best = ToSet(SubSeq(fused, 1, Min({EvidenceLimit, Len(fused)})))  OBVIOUS
    <3>3. ToSet(IdsOf(e)) \subseteq best  BY <2>2, <2>14, <3>1, <3>2 DEF IInv, EvidenceInv
    <3>4. EvidenceLimit' = EvidenceLimit /\ fused' = fused  BY ConfigFrame DEF Rerank
    <3>5. ToSet(IdsOf(evidence'))
            \subseteq ToSet(SubSeq(fused', 1, Min({EvidenceLimit', Len(fused')})))
      BY <2>4, <2>8, <2>11, <3>2, <3>3, <3>4
    <3>6. Len(evidence') <= IF Passed(4)' THEN EvidenceK ELSE EvidenceLimit'
      BY <2>6, <2>8, <2>10, <3>1
    <3>7. QED  BY <3>5, <3>6
  <2>15. EvidenceInv'  BY <1>1, <2>1, <2>13, <2>14, EvidenceChanges DEF IInv
  <2>16. UNCHANGED <<channels, degraded, fused, prepared, shown, raw, result>>
    BY DEF Rerank
  <2>17. Place(todo[1].name) \in 3 .. 5  BY <1>1
  <2>18. QED  BY <2>1, <2>15, <2>16, <2>17, EvidenceOnly, Zenon
<1>4. QED  BY <1>2, <1>3

-----------------------------------------------------------------------------
(* Context and generation.                                                 *)

\* A step that leaves retrieval as it was.
LEMMA RetrievalOver ==
  ASSUME IInv, Goes, LogInv', refused' \in {refused, TRUE}, Place(todo[1].name) \in 6 .. 8,
         UNCHANGED <<channels, degraded, fused, evidence>>,
         ShownInv', PreparedInv', CitationsGrounded'
  PROVE  IInv'
<1>1. PlanInv' /\ QueryInv' /\ ChannelInv' /\ FusedInv' /\ FusionRespectsChannels'
  BY RetrievalKept DEF IInv, Flags
<1>2. Flags'  BY FlagsKept DEF IInv, Flags
<1>3. EvidenceInv'  BY EvidenceKept DEF IInv
<1>4. QED  BY <1>1, <1>2, <1>3 DEF IInv

\* What the context and Prepared may hold, authorized or not.
ContextItem == [id : Int, text : Nat]
PreparedType == [context : Seq(ContextItem), labels : Seq(Stored)]

\* The items of a list by their chunks or, with ordinal labels, by their places.
LEMMA LabelledItems ==
  ASSUME NEW items \in Seq(StoredItem)
  PROVE  /\ Labelled(items) \in Seq(ContextItem) /\ Len(Labelled(items)) = Len(items)
         /\ \A n \in 1 .. Len(items) :
              /\ Labelled(items)[n].text = items[n].text
              /\ Labelled(items)[n].id =
                   IF config.style = "ordinal" THEN Label(n) ELSE items[n].id
<1>1. PICK k \in Nat : k = Len(items) /\ DOMAIN items = 1 .. k  OBVIOUS
<1>2. \A n \in 1 .. k : items[n] \in StoredItem  BY <1>1
<1>3. PICK f : f = Labelled(items)  OBVIOUS
<1>4. ASSUME NEW n \in 1 .. k
      PROVE  /\ f[n].text = items[n].text
             /\ f[n].id = IF config.style = "ordinal" THEN Label(n) ELSE items[n].id
  <2>1. PICK x, y : x = items[n].id /\ y = items[n].text /\ items[n] = [id |-> x, text |-> y]
    BY <1>2 DEF StoredItem
  <2>2. CASE config.style = "ordinal"
    <3>1. f[n] = [items[n] EXCEPT !.id = Label(n)]  BY <1>1, <1>3, <2>2 DEF Labelled
    <3>2. f[n] = [id |-> Label(n), text |-> y]  BY <2>1, <3>1
    <3>3. QED  BY <2>1, <2>2, <3>2
  <2>3. CASE config.style # "ordinal"  BY <1>3, <2>3 DEF Labelled
  <2>4. QED  BY <2>2, <2>3
<1>5. ASSUME NEW n \in 1 .. k PROVE f[n] \in ContextItem
  <2>1. PICK x \in Nat, y \in Nat : items[n] = [id |-> x, text |-> y]
    BY <1>2, StoreAssumption DEF StoredItem
  <2>2. CASE config.style = "ordinal"
    <3>1. f[n] = [items[n] EXCEPT !.id = Label(n)]  BY <1>1, <1>3, <2>2 DEF Labelled
    <3>2. f[n] = [id |-> Label(n), text |-> y]  BY <2>1, <3>1
    <3>3. Label(n) \in Int  BY DEF Label
    <3>4. QED  BY <3>2, <3>3 DEF ContextItem
  <2>3. CASE config.style # "ordinal"
    <3>1. f[n] = [id |-> x, text |-> y]  BY <1>3, <2>1, <2>3 DEF Labelled
    <3>2. QED  BY <3>1 DEF ContextItem
  <2>4. QED  BY <2>2, <2>3
<1>6. f \in Seq(ContextItem) /\ Len(f) = k
  <2>1. DOMAIN f = 1 .. k  BY <1>1, <1>3 DEF Labelled
  <2>2. f = [n \in 1 .. k |-> f[n]]
    <3>1. CASE config.style = "ordinal"  BY <1>1, <1>3, <3>1 DEF Labelled
    <3>2. CASE config.style # "ordinal"  BY <1>1, <1>3, <3>2 DEF Labelled
    <3>3. QED  BY <3>1, <3>2
  <2>3. f \in [1 .. k -> ContextItem]  BY <1>5, <2>2
  <2>4. QED  BY <2>3
<1>7. QED  BY <1>1, <1>3, <1>4, <1>6

\* Preparation shows the context of the evidence.
LEMMA PrepareKeeps == ASSUME IInv, Prepare PROVE IInv'
<1>1. turn = "running" /\ todo # <<>> /\ todo[1].name = "context" /\ Place(todo[1].name) = 6
  BY Places DEF Prepare, Ready, At
<1>2. LogInv' /\ refused' \in {refused, TRUE} /\ Goes
  <2>1. "context" \in Names \ Unobserved  BY DEF Names, Unobserved
  <2>2. QED  BY <2>1, StageEnds DEF IInv, Prepare, Goes
<1>3. PICK c : c = ApplyContextPolicy(evidence) /\ Grounds(c)
  BY ContextTaken DEF IInv, EvidenceInv
<1>4. c \in Seq(StoredItem)  BY <1>3 DEF Grounds, StoredItem
<1>5. shown' = Labelled(c)
      /\ prepared' = [context |-> Labelled(c),
                      labels |-> IF config.style = "ordinal" THEN IdsOf(c) ELSE <<>>]
  BY <1>3 DEF Prepare
<1>6. ShownInv'
  <2>1. c = ApplyContextPolicy(evidence')  BY <1>3 DEF Prepare
  <2>2. Labelled(c)' = Labelled(c)  BY ConfigFrame DEF Prepare
  <2>3. shown' = Labelled(ApplyContextPolicy(evidence))'  BY <1>5, <2>1, <2>2
  <2>4. ~Ahead(6)'
    <3>1. 6 \in 1 .. 8  OBVIOUS
    <3>2. QED  BY <1>1, <1>2, <3>1, MovesPast, HaltsThere DEF IInv, Goes
  <2>5. QED  BY <2>3, <2>4 DEF ShownInv
<1>7. PreparedInv'
  <2>1. PICK x \in Seq(ContextItem) : x = Labelled(c)  BY <1>4, LabelledItems
  <2>2. PICK y \in Seq(Stored) : y = IF config.style = "ordinal" THEN IdsOf(c) ELSE <<>>
    <3>1. PICK k \in Nat : k = Len(c) /\ DOMAIN c = 1 .. k  BY <1>4
    <3>2. \A n \in 1 .. k : c[n] \in StoredItem  BY <1>4, <3>1
    <3>3. \A n \in 1 .. k : c[n].id \in Stored  BY <3>2 DEF StoredItem
    <3>4. IdsOf(c) \in [1 .. k -> Stored]  BY <3>1, <3>3 DEF IdsOf
    <3>5. IdsOf(c) \in Seq(Stored) /\ <<>> \in Seq(Stored)  BY <3>4
    <3>6. QED  BY <3>5
  <2>3. prepared' = [context |-> x, labels |-> y]  BY <1>5, <2>1, <2>2
  <2>4. prepared' \in [context : Seq([id : Int, text : Nat]), labels : Seq(Stored)]
    BY <2>3 DEF ContextItem
  <2>5. QED  BY <2>4 DEF IInv, PreparedInv, Prepare
<1>8. CitationsGrounded'  BY <1>1, <1>2, AnswersLast, NotAnswered DEF IInv
<1>9. Place(todo[1].name) \in 6 .. 8 /\ UNCHANGED <<channels, degraded, fused, evidence>>
  BY <1>1 DEF Prepare
<1>10. QED  BY <1>2, <1>6, <1>7, <1>8, <1>9, RetrievalOver, Zenon

\* The generator replies.
LEMMA GenerateKeeps == ASSUME IInv, NEW reply \in Replies, Generate(reply) PROVE IInv'
<1>1. turn = "running" /\ todo # <<>> /\ todo[1].name = "generation" /\ Place(todo[1].name) = 7
  BY Places DEF Generate, Ready, At
<1>2. LogInv' /\ refused' \in {refused, TRUE} /\ Goes
  <2>1. "generation" \in Names \ Unobserved  BY DEF Names, Unobserved
  <2>2. QED  BY <2>1, StageEnds DEF IInv, Generate, Goes
<1>3. ShownInv'  BY <1>1, <1>2, ShownKept DEF IInv, Generate
<1>4. PreparedInv'  BY DEF IInv, PreparedInv, Generate
<1>5. CitationsGrounded'  BY <1>1, <1>2, AnswersLast, NotAnswered DEF IInv
<1>6. Place(todo[1].name) \in 6 .. 8 /\ UNCHANGED <<channels, degraded, fused, evidence>>
  BY <1>1 DEF Generate
<1>7. QED  BY <1>2, <1>3, <1>4, <1>5, <1>6, RetrievalOver, Zenon

\* What a batch hands back has the type of what it was given.
LEMMA RestagedTyped ==
  ASSUME NEW q \in PreparedType, NEW p \in Restaged(q)  PROVE p \in PreparedType
<1>1. PICK c \in Seq(ContextItem), l \in Seq(Stored) :
        c = q.context /\ l = q.labels /\ q = [context |-> c, labels |-> l]
  BY DEF PreparedType
<1>2. ASSUME NEW T, NEW s \in Seq(T) PROVE Reverse(s) \in Seq(T)
  <2>1. PICK n \in Nat : n = Len(s) /\ DOMAIN s = 1 .. n  OBVIOUS
  <2>2. \A i \in 1 .. n : n - i + 1 \in 1 .. n  OBVIOUS
  <2>3. \A i \in 1 .. n : s[i] \in T  BY <2>1
  <2>4. Reverse(s) = [i \in 1 .. n |-> s[n - i + 1]]  BY <2>1 DEF Reverse
  <2>5. Reverse(s) \in [1 .. n -> T]  BY <2>2, <2>3, <2>4
  <2>6. QED  BY <2>5
<1>3. Reverse(c) \in Seq(ContextItem) /\ Reverse(l) \in Seq(Stored)  BY <1>2
<1>4. c \o c \in Seq(ContextItem)  BY ConcatProperties
<1>5. PICK n \in Nat : n = Len(c) /\ DOMAIN c = 1 .. n
      /\ \A i \in 1 .. n : c[i] \in ContextItem
  OBVIOUS
<1>6. SubSeq(c, 1, Len(c) - 1) \in Seq(ContextItem)
  <2>1. n - 1 \in Int /\ \A i \in 1 .. n - 1 : c[i] \in ContextItem  BY <1>5
  <2>2. QED  BY <1>5, <2>1, SubSeqProperties
<1>7. [i \in DOMAIN c |-> Item(c[i].id, Altered)] \in Seq(ContextItem)
  <2>1. ASSUME NEW i \in 1 .. n PROVE Item(c[i].id, Altered) \in ContextItem
    <3>1. c[i].id \in Int  BY <1>5 DEF ContextItem
    <3>2. QED  BY <3>1 DEF Item, Altered, ContextItem
  <2>2. [i \in 1 .. n |-> Item(c[i].id, Altered)] \in [1 .. n -> ContextItem]  BY <2>1
  <2>3. [i \in 1 .. n |-> Item(c[i].id, Altered)] \in Seq(ContextItem)  BY <2>2
  <2>4. QED  BY <1>5, <2>3
<1>8. PICK x \in {c, Reverse(c), c \o c, SubSeq(c, 1, Len(c) - 1),
                  [i \in DOMAIN c |-> Item(c[i].id, Altered)]},
           y \in {l, Reverse(l)} : p = [context |-> x, labels |-> y]
  <2>1. \A x : [q EXCEPT !.context = x] = [context |-> x, labels |-> l]  BY <1>1
  <2>2. \A y : [q EXCEPT !.labels = y] = [context |-> c, labels |-> y]  BY <1>1
  <2>3. \A x, y : [q EXCEPT !.context = x, !.labels = y] = [context |-> x, labels |-> y]
    <3>1. SUFFICES ASSUME NEW x, NEW y
                   PROVE  [q EXCEPT !.context = x, !.labels = y] = [context |-> x, labels |-> y]
      OBVIOUS
    <3>2. PICK z : z = [q EXCEPT !.context = x]  OBVIOUS
    <3>3. z = [context |-> x, labels |-> l]  BY <2>1, <3>2
    <3>4. [z EXCEPT !.labels = y] = [context |-> x, labels |-> y]  BY <3>3
    <3>5. QED  BY <3>2, <3>4
  <2>4. p \in {q, [q EXCEPT !.context = Reverse(c)], [q EXCEPT !.labels = Reverse(l)],
               [q EXCEPT !.context = c \o c],
               [q EXCEPT !.context = Reverse(c), !.labels = Reverse(l)],
               [q EXCEPT !.context = SubSeq(c, 1, Len(c) - 1)],
               [q EXCEPT !.context = [i \in DOMAIN c |-> Item(c[i].id, Altered)]]}
    BY <1>1 DEF Restaged
  <2>5. QED  BY <1>1, <2>1, <2>2, <2>3, <2>4
<1>9. x \in Seq(ContextItem)  BY <1>3, <1>4, <1>6, <1>7, <1>8
<1>10. y \in Seq(Stored)  BY <1>3, <1>8
<1>11. QED  BY <1>8, <1>9, <1>10 DEF PreparedType

\* A batch hands back what it likes, and its generator replies.
LEMMA BatchKeeps ==
  ASSUME IInv, NEW reply \in Replies, NEW p \in Restaged(prepared), Batch(p, reply)
  PROVE  IInv'
<1>1. turn = "running" /\ todo # <<>> /\ todo[1].name = "batch" /\ Place(todo[1].name) = 7
  BY Places DEF Batch, Ready, At
<1>2. LogInv' /\ refused' = refused /\ Moves
  <2>1. "batch" \in Unobserved  BY DEF Unobserved
  <2>2. QED  BY <2>1, StagePasses DEF IInv, Batch
<1>3. ShownInv'  BY <1>1, <1>2, ShownKept DEF IInv, Batch, Goes
<1>4. PreparedInv'
  <2>1. prepared \in PreparedType  BY DEF IInv, PreparedInv, PreparedType, ContextItem
  <2>2. p \in PreparedType  BY <2>1, RestagedTyped
  <2>3. prepared' \in [context : Seq([id : Int, text : Nat]), labels : Seq(Stored)]
    BY <2>2 DEF Batch, PreparedType, ContextItem
  <2>4. raw' \in Replies /\ result' = result  BY DEF Batch
  <2>5. QED  BY <2>3, <2>4 DEF IInv, PreparedInv
<1>5. CitationsGrounded'  BY <1>1, <1>2, AnswersLast, NotAnswered DEF IInv, Goes
<1>6. QED  BY <1>1, <1>2, <1>3, <1>4, <1>5, RetrievalOver DEF Batch, Goes

-----------------------------------------------------------------------------
(* The contract.                                                           *)

\* An answer cites what it may, from a Prepared value with the contents of the store.
Cites(p, answer) ==
  /\ \A n \in DOMAIN p.context : p.context[n].text = ContextChunks(p)[n]
  /\ ~answer.abstained =>
       /\ answer.valid /\ answer.citations # <<>> /\ IsInjective(answer.citations)
       /\ ToSet(answer.citations) \subseteq ToSet(ContextChunks(p)) \cap Stored
       /\ config.style = "ordinal" =>
            \A n \in DOMAIN raw.cited :
              \E s \in DOMAIN shown :
                shown[s].id = raw.cited[n] /\ shown[s].text = answer.citations[n]

\* The chunks of a valid Prepared value, and the value it is replaced with.
LEMMA AuthoritativeItems ==
  ASSUME NEW q \in PreparedType, ValidPrepared(q), NEW p, p = Authoritative(q)
  PROVE  LET ids == ContextChunks(q) IN
         /\ p \in PreparedType /\ p.labels = q.labels
         /\ ids \in Seq(Stored) /\ DOMAIN p.context = DOMAIN ids
         /\ IsInjective(ids) /\ ContextChunks(p) = ids
         /\ \A n \in DOMAIN ids :
              /\ p.context[n].text = ids[n]
              /\ p.context[n].id = IF config.style = "ordinal" THEN Label(n) ELSE ids[n]
<1>1. PICK c \in Seq(ContextItem), l \in Seq(Stored) :
        c = q.context /\ l = q.labels /\ q = [context |-> c, labels |-> l]
  BY DEF PreparedType
<1>2. PICK k \in Nat : k = Len(c) /\ DOMAIN c = 1 .. k  OBVIOUS
<1>3. PICK ids : ids = ContextChunks(q)  OBVIOUS
<1>4. DOMAIN ids = 1 .. k /\ ids = [n \in 1 .. k |-> ids[n]]
  BY <1>1, <1>2, <1>3 DEF ContextChunks
<1>5. /\ IsInjective(ids) /\ ToSet(ids) \subseteq Stored
      /\ config.style = "ordinal" => IsPrefix(ids, l)
  BY <1>1, <1>3 DEF ValidPrepared, Loads
<1>6. \A n \in 1 .. k : ids[n] \in Stored  BY <1>4, <1>5 DEF ToSet
<1>7. ids \in Seq(Stored) /\ Len(ids) = k
  <2>1. ids \in [1 .. k -> Stored]  BY <1>4, <1>6
  <2>2. QED  BY <2>1
<1>8. PICK items : items = [n \in 1 .. k |-> Item(ids[n], ids[n])]  OBVIOUS
<1>9. ASSUME NEW n \in 1 .. k
      PROVE  items[n] \in StoredItem /\ items[n].id = ids[n] /\ items[n].text = ids[n]
  <2>1. items[n] = [id |-> ids[n], text |-> ids[n]]  BY <1>8 DEF Item
  <2>2. QED  BY <1>6, <2>1 DEF StoredItem
<1>10. items \in Seq(StoredItem) /\ Len(items) = k
  <2>1. items \in [1 .. k -> StoredItem]  BY <1>8, <1>9
  <2>2. QED  BY <2>1
<1>11. PICK d : d = Labelled(items)  OBVIOUS
<1>12. /\ d \in Seq(ContextItem) /\ Len(d) = k
       /\ \A n \in 1 .. k :
            d[n].text = ids[n] /\ d[n].id = IF config.style = "ordinal" THEN Label(n) ELSE ids[n]
  BY <1>9, <1>10, <1>11, LabelledItems
<1>13. p = [context |-> d, labels |-> l]
  <2>1. p = [q EXCEPT !.context = d]  BY <1>3, <1>4, <1>8, <1>11 DEF Authoritative
  <2>2. QED  BY <1>1, <2>1
<1>14. p.context = d /\ p.labels = l /\ DOMAIN d = 1 .. k  BY <1>12, <1>13
<1>15. ASSUME NEW n \in 1 .. k PROVE ChunkOf(p, d[n].id) = ids[n]
  <2>1. CASE config.style = "ordinal"
    <3>1. -(d[n].id) = n  BY <1>12, <2>1 DEF Label
    <3>2. Len(ids) <= Len(l) /\ SubSeq(ids, 1, Len(ids)) = SubSeq(l, 1, Len(ids))
      BY <1>5, <2>1 DEF IsPrefix
    <3>3. PICK m \in Nat : m = Len(l) /\ DOMAIN l = 1 .. m  OBVIOUS
    <3>4. k <= m /\ n \in DOMAIN l  BY <1>7, <3>2, <3>3
    <3>5. SubSeq(ids, 1, k)[n] = ids[n]
      <4>1. SubSeq(ids, 1, k)[n] = ids[1 + n - 1] /\ 1 + n - 1 = n
        BY <1>6, <1>7, SubSeqProperties
      <4>2. QED  BY <4>1
    <3>6. SubSeq(l, 1, k)[n] = l[n]
      <4>1. \A i \in 1 .. k : l[i] \in Stored  BY <3>3, <3>4
      <4>2. SubSeq(l, 1, k)[n] = l[1 + n - 1] /\ 1 + n - 1 = n
        BY <4>1, SubSeqProperties
      <4>3. QED  BY <4>2
    <3>7. l[n] = ids[n]  BY <1>7, <3>2, <3>5, <3>6
    <3>8. QED  BY <1>14, <2>1, <3>1, <3>4, <3>7 DEF ChunkOf
  <2>2. CASE config.style # "ordinal"  BY <1>12, <2>2 DEF ChunkOf
  <2>3. QED  BY <2>1, <2>2
<1>16. ContextChunks(p) = ids
  <2>1. ContextChunks(p) = [n \in 1 .. k |-> ChunkOf(p, d[n].id)]
    BY <1>14 DEF ContextChunks
  <2>2. QED  BY <1>4, <1>15, <2>1
<1>17. p \in PreparedType  BY <1>12, <1>13 DEF PreparedType
<1>18. QED  BY <1>1, <1>3, <1>4, <1>5, <1>7, <1>12, <1>14, <1>16, <1>17

\* The answer made of a reply cites what it may.
LEMMA AnswerCites ==
  ASSUME NEW q \in PreparedType, ValidPrepared(q), NEW p, p = Authoritative(q),
         raw \in Replies \cup {NoReply}, Grounds(ApplyContextPolicy(evidence)),
         shown = Labelled(ApplyContextPolicy(evidence)),
         NEW answer, answer = ParseGroundedAnswer(raw, p)
  PROVE  /\ Cites(p, answer)
         /\ answer \in [valid : BOOLEAN, abstained : BOOLEAN, citations : Seq(Nat \ {0})]
<1>1. PICK ids : ids = ContextChunks(q)  OBVIOUS
<1>2. /\ p \in PreparedType /\ p.labels = q.labels
      /\ ids \in Seq(Stored) /\ DOMAIN p.context = DOMAIN ids
      /\ IsInjective(ids) /\ ContextChunks(p) = ids
      /\ \A n \in DOMAIN ids :
           /\ p.context[n].text = ids[n]
           /\ p.context[n].id = IF config.style = "ordinal" THEN Label(n) ELSE ids[n]
  BY <1>1, AuthoritativeItems
<1>3. PICK k \in Nat : k = Len(ids) /\ DOMAIN ids = 1 .. k /\ DOMAIN p.context = 1 .. k
  BY <1>2
<1>4. \A n \in 1 .. k : ids[n] \in Stored /\ p.context[n].text = ids[n]
  BY <1>2, <1>3
<1>5. \A n \in 1 .. k : ChunkOf(p, p.context[n].id) = ids[n]
  <2>1. ContextChunks(p) = [n \in 1 .. k |-> ChunkOf(p, p.context[n].id)]
    BY <1>3 DEF ContextChunks
  <2>2. QED  BY <1>2, <2>1
<1>6. \A n \in DOMAIN p.context : p.context[n].text = ContextChunks(p)[n]
  BY <1>2, <1>3, <1>4
<1>7. NoResult \in [valid : BOOLEAN, abstained : BOOLEAN, citations : Seq(Nat \ {0})]
      /\ NoResult.abstained = TRUE
  <2>1. <<>> \in Seq(Nat \ {0})  OBVIOUS
  <2>2. QED  BY <2>1 DEF NoResult
<1>8. CASE ~Grounded(raw, IdsOf(p.context))
  <2>1. answer = NoResult  BY <1>8 DEF ParseGroundedAnswer
  <2>2. QED  BY <1>6, <1>7, <2>1 DEF Cites
<1>9. CASE Grounded(raw, IdsOf(p.context))
  <2>1. PICK cited \in Seq(Int) : cited = raw.cited
    <3>1. NoReply.cited = <<>> /\ <<>> \in Seq(Int)  BY DEF NoReply
    <3>2. raw \in Replies => raw.cited \in Seq(Int)  BY ProviderAssumption
    <3>3. QED  BY <3>1, <3>2
  <2>2. PICK m \in Nat : m = Len(cited) /\ DOMAIN cited = 1 .. m  OBVIOUS
  <2>3. PICK cs : cs = [n \in 1 .. m |-> ChunkOf(p, cited[n])]  OBVIOUS
  <2>4. answer = [valid |-> TRUE, abstained |-> raw.kind = "abstained", citations |-> cs]
    BY <1>9, <2>1, <2>2, <2>3 DEF ParseGroundedAnswer
  <2>5. PICK silent \in BOOLEAN : silent = (raw.kind = "abstained")  OBVIOUS
  <2>6. /\ silent => cited = <<>>
        /\ ~silent => /\ cited # <<>> /\ IsInjective(cited)
                      /\ ToSet(cited) \subseteq ToSet(IdsOf(p.context))
    BY <1>9, <2>1, <2>5 DEF Grounded
  <2>7. ASSUME ~silent, NEW n \in 1 .. m
        PROVE  \E i \in 1 .. k : cited[n] = p.context[i].id /\ cs[n] = ids[i]
    <3>1. cited[n] \in ToSet(cited)  BY <2>2 DEF ToSet
    <3>2. cited[n] \in ToSet(IdsOf(p.context))  BY <2>6, <2>7, <3>1
    <3>3. PICK i \in 1 .. k : cited[n] = p.context[i].id
      BY <1>3, <3>2 DEF ToSet, IdsOf
    <3>4. cs[n] = ids[i]  BY <1>5, <2>3, <3>3
    <3>5. QED  BY <3>3, <3>4
  <2>8. cs \in Seq(Nat \ {0}) /\ Len(cs) = m /\ DOMAIN cs = 1 .. m
    <3>1. ASSUME NEW n \in 1 .. m PROVE cs[n] \in Nat \ {0}
      <4>1. ~silent
        <5>1. silent => m = 0  BY <2>2, <2>6
        <5>2. m # 0  BY <2>2, <3>1
        <5>3. QED  BY <5>1, <5>2
      <4>2. PICK i \in 1 .. k : cs[n] = ids[i]  BY <2>7, <4>1
      <4>3. QED  BY <1>4, <4>2, StoreAssumption
    <3>2. cs \in [1 .. m -> Nat \ {0}]  BY <2>3, <3>1
    <3>3. QED  BY <3>2
  <2>9. answer \in [valid : BOOLEAN, abstained : BOOLEAN, citations : Seq(Nat \ {0})]
    BY <2>4, <2>5, <2>8
  <2>10. answer.abstained = silent /\ answer.valid = TRUE /\ answer.citations = cs
    BY <2>4, <2>5
  <2>11. ASSUME ~silent
         PROVE  /\ cs # <<>> /\ IsInjective(cs)
                /\ ToSet(cs) \subseteq ToSet(ContextChunks(p)) \cap Stored
    <3>1. m # 0  BY <2>2, <2>6, <2>11
    <3>2. cs # <<>>  BY <2>2, <2>8, <3>1
    <3>3. ASSUME NEW n \in 1 .. m, NEW o \in 1 .. m, cs[n] = cs[o] PROVE n = o
      <4>1. PICK i \in 1 .. k : cited[n] = p.context[i].id /\ cs[n] = ids[i]
        BY <2>7, <2>11
      <4>2. PICK j \in 1 .. k : cited[o] = p.context[j].id /\ cs[o] = ids[j]
        BY <2>7, <2>11
      <4>3. i = j
        <5>1. ids[i] = ids[j]  BY <3>3, <4>1, <4>2
        <5>2. \A x, y \in 1 .. k : ids[x] = ids[y] => x = y
          BY <1>2, <1>3 DEF IsInjective
        <5>3. QED  BY <5>1, <5>2
      <4>4. cited[n] = cited[o]  BY <4>1, <4>2, <4>3
      <4>5. QED  BY <2>2, <2>6, <2>11, <4>4 DEF IsInjective
    <3>4. IsInjective(cs)  BY <2>8, <3>3 DEF IsInjective
    <3>5. ASSUME NEW n \in 1 .. m PROVE cs[n] \in ToSet(ContextChunks(p)) \cap Stored
      <4>1. PICK i \in 1 .. k : cs[n] = ids[i]  BY <2>7, <2>11
      <4>2. QED  BY <1>2, <1>3, <1>4, <4>1 DEF ToSet
    <3>6. QED  BY <2>8, <3>2, <3>4, <3>5 DEF ToSet
  <2>12. ASSUME ~silent, config.style = "ordinal", NEW n \in 1 .. m
         PROVE  \E s \in DOMAIN shown : shown[s].id = cited[n] /\ shown[s].text = cs[n]
    <3>1. PICK c \in Seq(StoredItem) : c = ApplyContextPolicy(evidence) /\ Grounds(c)
      BY DEF Grounds, StoredItem
    <3>2. PICK i \in 1 .. k : cited[n] = p.context[i].id /\ cs[n] = ids[i]
      BY <2>7, <2>12
    <3>3. cited[n] = Label(i)  BY <1>2, <1>3, <2>12, <3>2
    <3>4. q.labels = IdsOf(c) /\ IsPrefix(ids, q.labels)
      BY <1>1, <2>12, <3>1 DEF ValidPrepared, LabelsAuthorized
    <3>5. PICK x \in Nat : x = Len(c) /\ DOMAIN c = 1 .. x  OBVIOUS
    <3>6. PICK l : l = q.labels /\ l = [j \in 1 .. x |-> c[j].id]
      BY <3>4, <3>5 DEF IdsOf
    <3>7. l \in Seq(Stored) /\ Len(l) = x /\ DOMAIN l = 1 .. x
      <4>1. l \in Seq(Stored)  BY <3>6 DEF PreparedType
      <4>2. DOMAIN l = 1 .. x  BY <3>6
      <4>3. QED  BY <3>5, <4>1, <4>2
    <3>8. i \in 1 .. x /\ l[i] = ids[i]
      <4>1. k <= x /\ SubSeq(ids, 1, k) = SubSeq(l, 1, k)
        BY <1>3, <3>4, <3>6, <3>7 DEF IsPrefix
      <4>2. i \in 1 .. x /\ \A j \in 1 .. k : j \in 1 .. x  BY <3>2, <3>5, <4>1
      <4>3. \A j \in 1 .. k : l[j] \in Stored /\ ids[j] \in Stored
        BY <1>4, <3>7, <4>2
      <4>4. SubSeq(ids, 1, k)[i] = ids[1 + i - 1] /\ SubSeq(l, 1, k)[i] = l[1 + i - 1]
        BY <4>3, SubSeqProperties
      <4>5. 1 + i - 1 = i  OBVIOUS
      <4>6. QED  BY <4>1, <4>2, <4>4, <4>5
    <3>9. c[i].text = ids[i]
      <4>1. c[i].text = c[i].id  BY <3>1, <3>5, <3>8 DEF Grounds
      <4>2. QED  BY <3>6, <3>8, <4>1
    <3>10. /\ Len(Labelled(c)) = x /\ Labelled(c) \in Seq(ContextItem)
           /\ Labelled(c)[i].text = c[i].text /\ Labelled(c)[i].id = Label(i)
      BY <2>12, <3>5, <3>8, LabelledItems
    <3>11. shown = Labelled(c)  BY <3>1
    <3>12. i \in DOMAIN shown  BY <3>8, <3>10, <3>11
    <3>13. QED  BY <3>2, <3>3, <3>9, <3>10, <3>11, <3>12
  <2>13. Cites(p, answer)
    BY <1>6, <2>1, <2>2, <2>10, <2>11, <2>12 DEF Cites
  <2>14. QED  BY <2>9, <2>13
<1>10. QED  BY <1>8, <1>9

\* The contract is held against the evidence before it answers.
LEMMA InterpretKeeps == ASSUME IInv, Interpret PROVE IInv'
<1>1. turn = "running" /\ todo # <<>> /\ todo[1].name = "contract" /\ Place(todo[1].name) = 8
  BY Places DEF Interpret, Ready, At
<1>2. LogInv' /\ refused' \in {refused, TRUE} /\ Goes
  <2>1. "contract" \in Names \ Unobserved  BY DEF Names, Unobserved
  <2>2. Finish("completed", Tail(todo)) /\ Ready("contract") /\ config' = config
    BY DEF Interpret
  <2>3. QED  BY <2>1, <2>2, StageEnds DEF IInv, Goes
<1>3. PICK q \in PreparedType : q = prepared
  BY DEF IInv, PreparedInv, PreparedType, ContextItem
<1>4. PICK p : p = Authoritative(q)  OBVIOUS
<1>5. PICK answer : answer = ParseGroundedAnswer(raw, p)  OBVIOUS
<1>6. ValidPrepared(q) /\ prepared' = p /\ result' = answer
  BY <1>3, <1>4, <1>5 DEF Interpret
<1>7. shown = Labelled(ApplyContextPolicy(evidence)) /\ Grounds(ApplyContextPolicy(evidence))
  <2>1. Passed(6)  BY <1>1 DEF Passed, Live
  <2>2. QED  BY <2>1, ContextTaken DEF IInv, ShownInv, EvidenceInv
<1>8. /\ Cites(p, answer)
      /\ answer \in [valid : BOOLEAN, abstained : BOOLEAN, citations : Seq(Nat \ {0})]
  BY <1>4, <1>5, <1>6, <1>7, AnswerCites DEF IInv, PreparedInv
<1>9. p \in PreparedType  BY <1>4, <1>6, AuthoritativeItems
<1>10. UNCHANGED <<config, channels, degraded, fused, evidence, shown, raw>>
  BY DEF Interpret
<1>11. CitationsGrounded'
  <2>1. ContextChunks(p)' = ContextChunks(p)  BY <1>10 DEF ContextChunks, ChunkOf
  <2>2. Cites(p, answer)'  BY <1>8, <1>10, <2>1 DEF Cites
  <2>3. QED  BY <1>6, <2>2 DEF CitationsGrounded, Cites
<1>12. PreparedInv'
  BY <1>6, <1>8, <1>9, <1>10 DEF IInv, PreparedInv, PreparedType, ContextItem
<1>13. ShownInv'  BY <1>1, <1>2, <1>10, ShownKept DEF IInv
<1>14. Place(todo[1].name) \in 6 .. 8 /\ UNCHANGED <<channels, degraded, fused, evidence>>
  BY <1>1, <1>10
<1>15. QED  BY <1>2, <1>11, <1>12, <1>13, <1>14, RetrievalOver, Zenon

-----------------------------------------------------------------------------
(* The invariant.                                                          *)

\* A turn that has not begun.
LEMMA Initially == Init => IInv
<1>1. SUFFICES ASSUME Init PROVE IInv  OBVIOUS
<1>2. turn = "idle" /\ todo = <<>> /\ log = <<>> /\ channels = <<>> /\ evidence = <<>>
  BY <1>1 DEF Init
<1>3. ~Live /\ ~Generating /\ ~Passed(3) /\ ~Passed(6)
  BY <1>2 DEF Live, Generating, Passed
<1>4. Flags /\ PlanInv /\ QueryInv
  <2>1. Flags
    <3>1. started \in BOOLEAN /\ refused \in BOOLEAN /\ degraded \in BOOLEAN
      BY <1>1, Zenon DEF Init
    <3>2. config \in Configs /\ fused \in Seq(Nat \ {0})  BY <1>1 DEF Init
    <3>3. QED  BY <1>2, <3>1, <3>2 DEF Flags
  <2>2. PlanInv  BY <1>1, <1>3 DEF Init, PlanInv
  <2>3. QueryInv  BY <1>1, <1>3 DEF Init, QueryInv
  <2>4. QED  BY <2>1, <2>2, <2>3
<1>5. ChannelInv /\ FusedInv /\ FusionRespectsChannels
  BY <1>1 DEF Init, ChannelInv, FusedInv, FusionRespectsChannels
<1>6. EvidenceInv
  <2>1. <<>> \in Seq([id : Stored, text : Stored]) /\ DOMAIN <<>> = 1 .. 0  OBVIOUS
  <2>2. IsInjective(IdsOf(<<>>))  BY <2>1 DEF IsInjective, IdsOf
  <2>3. Grounds(<<>>)  BY <2>1, <2>2 DEF Grounds
  <2>4. QED  BY <1>2, <1>3, <2>3 DEF EvidenceInv
<1>7. ShownInv  BY <1>1, <1>3 DEF Init, ShownInv
<1>8. LogInv
  <2>1. <<>> \in Seq(Observed) /\ Pairs(<<>>, FALSE)  BY DEF Pairs
  <2>2. (turn = "failed") = FALSE  BY <1>2
  <2>3. Pairs(log, turn = "failed")  BY <1>2, <2>1, <2>2
  <2>4. QED  BY <1>1, <2>1, <2>3 DEF Init, LogInv
<1>9. PreparedInv
  <2>1. [context |-> <<>>, labels |-> <<>>] \in [context : Seq([id : Int, text : Nat]),
                                                labels : Seq(Stored)]
    OBVIOUS
  <2>2. NoResult \in [valid : BOOLEAN, abstained : BOOLEAN, citations : Seq(Nat \ {0})]
    BY DEF NoResult
  <2>3. QED  BY <1>1, <2>1, <2>2 DEF Init, PreparedInv
<1>10. CitationsGrounded  BY <1>2 DEF CitationsGrounded
<1>11. QED  BY <1>4, <1>5, <1>6, <1>7, <1>8, <1>9, <1>10 DEF IInv

\* Nothing changes.
LEMMA StutterKeeps == ASSUME IInv, UNCHANGED vars PROVE IInv'
<1>1. LogInv'
  <2>1. UNCHANGED <<turn, todo, log, started, refused>>  BY DEF vars
  <2>2. PICK l : l = log /\ l = log'  BY <2>1
  <2>3. Pairs(log, turn = "failed")'  BY <2>1 DEF IInv, LogInv, Pairs
  <2>4. QED  BY <2>1, <2>3 DEF IInv, LogInv
<1>2. started' \in BOOLEAN /\ refused' \in BOOLEAN  BY DEF vars, IInv, Flags
<1>3. UNCHANGED <<turn, todo, config, channels, degraded, fused, evidence, prepared, shown,
                  raw, result>>
  BY DEF vars
<1>4. QED  BY <1>1, <1>2, <1>3, TurnStays, Zenon

\* Every step keeps the invariant.
LEMMA StepsKeep == ASSUME IInv, [Next]_vars PROVE IInv'
<1>1. CASE Begin  BY <1>1, BeginKeeps
<1>2. CASE StartStage  BY <1>2, StartStageKeeps
<1>3. CASE GenerateNothing  BY <1>3, GenerateNothingKeeps
<1>4. CASE GenerateVariants  BY <1>4, GenerateVariantsKeeps
<1>5. CASE \E hits \in HitLists : Search(hits)  BY <1>5, SearchKeeps
<1>6. CASE Fuse  BY <1>6, FuseKeeps
<1>7. CASE StageFails  BY <1>7, StageFailsKeeps
<1>8. CASE Hydrate  BY <1>8, HydrateKeeps
<1>9. CASE \E ids \in EvidenceLists : Rerank(ids) \/ Augment(ids)
  BY <1>9, RerankKeeps, AugmentKeeps
<1>10. CASE RetrievalFails  BY <1>10, RetrievalFailsKeeps
<1>11. CASE Prepare  BY <1>11, PrepareKeeps
<1>12. CASE \E reply \in Replies :
              Generate(reply) \/ \E p \in Restaged(prepared) : Batch(p, reply)
  BY <1>12, GenerateKeeps, BatchKeeps
<1>13. CASE Interpret  BY <1>13, InterpretKeeps
<1>14. CASE InterpretFails  BY <1>14, InterpretFailsKeeps
<1>15. CASE UNCHANGED vars  BY <1>15, StutterKeeps
<1>16. QED
  BY <1>1, <1>2, <1>3, <1>4, <1>5, <1>6, <1>7, <1>8, <1>9, <1>10, <1>11, <1>12, <1>13,
     <1>14, <1>15 DEF Next

\* The invariant holds throughout a turn.
THEOREM Invariant == Spec => []IInv
<1>1. IInv /\ [Next]_vars => IInv'  BY StepsKeep
<1>2. QED  BY Initially, <1>1, PTL DEF Spec

-----------------------------------------------------------------------------
(* What the turn promises.                                                 *)

\* The state of a turn has its type.
THEOREM TypeCorrect == Spec => []TypeOK
<1>1. ASSUME IInv PROVE TypeOK
  <2>1. \A i \in DOMAIN channels : channels[i].hits \in Seq(Nat \ {0})
    <3>1. \A i \in DOMAIN channels : channels[i] \in Channel  BY <1>1 DEF IInv, ChannelInv
    <3>2. QED  BY <3>1 DEF Channel
  <2>2. evidence \in Seq([id : Stored, text : Stored])
    BY <1>1 DEF IInv, EvidenceInv, Grounds
  <2>3. /\ prepared.labels \in Seq(Stored) /\ prepared.context \in Seq([id : Int, text : Nat])
        /\ raw \in Replies \cup {NoReply} /\ result.citations \in Seq(Nat \ {0})
    BY <1>1 DEF IInv, PreparedInv
  <2>4. QED  BY <1>1, <2>1, <2>2, <2>3 DEF IInv, Flags, TypeOK
<1>2. QED  BY <1>1, Invariant, PTL

\* Only stored chunks with their contents become evidence, and what the model is shown is
\* what the policy of the context takes of the evidence, whatever searchers, reranker and
\* augmenter return.
THEOREM EvidenceGrounded == Spec => []EvidenceReachesContext
<1>1. ASSUME IInv PROVE EvidenceReachesContext
  <2>1. Grounds(evidence)  BY <1>1 DEF IInv, EvidenceInv
  <2>2. /\ IsInjective(IdsOf(evidence))
        /\ \A n \in DOMAIN evidence :
             evidence[n].id \in Stored /\ evidence[n].text = evidence[n].id
    <3>1. PICK T : T = [id : Stored, text : Stored]  OBVIOUS
    <3>2. evidence \in Seq(T)  BY <2>1, <3>1 DEF Grounds
    <3>3. \A n \in DOMAIN evidence : evidence[n] \in T  BY <3>2
    <3>4. \A n \in DOMAIN evidence : evidence[n].id \in Stored  BY <3>1, <3>3
    <3>5. QED  BY <2>1, <3>4 DEF Grounds
  <2>3. ASSUME turn = "running", todo[1].name = "context", ~config.augmented
        PROVE  /\ Len(evidence) <= EvidenceK
               /\ ToSet(IdsOf(evidence))
                    \subseteq ToSet(SubSeq(fused, 1, Min({EvidenceLimit, Len(fused)})))
    <3>1. Place(todo[1].name) = 6  BY <2>3, Places
    <3>2. Passed(3) /\ Passed(4)  BY <2>3, <3>1 DEF Passed, Live
    <3>3. QED  BY <1>1, <2>3, <3>2 DEF IInv, EvidenceInv
  <2>4. ASSUME shown # <<>> \/ (At("generation") \/ At("batch"))
        PROVE  \E at \in [DOMAIN shown -> DOMAIN evidence] : ShownFrom(at)
    <3>1. shown = Labelled(ApplyContextPolicy(evidence))
      <4>1. CASE shown # <<>>  BY <1>1, <4>1 DEF IInv, ShownInv
      <4>2. CASE At("generation") \/ At("batch")
        <5>1. turn = "running" /\ Place(todo[1].name) = 7  BY <4>2, Places DEF At
        <5>2. Passed(6)  BY <5>1 DEF Passed, Live
        <5>3. QED  BY <1>1, <5>2 DEF IInv, ShownInv
      <4>3. QED  BY <2>4, <4>1, <4>2
    <3>2. QED  BY <2>1, <3>1, ContextTaken
  <2>5. QED  BY <2>2, <2>3, <2>4, Zenon DEF EvidenceReachesContext
<1>2. QED  BY <1>1, Invariant, PTL

\* The service's own fusion has what the channels found, and agrees with them wherever they agree.
THEOREM FusionAgrees == Spec => []FusionRespectsChannels
<1>1. IInv => FusionRespectsChannels  BY DEF IInv
<1>2. QED  BY <1>1, Invariant, PTL

\* Citations are stored chunks of the context, as they were shown, whatever a batch
\* did to the context and the labels.
THEOREM AnswersGrounded == Spec => []CitationsGrounded
<1>1. IInv => CitationsGrounded  BY DEF IInv
<1>2. QED  BY <1>1, Invariant, PTL

\* What the observer is told is what happened.
THEOREM ObservationsTrue == Spec => []StagesAccounted
<1>1. ASSUME IInv PROVE StagesAccounted
  <2>1. \A i \in DOMAIN log :
          IF i % 2 = 1 THEN log[i].status = "started"
          ELSE /\ log[i].stage = log[i - 1].stage
               /\ log[i].status \in {"completed", "failed"}
               /\ log[i].status = "failed" =>
                    log[i].stage = "query-generation" \/ (i = Len(log) /\ turn = "failed")
    <3>1. Pairs(log, turn = "failed")  BY <1>1 DEF IInv, LogInv
    <3>2. QED  BY <3>1 DEF Pairs
  <2>2. /\ turn = "running" => (started <=> Len(log) % 2 = 1)
        /\ turn = "failed" /\ ~refused => todo[1].name # "query-generation"
        /\ degraded => \A i \in DOMAIN channels : channels[i].query = 0
    BY <1>1 DEF IInv, LogInv, QueryInv
  <2>3. ASSUME turn = "answered"
        PROVE  /\ ~refused /\ log # <<>>
               /\ log[Len(log)] = Observation("contract", "completed")
    BY <1>1, <2>3 DEF IInv, LogInv
  <2>4. ASSUME turn = "answered", config.strategy \in {"multi-query", "hyde"}
        PROVE  /\ {i \in DOMAIN channels : channels[i].query = 0} # {}
               /\ Len(channels) = IF config.strategy = "hyde" \/ degraded THEN 2
                                  ELSE 2 * (QueryVariants + 1)
    <3>1. Live /\ ~Generating /\ todo = <<>>
      BY <1>1, <2>4 DEF Live, Generating, IInv, PlanInv
    <3>2. Len(channels) = Searches  BY <1>1, <3>1 DEF IInv, PlanInv
    <3>3. Searches = IF config.strategy = "hyde" \/ degraded THEN 2 ELSE 2 * (QueryVariants + 1)
      BY <2>4 DEF Searches, Alone
    <3>4. Searches > 0  BY <3>3, LimitAssumption
    <3>5. channels \in Seq(Channel)  BY <1>1 DEF IInv, ChannelInv
    <3>6. channels # <<>> /\ 1 \in DOMAIN channels  BY <3>2, <3>3, <3>4, <3>5, LimitAssumption
    <3>7. channels[1].query = 0  BY <1>1, <3>1, <3>6 DEF IInv, QueryInv
    <3>8. QED  BY <3>2, <3>3, <3>6, <3>7
  <2>5. QED  BY <2>1, <2>2, <2>3, <2>4, Zenon DEF StagesAccounted
<1>2. QED  BY <1>1, Invariant, PTL

=============================================================================
