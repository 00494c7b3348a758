------------------------- MODULE ProviderCachesProofs -------------------------
(***************************************************************************)
(* Proofs about concurrent calls that buy provider work through a shared   *)
(* cache: for every number of calls, inputs, workers and batch size and    *)
(* whatever the provider answers.                                          *)
(***************************************************************************)
EXTENDS ProviderCaches, CollectionTheorems, SequenceTheorems

\* The states of an input, and those in which it is not at its end.
States == Ended \cup {"waiting", "missed", "working", "received"}
Open == {"waiting", "missed", "working", "received"}

\* Each variable of the calls has a value for each of them.
Domains ==
  /\ DOMAIN item = Calls /\ DOMAIN value = Calls /\ DOMAIN batches = Calls
  /\ DOMAIN dimensions = Calls /\ DOMAIN usage = Calls /\ DOMAIN notified = Calls
  /\ DOMAIN result = Calls /\ DOMAIN paid = Calls /\ DOMAIN known = Calls
  /\ DOMAIN last = {"embed", "generate"}

\* What the calls share has its type.
SharedType ==
  /\ DOMAIN cache \subseteq Kinds \X Inputs
  /\ \A key \in DOMAIN cache :
       cache[key] \in Dimensions \cup (IF key[1] \in Embeds THEN {} ELSE {None})
  /\ spent \in 0 .. Budget /\ retries \in 0 .. MaxRetries
  /\ request \in [Calls -> Requests \cup {NoRequest}]

\* The variables of a call have their types.
CallType(c) ==
  /\ item[c] \in [Range(request[c].inputs) -> States]
  /\ value[c] \in [Range(request[c].inputs) -> Dimensions \cup {None}]
  /\ Kind(c) \in Embeds =>
       \A i \in In(c, {"hit", "received", "stored"}) : value[c][i] # None
  /\ UNION batches[c] = In(c, {"working"})
  /\ \A S, T \in batches[c] : S = T \/ S \cap T = {}
  /\ dimensions[c] \in Dimensions \cup {0}
  /\ result[c].state \in {"none", "ok", "error"} /\ notified[c] \in {"no", "yes", "error"}
  /\ usage[c] \in Nat /\ paid[c] \in Nat /\ known[c] \subseteq Kinds \X Inputs

\* What is in the cache of a call's inputs, and what it costs.
CallInv(c) ==
  /\ {} \notin batches[c]
  /\ known[c] \subseteq DOMAIN cache
  /\ \A i \in In(c, {"hit", "stored"}) : Found(c, i)
  /\ \A i \in DOMAIN item[c] :
       Key(c, i) \in known[c] => item[c][i] \in {"waiting", "hit", "skipped"}
  /\ Kind(c) \in Embeds =>
       \A i \in In(c, {"received", "stored"}) : value[c][i] = dimensions[c]
  /\ In(c, {"skipped"}) # {} => In(c, Failed) # {}
  /\ usage[c] = paid[c]

\* A call that has returned is over, and its result is what it found then.
ResultInv(c) ==
  result[c] # NoResult =>
    /\ request[c] # NoRequest /\ Over(c)
    /\ result[c].state = "ok" =>
         /\ In(c, Failed) = {}
         /\ result[c].values = Values(c) /\ Aligned(c)
    /\ (Kind(c) = "corpus" \/ (Kind(c) \in Single /\ result[c].state = "error"))
         => result[c].usage = paid[c]

\* The calls of a kind that have returned: what was billed for them is in its report.
Returners(k) == {c \in Calls : result[c] # NoResult /\ Kind(c) = k}

\* A report.
Total == [usage : Nat, hits : Nat, misses : Nat, writes : Nat, workCalls : Nat,
          outcomes : Seq([call : Calls, state : States])]

\* While no Generate call is under way, LastOutcome is the last of the report.
LastInv ==
  (\A c \in Calls : Kind(c) = "generate" => result[c] # NoResult) =>
    LET outcomes == total["generate"].outcomes IN
    IF outcomes = <<>> THEN last["generate"].call = "none"
    ELSE last["generate"] = outcomes[Len(outcomes)]

\* A report's usage is the sum over the calls that have returned.
SumInv ==
  \A k \in Kinds \ {"corpus"} :
    IsFiniteSet(Returners(k)) /\ total[k].usage = SumOf(paid, Returners(k))

\* The inductive invariant.
IInv ==
  /\ Domains /\ SharedType
  /\ \A c \in Calls : CallType(c) /\ CallInv(c) /\ ResultInv(c)
  /\ total \in [Kinds \ {"corpus"} -> Total] /\ LastInv /\ SumInv

-----------------------------------------------------------------------------
(* A call that steps, and the others.                                      *)

\* Nothing of call d changes.
Same(d) ==
  /\ item'[d] = item[d] /\ value'[d] = value[d] /\ batches'[d] = batches[d]
  /\ dimensions'[d] = dimensions[d] /\ request'[d] = request[d] /\ usage'[d] = usage[d]
  /\ notified'[d] = notified[d] /\ result'[d] = result[d] /\ paid'[d] = paid[d]
  /\ known'[d] = known[d]

\* A call stands while others step, for nothing is taken out of the cache.
LEMMA OthersStand ==
  ASSUME NEW d \in Calls, CallType(d), CallInv(d), ResultInv(d), Same(d),
         DOMAIN cache \subseteq DOMAIN cache'
  PROVE  CallType(d)' /\ CallInv(d)' /\ ResultInv(d)'
<1>1. CallType(d)'  BY DEF CallType, Same, In, Kind
<1>2. CallInv(d)'  BY DEF CallInv, Same, In, Kind, Found, Key
<1>3. ResultInv(d)'
  <2>1. /\ Over(d)' <=> Over(d)  BY DEF Over, Same, In, Kind
  <2>2. Values(d)' = Values(d)  BY DEF Values, Same
  <2>3. Aligned(d)' <=> Aligned(d)  BY <2>2 DEF Aligned, Same, Kind
  <2>4. In(d, Failed)' = In(d, Failed)  BY DEF In, Same
  <2>5. QED  BY <2>1, <2>2, <2>3, <2>4 DEF ResultInv, Same, Kind
<1>4. QED  BY <1>1, <1>2, <1>3

\* A call with an input that is not at its end has not returned.
LEMMA NotReturned ==
  ASSUME NEW c \in Calls, ResultInv(c), NEW i \in DOMAIN item[c], item[c][i] \in Open
  PROVE  result[c] = NoResult
BY DEF ResultInv, Over, In, Open, Ended

\* Moving inputs to another state.
LEMMA MoveIs ==
  ASSUME Domains, NEW c \in Calls, NEW S, NEW state, Move(c, S, state)
  PROVE  /\ DOMAIN item' = Calls
         /\ item'[c] = [i \in DOMAIN item[c] |-> IF i \in S THEN state ELSE item[c][i]]
         /\ \A d \in Calls : d # c => item'[d] = item[d]
BY DEF Domains, Move

\* A step of a call that has not returned leaves the reports and the other calls alone.
LEMMA OneCallSteps ==
  ASSUME IInv, NEW c \in Calls, result[c] = NoResult, UNCHANGED <<result, total>>,
         Kind(c) = "generate" => Kind(c)' = "generate",
         last' = last \/ Kind(c) = "generate",
         DOMAIN cache \subseteq DOMAIN cache',
         \A d \in Calls : d # c => Same(d),
         Domains', SharedType', CallType(c)', CallInv(c)'
  PROVE  IInv'
<1>1. ASSUME NEW d \in Calls PROVE CallType(d)' /\ CallInv(d)' /\ ResultInv(d)'
  <2>1. CASE d = c  BY <2>1 DEF ResultInv
  <2>2. CASE d # c  BY <2>2, OthersStand DEF IInv
  <2>3. QED  BY <2>1, <2>2
<1>2. \A d \in Calls : d # c => Kind(d)' = Kind(d) /\ paid'[d] = paid[d]
  BY DEF Same, Kind
<1>3. LastInv'
  <2>1. CASE Kind(c)' = "generate"  BY <2>1 DEF LastInv
  <2>2. CASE Kind(c)' # "generate"
    <3>1. last' = last /\ Kind(c) # "generate"  BY <2>2
    <3>2. QED  BY <1>2, <2>2, <3>1 DEF LastInv, IInv
  <2>3. QED  BY <2>1, <2>2
<1>4. SumInv'
  <2> SUFFICES ASSUME NEW k \in Kinds \ {"corpus"}
               PROVE  /\ IsFiniteSet(Returners(k)')
                      /\ total'[k].usage = SumOf(paid', Returners(k)')
    BY DEF SumInv
  <2>1. Returners(k)' = Returners(k)  BY <1>2 DEF Returners
  <2>2. \A d \in Returners(k) : d \in Calls /\ d # c  BY DEF Returners
  <2>3. Maps(paid, Returners(k), Int)
    <3>1. \A d \in Calls : paid[d] \in Nat  BY DEF IInv, CallType
    <3>2. QED  BY <2>2, <3>1 DEF Maps
  <2>4. \A d \in Returners(k) : paid[d] = paid'[d]  BY <1>2, <2>2
  <2>5. IsFiniteSet(Returners(k)) /\ total[k].usage = SumOf(paid, Returners(k))
    BY DEF IInv, SumInv
  <2>6. SumOf(paid, Returners(k)) = SumOf(paid', Returners(k))
    BY <2>3, <2>4, <2>5, SumSame
  <2>7. QED  BY <2>1, <2>5, <2>6
<1>5. QED  BY <1>1, <1>3, <1>4 DEF IInv

-----------------------------------------------------------------------------
(* Each step of a call.                                                    *)

\* A call that was made asks for a kind of work, for a finite number of inputs.
LEMMA RequestIs ==
  ASSUME SharedType, NEW c \in Calls, request[c] # NoRequest
  PROVE  /\ request[c] \in Requests /\ Kind(c) \in Kinds
         /\ request[c].inputs \in Seq(Inputs) /\ request[c].inputs # <<>>
         /\ Kind(c) \in Single => Len(request[c].inputs) = 1
BY RequestAssumption DEF SharedType, Request, Kind

\* A sequence has a finite number of different members.
LEMMA RangeFinite ==
  ASSUME NEW T, NEW s \in Seq(T)
  PROVE  Range(s) \subseteq T /\ IsFiniteSet(Range(s))
<1>1. s \in Surjection(1 .. Len(s), Range(s))  BY DEF Surjection, Range
<1>2. IsFiniteSet(1 .. Len(s))  BY FS_Interval
<1>3. Range(s) \subseteq T  BY DEF Range
<1>4. QED  BY <1>1, <1>2, <1>3, FS_Surjection

\* The inputs in some states are inputs of the call, and finitely many.
LEMMA InIs ==
  ASSUME IInv, NEW c \in Calls, NEW states
  PROVE  In(c, states) \subseteq Inputs /\ IsFiniteSet(In(c, states))
<1>1. request[c].inputs \in Seq(Inputs)
  <2>1. request[c] \in Requests \cup {NoRequest}  BY DEF IInv, SharedType
  <2>2. CASE request[c] = NoRequest  BY <2>2 DEF NoRequest
  <2>3. CASE request[c] # NoRequest  BY <2>3, RequestIs DEF IInv
  <2>4. QED  BY <2>2, <2>3
<1>2. In(c, states) \subseteq Range(request[c].inputs)  BY DEF IInv, CallType, In
<1>3. QED  BY <1>1, <1>2, RangeFinite, FS_Subset

\* A new call finds nothing yet.
LEMMA CallKeeps ==
  ASSUME IInv, NEW c \in Calls, NEW r \in Requests, Call(c, r)
  PROVE  IInv'
<1>1. CallType(c) /\ CallInv(c) /\ ResultInv(c) /\ Domains /\ SharedType  BY DEF IInv
<1>2. result[c] = NoResult /\ Kind(c) = "none"
  BY <1>1 DEF ResultInv, Call, Kind, NoRequest
<1>3. request' = [request EXCEPT ![c] = r]  BY DEF Call
<1>4. request'[c] = r /\ \A d \in Calls : d # c => request'[d] = request[d]
  BY <1>1, <1>3 DEF SharedType
<1>5. item'[c] = [i \in Range(r.inputs) |-> "waiting"]
      /\ value'[c] = [i \in Range(r.inputs) |-> None]
      /\ known'[c] = DOMAIN cache
  BY <1>1 DEF Call, Domains
<1>6. \A d \in Calls : d # c => Same(d)
  BY <1>1, <1>4 DEF Call, Same, Domains, reports
<1>7. Domains' /\ SharedType'
  <2>1. Domains'  BY <1>1 DEF Call, Domains, reports
  <2>2. SharedType'  BY <1>1, <1>3 DEF Call, SharedType
  <2>3. QED  BY <2>1, <2>2
<1>8. UNCHANGED <<cache, batches, dimensions, usage, notified, result, paid>>
  BY DEF Call, reports
<1>9. \A states : "waiting" \notin states => In(c, states)' = {}  BY <1>5 DEF In
<1>10. batches[c] = {}
  <2>1. DOMAIN item[c] = {}
    BY <1>1 DEF Call, CallType, NoRequest, Range
  <2>2. UNION batches[c] = {}  BY <1>1, <2>1 DEF CallType, In
  <2>3. QED  BY <1>1, <2>2 DEF CallInv
<1>11. CallType(c)'
  <2>1. item'[c] \in [Range(r.inputs) -> States]
        /\ value'[c] \in [Range(r.inputs) -> Dimensions \cup {None}]
    BY <1>5 DEF States
  <2>2. In(c, {"hit", "received", "stored"})' = {} /\ In(c, {"working"})' = {}
    BY <1>9
  <2>3. UNION batches'[c] = {} /\ \A S, T \in batches'[c] : S = T \/ S \cap T = {}
    BY <1>8, <1>10
  <2>4. known'[c] \subseteq Kinds \X Inputs  BY <1>1, <1>5 DEF SharedType
  <2>5. QED  BY <1>1, <1>4, <1>8, <2>1, <2>2, <2>3, <2>4 DEF CallType
<1>12. CallInv(c)'
  <2>1. /\ In(c, {"hit", "stored"})' = {} /\ In(c, {"received", "stored"})' = {}
        /\ In(c, {"skipped"})' = {}
    BY <1>9
  <2>2. {} \notin batches'[c] /\ known'[c] \subseteq DOMAIN cache' /\ usage'[c] = paid'[c]
    BY <1>1, <1>5, <1>8 DEF CallInv
  <2>3. \A i \in DOMAIN item'[c] : item'[c][i] = "waiting"  BY <1>5
  <2>4. QED  BY <2>1, <2>2, <2>3 DEF CallInv
<1>13. UNCHANGED <<result, total, last>>  BY DEF Call, reports
<1>14. QED  BY <1>2, <1>6, <1>7, <1>8, <1>11, <1>12, <1>13, OneCallSteps

\* An input that is looked up is found with what is stored for it.
LEMMA LookupKeeps ==
  ASSUME IInv, NEW c \in Calls, NEW n \in DOMAIN request[c].inputs, Lookup(c, n)
  PROVE  IInv'
<1>1. CallType(c) /\ CallInv(c) /\ ResultInv(c) /\ Domains /\ SharedType  BY DEF IInv
<1>2. PICK i : i = request[c].inputs[n]  OBVIOUS
<1>3. /\ item[c][i] = "waiting"
      /\ IF Found(c, i)
         THEN Move(c, {i}, "hit") /\ value' = [value EXCEPT ![c][i] = cache[Key(c, i)]]
         ELSE Move(c, {i}, "missed") /\ UNCHANGED value
      /\ UNCHANGED <<cache, spent, retries, request, batches, dimensions, usage, notified,
                     result, total, last, paid, known>>
  BY <1>2 DEF Lookup, reports
<1>4. i \in DOMAIN item[c]  BY <1>1, <1>2 DEF CallType, Range
<1>5. result[c] = NoResult  BY <1>1, <1>3, <1>4, NotReturned DEF Open
<1>6. request[c] # NoRequest  BY DEF NoRequest
<1>7. Kind(c) \in Kinds  BY <1>1, <1>6, RequestIs
<1>8. PICK state : /\ state = IF Found(c, i) THEN "hit" ELSE "missed"
                   /\ Move(c, {i}, state)
  BY <1>3
<1>9. /\ item'[c] = [j \in DOMAIN item[c] |-> IF j \in {i} THEN state ELSE item[c][j]]
      /\ DOMAIN item' = Calls /\ \A d \in Calls : d # c => item'[d] = item[d]
  BY <1>1, <1>8, MoveIs
<1>10. /\ DOMAIN value' = Calls /\ \A d \in Calls : d # c => value'[d] = value[d]
       /\ DOMAIN value'[c] = DOMAIN value[c]
       /\ \A j \in DOMAIN value[c] :
            value'[c][j] = IF j = i /\ Found(c, i) THEN cache[Key(c, i)] ELSE value[c][j]
       /\ value'[c] = [j \in DOMAIN value[c] |-> value'[c][j]]
  <2>1. CASE Found(c, i)
    <3>1. value'[c] = [value[c] EXCEPT ![i] = cache[Key(c, i)]]
          /\ DOMAIN value' = Calls /\ \A d \in Calls : d # c => value'[d] = value[d]
      BY <1>1, <1>3, <2>1 DEF Domains
    <3>2. value[c] = [j \in DOMAIN value[c] |-> value[c][j]]  BY <1>1 DEF CallType
    <3>3. QED  BY <2>1, <3>1, <3>2
  <2>2. CASE ~Found(c, i)
    <3>1. value' = value  BY <1>3, <2>2
    <3>2. value[c] = [j \in DOMAIN value[c] |-> value[c][j]]  BY <1>1 DEF CallType
    <3>3. QED  BY <1>1, <2>2, <3>1, <3>2 DEF Domains
  <2>3. QED  BY <2>1, <2>2
<1>11. \A d \in Calls : d # c => Same(d)  BY <1>3, <1>9, <1>10 DEF Same
<1>12. Domains' /\ SharedType'
  <2>1. Domains'  BY <1>1, <1>3, <1>9, <1>10 DEF Domains
  <2>2. SharedType'  BY <1>1, <1>3 DEF SharedType
  <2>3. QED  BY <2>1, <2>2
<1>13. Found(c, i) => /\ cache[Key(c, i)] \in Dimensions \cup {None}
                      /\ Kind(c) \in Embeds => cache[Key(c, i)] # None
  <2>1. Key(c, i)[1] = Kind(c)  BY DEF Key
  <2>2. QED  BY <1>1, <2>1, DimensionsAssumption DEF SharedType, Found, None
<1>14. CallType(c)'
  <2>1. item'[c] \in [Range(request'[c].inputs) -> States]
    <3>1. state \in States  BY <1>8 DEF States, Ended
    <3>2. QED  BY <1>1, <1>3, <1>9, <3>1 DEF CallType
  <2>2. value'[c] \in [Range(request'[c].inputs) -> Dimensions \cup {None}]
    <3>1. value'[c] = [j \in Range(request[c].inputs) |-> value'[c][j]]
      BY <1>1, <1>10 DEF CallType
    <3>2. \A j \in Range(request[c].inputs) : value'[c][j] \in Dimensions \cup {None}
      BY <1>1, <1>10, <1>13 DEF CallType
    <3>3. QED  BY <1>3, <3>1, <3>2
  <2>3. ASSUME Kind(c) \in Embeds, NEW j \in In(c, {"hit", "received", "stored"})'
        PROVE  value'[c][j] # None
    <3>1. CASE j = i
      <4>1. Found(c, i)  BY <1>8, <1>9, <2>3, <3>1 DEF In
      <4>2. i \in DOMAIN value[c]  BY <1>1, <1>4 DEF CallType
      <4>3. QED  BY <1>10, <1>13, <2>3, <3>1, <4>1, <4>2
    <3>2. CASE j # i
      <4>1. j \in In(c, {"hit", "received", "stored"})  BY <1>9, <2>3, <3>2 DEF In
      <4>2. j \in DOMAIN value[c]  BY <1>1, <4>1 DEF CallType, In
      <4>3. QED  BY <1>1, <1>10, <2>3, <3>2, <4>1, <4>2 DEF CallType
    <3>3. QED  BY <3>1, <3>2
  <2>4. Kind(c)' = Kind(c)  BY <1>3 DEF Kind
  <2>5. In(c, {"working"})' = In(c, {"working"})  BY <1>3, <1>8, <1>9 DEF In
  <2>6. QED  BY <1>1, <1>3, <2>1, <2>2, <2>3, <2>4, <2>5 DEF CallType
<1>15. CallInv(c)'
  <2>1. \A j : Key(c, j)' = Key(c, j) /\ (Found(c, j)' <=> Found(c, j))
    BY <1>3 DEF Found, Key, Kind
  <2>2. \A j \in In(c, {"hit", "stored"})' : Found(c, j)
    BY <1>1, <1>8, <1>9 DEF CallInv, In
  <2>3. \A j \in DOMAIN item'[c] :
          Key(c, j) \in known[c] => item'[c][j] \in {"waiting", "hit", "skipped"}
    BY <1>1, <1>8, <1>9 DEF CallInv, Found
  <2>4. In(c, {"received", "stored"})' = In(c, {"received", "stored"})
        /\ In(c, {"skipped"})' = In(c, {"skipped"}) /\ In(c, Failed)' = In(c, Failed)
    BY <1>3, <1>8, <1>9 DEF In, Failed
  <2>5. i \notin In(c, {"received", "stored"})  BY <1>3 DEF In
  <2>6. \A j \in In(c, {"received", "stored"}) : value'[c][j] = value[c][j]
    <3>1. In(c, {"received", "stored"}) \subseteq DOMAIN value[c]  BY <1>1 DEF In, CallType
    <3>2. QED  BY <1>10, <2>5, <3>1
  <2>7. Kind(c)' = Kind(c)  BY <1>3 DEF Kind
  <2>8. QED  BY <1>1, <1>3, <2>1, <2>2, <2>3, <2>4, <2>6, <2>7 DEF CallInv
<1>16. Kind(c)' = Kind(c)  BY <1>3 DEF Kind
<1>17. QED  BY <1>3, <1>5, <1>11, <1>12, <1>14, <1>15, <1>16, OneCallSteps

\* Inputs that are admitted are with the provider together; if not, they have failed.
LEMMA AdmitKeeps ==
  ASSUME IInv, NEW c \in Calls, NEW S \in SUBSET In(c, {"missed"}), Admit(c, S)
  PROVE  IInv'
<1>1. CallType(c) /\ CallInv(c) /\ ResultInv(c) /\ Domains /\ SharedType  BY DEF IInv
<1>2. S # {} /\ \A i \in S : i \in DOMAIN item[c] /\ item[c][i] = "missed"
  BY DEF Admit, In
<1>3. UNCHANGED <<cache, retries, request, value, dimensions, usage, notified,
                  result, total, last, paid, known>>
  BY DEF Admit, reports
<1>4. result[c] = NoResult  BY <1>1, <1>2, NotReturned DEF Open
<1>5. Cardinality(S) \in Nat
  <2>1. IsFiniteSet(S)  BY InIs, FS_Subset
  <2>2. QED  BY <2>1, FS_CardinalityType
<1>6. PICK state : /\ state \in {"working", "refused"} /\ Move(c, S, state)
                   /\ state = "working" => /\ spent + Cardinality(S) <= Budget
                                           /\ spent' = spent + Cardinality(S)
                                           /\ batches' = [batches EXCEPT ![c] = @ \cup {S}]
                   /\ state = "refused" => UNCHANGED <<spent, batches>>
  BY DEF Admit
<1>7. /\ item'[c] = [j \in DOMAIN item[c] |-> IF j \in S THEN state ELSE item[c][j]]
      /\ DOMAIN item' = Calls /\ \A d \in Calls : d # c => item'[d] = item[d]
  BY <1>1, <1>6, MoveIs
<1>8. /\ DOMAIN batches' = Calls /\ \A d \in Calls : d # c => batches'[d] = batches[d]
      /\ batches'[c] = IF state = "working" THEN batches[c] \cup {S} ELSE batches[c]
  BY <1>1, <1>6 DEF Domains
<1>9. \A d \in Calls : d # c => Same(d)  BY <1>3, <1>7, <1>8 DEF Same
<1>10. Domains' /\ SharedType'
  <2>1. Domains'  BY <1>1, <1>3, <1>7, <1>8 DEF Domains
  <2>2. spent' \in 0 .. Budget
    BY <1>1, <1>5, <1>6, PoolAssumption DEF SharedType
  <2>3. SharedType'  BY <1>1, <1>3, <2>2 DEF SharedType
  <2>4. QED  BY <2>1, <2>3
<1>11. Kind(c)' = Kind(c)  BY <1>3 DEF Kind
<1>12. CallType(c)'
  <2>1. item'[c] \in [Range(request'[c].inputs) -> States]
    <3>1. state \in States  BY <1>6 DEF States, Ended
    <3>2. QED  BY <1>1, <1>3, <1>7, <3>1 DEF CallType
  <2>2. In(c, {"hit", "received", "stored"})' = In(c, {"hit", "received", "stored"})
    BY <1>2, <1>6, <1>7 DEF In
  <2>3. In(c, {"working"})' =
          IF state = "working" THEN In(c, {"working"}) \cup S ELSE In(c, {"working"})
    <3>1. CASE state = "working"  BY <1>2, <1>7, <3>1 DEF In
    <3>2. CASE state = "refused"  BY <1>2, <1>7, <3>2 DEF In
    <3>3. QED  BY <1>6, <3>1, <3>2
  <2>4. UNION batches'[c] = In(c, {"working"})'
    <3>1. UNION (batches[c] \cup {S}) = (UNION batches[c]) \cup S  OBVIOUS
    <3>2. UNION batches[c] = In(c, {"working"})  BY <1>1 DEF CallType
    <3>3. QED  BY <1>6, <1>8, <2>3, <3>1, <3>2
  <2>5. \A A \in batches[c] : A \cap S = {}  BY <1>1, <1>2 DEF CallType, In
  <2>6. \A A, B \in batches'[c] : A = B \/ A \cap B = {}
    BY <1>1, <1>8, <2>5 DEF CallType
  <2>7. QED  BY <1>1, <1>3, <1>11, <2>1, <2>2, <2>4, <2>6 DEF CallType
<1>13. CallInv(c)'
  <2>1. \A j : Key(c, j)' = Key(c, j) /\ (Found(c, j)' <=> Found(c, j))
    BY <1>3 DEF Found, Key, Kind
  <2>2. In(c, {"hit", "stored"})' = In(c, {"hit", "stored"})
        /\ In(c, {"received", "stored"})' = In(c, {"received", "stored"})
        /\ In(c, {"skipped"})' = In(c, {"skipped"}) /\ In(c, Failed) \subseteq In(c, Failed)'
    BY <1>2, <1>6, <1>7 DEF In, Failed
  <2>3. \A j \in DOMAIN item'[c] :
          Key(c, j) \in known[c] => item'[c][j] \in {"waiting", "hit", "skipped"}
    BY <1>1, <1>2, <1>7 DEF CallInv
  <2>4. {} \notin batches'[c]  BY <1>1, <1>2, <1>8 DEF CallInv
  <2>5. QED  BY <1>1, <1>3, <1>11, <2>1, <2>2, <2>3, <2>4 DEF CallInv
<1>14. QED  BY <1>3, <1>4, <1>9, <1>10, <1>11, <1>12, <1>13, OneCallSteps

\* What the provider billed is charged whatever it answered.
LEMMA BuyIs ==
  ASSUME IInv, NEW c \in Calls, NEW a \in Answers, Buy(c, a)
  PROVE  /\ DOMAIN paid' = Calls /\ DOMAIN usage' = Calls
         /\ \A d \in Calls : d # c => paid'[d] = paid[d] /\ usage'[d] = usage[d]
         /\ paid'[c] \in Nat /\ usage'[c] = paid'[c]
<1>1. a.billed \in Nat  BY DEF Answers
<1>2. paid[c] \in Nat /\ usage[c] = paid[c]  BY DEF IInv, CallType, CallInv
<1>3. DOMAIN paid = Calls /\ DOMAIN usage = Calls  BY DEF IInv, Domains
<1>4. paid'[c] = paid[c] + a.billed /\ usage'[c] = usage[c] + a.billed
  BY <1>3 DEF Buy, Charged
<1>5. QED  BY <1>1, <1>2, <1>3, <1>4 DEF Buy

\* The first vector a call receives fixes the dimensions of those it stores.
LEMMA WorkKeeps ==
  ASSUME IInv, NEW c \in Calls, NEW S \in batches[c], NEW a \in Answers, Work(c, S, a)
  PROVE  IInv'
<1>1. CallType(c) /\ CallInv(c) /\ ResultInv(c) /\ Domains /\ SharedType  BY DEF IInv
<1>2. S # {} /\ \A i \in S : i \in DOMAIN item[c] /\ item[c][i] = "working"
  <2>1. S # {}  BY <1>1 DEF CallInv
  <2>2. S \subseteq In(c, {"working"})  BY <1>1 DEF CallType
  <2>3. QED  BY <2>1, <2>2 DEF In
<1>3. UNCHANGED <<cache, spent, retries, request, notified, result, total, last, known>>
  BY DEF Work, reports
<1>4. result[c] = NoResult  BY <1>1, <1>2, NotReturned DEF Open
<1>5. PICK taken \in BOOLEAN : taken <=> Valid(c, a) /\ Agrees(c, a.value)  OBVIOUS
<1>6. PICK state : state = (IF taken THEN "received" ELSE "failed") /\ Move(c, S, state)
  BY <1>5 DEF Work
<1>7. /\ item'[c] = [j \in DOMAIN item[c] |-> IF j \in S THEN state ELSE item[c][j]]
      /\ DOMAIN item' = Calls /\ \A d \in Calls : d # c => item'[d] = item[d]
  BY <1>1, <1>6, MoveIs
<1>8. /\ DOMAIN batches' = Calls /\ \A d \in Calls : d # c => batches'[d] = batches[d]
      /\ batches'[c] = batches[c] \ {S}
  BY <1>1 DEF Work, Domains
<1>9. /\ DOMAIN value' = Calls /\ \A d \in Calls : d # c => value'[d] = value[d]
      /\ value'[c] = IF taken THEN [i \in DOMAIN item[c] |-> IF i \in S THEN a.value
                                                            ELSE value[c][i]]
                     ELSE value[c]
  BY <1>1, <1>5 DEF Work, Domains
<1>10. /\ DOMAIN dimensions' = Calls
       /\ \A d \in Calls : d # c => dimensions'[d] = dimensions[d]
       /\ dimensions'[c] = IF Kind(c) \in Embeds /\ Valid(c, a) /\ dimensions[c] = 0
                           THEN a.value ELSE dimensions[c]
  BY <1>1 DEF Work, Domains
<1>11. /\ DOMAIN paid' = Calls /\ DOMAIN usage' = Calls
       /\ \A d \in Calls : d # c => paid'[d] = paid[d] /\ usage'[d] = usage[d]
       /\ paid'[c] \in Nat /\ usage'[c] = paid'[c]
  BY BuyIs DEF Work
<1>12. \A d \in Calls : d # c => Same(d)
  BY <1>3, <1>7, <1>8, <1>9, <1>10, <1>11 DEF Same
<1>13. Domains' /\ SharedType'
  <2>1. Domains'  BY <1>1, <1>3, <1>7, <1>8, <1>9, <1>10, <1>11 DEF Domains
  <2>2. SharedType'  BY <1>1, <1>3 DEF SharedType
  <2>3. QED  BY <2>1, <2>2
<1>14. Kind(c)' = Kind(c)  BY <1>3 DEF Kind
<1>15. a.value \in Dimensions \cup {None}
       /\ (Kind(c) \in Embeds /\ Valid(c, a) => a.value # None)
  BY DEF Answers, Valid
<1>16. /\ DOMAIN value[c] = DOMAIN item[c]
       /\ \A j \in DOMAIN item[c] : value'[c][j] = IF taken /\ j \in S THEN a.value
                                                   ELSE value[c][j]
       /\ value'[c] = [j \in DOMAIN item[c] |-> value'[c][j]]
  <2>1. DOMAIN value[c] = DOMAIN item[c] /\ value[c] = [j \in DOMAIN item[c] |-> value[c][j]]
    BY <1>1 DEF CallType
  <2>2. CASE taken  BY <1>9, <2>1, <2>2
  <2>3. CASE ~taken  BY <1>9, <2>1, <2>3
  <2>4. QED  BY <2>2, <2>3
<1>17. CallType(c)'
  <2>1. item'[c] \in [Range(request'[c].inputs) -> States]
    <3>1. state \in States  BY <1>6 DEF States, Ended
    <3>2. QED  BY <1>1, <1>3, <1>7, <3>1 DEF CallType
  <2>2. value'[c] \in [Range(request'[c].inputs) -> Dimensions \cup {None}]
    <3>1. DOMAIN item[c] = Range(request[c].inputs)  BY <1>1 DEF CallType
    <3>2. \A j \in DOMAIN item[c] : value'[c][j] \in Dimensions \cup {None}
      BY <1>1, <1>15, <1>16 DEF CallType
    <3>3. QED  BY <1>3, <1>16, <3>1, <3>2
  <2>3. ASSUME Kind(c) \in Embeds, NEW j \in In(c, {"hit", "received", "stored"})'
        PROVE  value'[c][j] # None
    <3>1. j \in DOMAIN item[c]  BY <1>7, <2>3 DEF In
    <3>2. CASE j \in S
      <4>1. taken  BY <1>6, <1>7, <2>3, <3>1, <3>2 DEF In
      <4>2. QED  BY <1>5, <1>15, <1>16, <2>3, <3>1, <3>2, <4>1
    <3>3. CASE j \notin S
      <4>1. j \in In(c, {"hit", "received", "stored"})  BY <1>7, <2>3, <3>1, <3>3 DEF In
      <4>2. QED  BY <1>1, <1>16, <2>3, <3>1, <3>3, <4>1 DEF CallType
    <3>4. QED  BY <3>2, <3>3
  <2>4. UNION batches'[c] = In(c, {"working"})'
    <3>1. In(c, {"working"})' = In(c, {"working"}) \ S  BY <1>6, <1>7 DEF In
    <3>2. UNION (batches[c] \ {S}) = (UNION batches[c]) \ S  BY <1>1 DEF CallType
    <3>3. QED  BY <1>1, <1>8, <3>1, <3>2 DEF CallType
  <2>5. \A A, B \in batches'[c] : A = B \/ A \cap B = {}  BY <1>1, <1>8 DEF CallType
  <2>6. dimensions'[c] \in Dimensions \cup {0}  BY <1>1, <1>10, <1>15 DEF CallType, None
  <2>7. usage'[c] \in Nat /\ paid'[c] \in Nat  BY <1>11
  <2>8. QED  BY <1>1, <1>3, <1>14, <2>1, <2>2, <2>3, <2>4, <2>5, <2>6, <2>7 DEF CallType
<1>18. CallInv(c)'
  <2>1. \A j : Key(c, j)' = Key(c, j) /\ (Found(c, j)' <=> Found(c, j))
    BY <1>3 DEF Found, Key, Kind
  <2>2. In(c, {"hit", "stored"})' = In(c, {"hit", "stored"})
        /\ In(c, {"skipped"})' = In(c, {"skipped"}) /\ In(c, Failed) \subseteq In(c, Failed)'
    BY <1>2, <1>6, <1>7 DEF In, Failed
  <2>3. \A j \in DOMAIN item'[c] :
          Key(c, j) \in known[c] => item'[c][j] \in {"waiting", "hit", "skipped"}
    BY <1>1, <1>2, <1>7 DEF CallInv
  <2>4. {} \notin batches'[c]  BY <1>1, <1>8 DEF CallInv
  <2>5. ASSUME Kind(c) \in Embeds, NEW j \in In(c, {"received", "stored"})'
        PROVE  value'[c][j] = dimensions'[c]
    <3>1. j \in DOMAIN item[c]  BY <1>7, <2>5 DEF In
    <3>2. CASE j \in S
      <4>1. taken  BY <1>6, <1>7, <2>5, <3>1, <3>2 DEF In
      <4>2. value'[c][j] = a.value  BY <1>16, <3>1, <3>2, <4>1
      <4>3. Valid(c, a) /\ dimensions[c] \in {0, a.value}
        BY <1>5, <2>5, <4>1 DEF Agrees
      <4>4. QED  BY <1>10, <2>5, <4>2, <4>3
    <3>3. CASE j \notin S
      <4>1. j \in In(c, {"received", "stored"})  BY <1>7, <2>5, <3>1, <3>3 DEF In
      <4>2. j \in In(c, {"hit", "received", "stored"})  BY <4>1 DEF In
      <4>3. value'[c][j] = value[c][j] /\ value[c][j] = dimensions[c] /\ dimensions[c] # 0
        BY <1>1, <1>16, <2>5, <3>1, <3>3, <4>1, <4>2 DEF CallType, CallInv, None
      <4>4. QED  BY <1>10, <4>3
    <3>4. QED  BY <3>2, <3>3
  <2>6. QED  BY <1>1, <1>3, <1>11, <1>14, <2>1, <2>2, <2>3, <2>4, <2>5 DEF CallInv
<1>19. QED  BY <1>3, <1>4, <1>12, <1>13, <1>14, <1>17, <1>18, OneCallSteps

\* A batch that is tried again has been charged for.
LEMMA RetryKeeps ==
  ASSUME IInv, NEW c \in Calls, NEW S \in batches[c], NEW a \in Answers, Retry(c, a)
  PROVE  IInv'
<1>1. CallType(c) /\ CallInv(c) /\ ResultInv(c) /\ Domains /\ SharedType  BY DEF IInv
<1>2. UNCHANGED <<cache, spent, request, item, value, batches, dimensions, notified,
                  result, total, last, known>>
  BY DEF Retry, reports, work
<1>3. result[c] = NoResult
  <2>1. PICK i : i \in S  BY <1>1 DEF CallInv
  <2>2. i \in DOMAIN item[c] /\ item[c][i] = "working"  BY <1>1, <2>1 DEF CallType, In
  <2>3. QED  BY <1>1, <2>2, NotReturned DEF Open
<1>4. /\ DOMAIN paid' = Calls /\ DOMAIN usage' = Calls
      /\ \A d \in Calls : d # c => paid'[d] = paid[d] /\ usage'[d] = usage[d]
      /\ paid'[c] \in Nat /\ usage'[c] = paid'[c]
  BY BuyIs DEF Retry
<1>5. \A d \in Calls : d # c => Same(d)  BY <1>2, <1>4 DEF Same
<1>6. Domains' /\ SharedType'
  <2>1. Domains'  BY <1>1, <1>2, <1>4 DEF Domains
  <2>2. retries' \in 0 .. MaxRetries  BY <1>1, PoolAssumption DEF Retry, SharedType
  <2>3. SharedType'  BY <1>1, <1>2, <2>2 DEF SharedType
  <2>4. QED  BY <2>1, <2>3
<1>7. Kind(c)' = Kind(c) /\ \A states : In(c, states)' = In(c, states)
  BY <1>2 DEF Kind, In
<1>8. CallType(c)'  BY <1>1, <1>2, <1>4, <1>7 DEF CallType
<1>9. CallInv(c)'
  <2>1. \A j : Key(c, j)' = Key(c, j) /\ (Found(c, j)' <=> Found(c, j))
    BY <1>2 DEF Found, Key, Kind
  <2>2. QED  BY <1>1, <1>2, <1>4, <1>7, <2>1 DEF CallInv
<1>10. QED  BY <1>2, <1>3, <1>5, <1>6, <1>7, <1>8, <1>9, OneCallSteps

\* What is stored is added to the cache, and is a vector where one is asked for.
LEMMA StoreKeeps ==
  ASSUME IInv, NEW c \in Calls, NEW i \in In(c, {"received"}), Store(c, i)
  PROVE  IInv'
<1>1. CallType(c) /\ CallInv(c) /\ ResultInv(c) /\ Domains /\ SharedType  BY DEF IInv
<1>2. i \in DOMAIN item[c] /\ item[c][i] = "received"  BY DEF In
<1>3. UNCHANGED <<spent, retries, request, value, batches, dimensions, usage, notified,
                  result, total, last, paid, known>>
  BY DEF Store, reports
<1>4. result[c] = NoResult  BY <1>1, <1>2, NotReturned DEF Open
<1>5. PICK state : /\ state \in {"stored", "unstored"} /\ Move(c, {i}, state)
                   /\ state = "stored" =>
                        cache' = [key \in DOMAIN cache \cup {Key(c, i)} |->
                                    IF key = Key(c, i) THEN value[c][i] ELSE cache[key]]
                   /\ state = "unstored" => UNCHANGED cache
  BY DEF Store
<1>6. /\ item'[c] = [j \in DOMAIN item[c] |-> IF j \in {i} THEN state ELSE item[c][j]]
      /\ DOMAIN item' = Calls /\ \A d \in Calls : d # c => item'[d] = item[d]
  BY <1>1, <1>5, MoveIs
<1>7. \A d \in Calls : d # c => Same(d)  BY <1>3, <1>6 DEF Same
<1>8. Kind(c)' = Kind(c)  BY <1>3 DEF Kind
<1>9. DOMAIN cache \subseteq DOMAIN cache' /\ (state = "stored" => Key(c, i) \in DOMAIN cache')
  BY <1>5
<1>10. Kind(c) \in Kinds /\ i \in Inputs
  <2>1. request[c] # NoRequest  BY <1>1, <1>2 DEF CallType, NoRequest, Range
  <2>2. i \in Inputs  BY <1>2, InIs DEF In
  <2>3. QED  BY <1>1, <2>1, <2>2, RequestIs
<1>11. value[c][i] \in Dimensions \cup {None} /\ (Kind(c) \in Embeds => value[c][i] # None)
  BY <1>1, <1>2 DEF CallType, In
<1>12. Domains' /\ SharedType'
  <2>1. Domains'  BY <1>1, <1>3, <1>6 DEF Domains
  <2>2. /\ DOMAIN cache' \subseteq Kinds \X Inputs
        /\ \A key \in DOMAIN cache' :
             cache'[key] \in Dimensions \cup (IF key[1] \in Embeds THEN {} ELSE {None})
    <3>1. CASE state = "unstored"  BY <1>1, <1>5, <3>1 DEF SharedType
    <3>2. CASE state = "stored"
      <4>1. Key(c, i) \in Kinds \X Inputs /\ Key(c, i)[1] = Kind(c)  BY <1>10 DEF Key
      <4>2. value[c][i] \in Dimensions \cup (IF Key(c, i)[1] \in Embeds THEN {} ELSE {None})
        BY <1>11, <4>1
      <4>3. \A key \in DOMAIN cache' :
              cache'[key] = IF key = Key(c, i) THEN value[c][i] ELSE cache[key]
        BY <1>5, <3>2
      <4>4. DOMAIN cache' = DOMAIN cache \cup {Key(c, i)}  BY <1>5, <3>2
      <4>5. QED  BY <1>1, <4>1, <4>2, <4>3, <4>4 DEF SharedType
    <3>3. QED  BY <1>5, <3>1, <3>2
  <2>3. SharedType'  BY <1>1, <1>3, <2>2 DEF SharedType
  <2>4. QED  BY <2>1, <2>3
<1>13. CallType(c)'
  <2>1. item'[c] \in [Range(request'[c].inputs) -> States]
    <3>1. state \in States  BY <1>5 DEF States, Ended
    <3>2. QED  BY <1>1, <1>3, <1>6, <3>1 DEF CallType
  <2>2. In(c, {"hit", "received", "stored"})' \subseteq In(c, {"hit", "received", "stored"})
    BY <1>2, <1>5, <1>6 DEF In
  <2>3. In(c, {"working"})' = In(c, {"working"})  BY <1>2, <1>5, <1>6 DEF In
  <2>4. QED  BY <1>1, <1>3, <1>8, <2>1, <2>2, <2>3 DEF CallType
<1>14. CallInv(c)'
  <2>1. \A j : Key(c, j)' = Key(c, j)  BY <1>3 DEF Key, Kind
  <2>2. \A j \in In(c, {"hit", "stored"})' : Found(c, j)'
    <3> SUFFICES ASSUME NEW j \in In(c, {"hit", "stored"})' PROVE Found(c, j)'  OBVIOUS
    <3>1. CASE j = i  BY <1>2, <1>5, <1>6, <1>9, <2>1, <3>1 DEF Found, In
    <3>2. CASE j # i
      <4>1. j \in In(c, {"hit", "stored"})  BY <1>6, <3>2 DEF In
      <4>2. QED  BY <1>1, <1>9, <2>1, <4>1 DEF CallInv, Found
    <3>3. QED  BY <3>1, <3>2
  <2>3. In(c, {"received", "stored"})' \subseteq In(c, {"received", "stored"})
        /\ In(c, {"skipped"})' = In(c, {"skipped"}) /\ In(c, Failed) \subseteq In(c, Failed)'
    BY <1>2, <1>5, <1>6 DEF In, Failed
  <2>4. \A j \in DOMAIN item'[c] :
          Key(c, j) \in known[c] => item'[c][j] \in {"waiting", "hit", "skipped"}
    BY <1>1, <1>2, <1>6 DEF CallInv
  <2>5. known'[c] \subseteq DOMAIN cache'  BY <1>1, <1>3, <1>9 DEF CallInv
  <2>6. QED  BY <1>1, <1>3, <1>8, <2>1, <2>2, <2>3, <2>4, <2>5 DEF CallInv
<1>15. QED  BY <1>3, <1>4, <1>7, <1>8, <1>9, <1>12, <1>13, <1>14, OneCallSteps

\* Inputs are left out only after another has failed.
LEMMA SkipKeeps ==
  ASSUME IInv, NEW c \in Calls, Skip(c)
  PROVE  IInv'
<1>1. CallType(c) /\ CallInv(c) /\ ResultInv(c) /\ Domains /\ SharedType  BY DEF IInv
<1>2. PICK S : S = In(c, {"waiting", "missed"})  OBVIOUS
<1>3. S # {} /\ \A i \in S : i \in DOMAIN item[c] /\ item[c][i] \in {"waiting", "missed"}
  BY <1>2 DEF Skip, In
<1>4. UNCHANGED <<cache, spent, retries, request, value, batches, dimensions, usage, notified,
                  result, total, last, paid, known>>
  BY DEF Skip, reports
<1>5. result[c] = NoResult  BY <1>1, <1>3, NotReturned DEF Open
<1>6. /\ item'[c] = [j \in DOMAIN item[c] |-> IF j \in S THEN "skipped" ELSE item[c][j]]
      /\ DOMAIN item' = Calls /\ \A d \in Calls : d # c => item'[d] = item[d]
  BY <1>1, <1>2, MoveIs DEF Skip
<1>7. \A d \in Calls : d # c => Same(d)  BY <1>4, <1>6 DEF Same
<1>8. Kind(c)' = Kind(c)  BY <1>4 DEF Kind
<1>9. Domains' /\ SharedType'
  <2>1. Domains'  BY <1>1, <1>4, <1>6 DEF Domains
  <2>2. SharedType'  BY <1>1, <1>4 DEF SharedType
  <2>3. QED  BY <2>1, <2>2
<1>10. /\ In(c, {"hit", "received", "stored"})' = In(c, {"hit", "received", "stored"})
       /\ In(c, {"hit", "stored"})' = In(c, {"hit", "stored"})
       /\ In(c, {"received", "stored"})' = In(c, {"received", "stored"})
       /\ In(c, {"working"})' = In(c, {"working"}) /\ In(c, Failed)' = In(c, Failed)
  BY <1>3, <1>6 DEF In, Failed
<1>11. CallType(c)'
  <2>1. item'[c] \in [Range(request'[c].inputs) -> States]
    BY <1>1, <1>4, <1>6 DEF CallType, States, Ended
  <2>2. QED  BY <1>1, <1>4, <1>8, <1>10, <2>1 DEF CallType
<1>12. CallInv(c)'
  <2>1. \A j : Key(c, j)' = Key(c, j) /\ (Found(c, j)' <=> Found(c, j))
    BY <1>4 DEF Found, Key, Kind
  <2>2. \A j \in DOMAIN item'[c] :
          Key(c, j) \in known[c] => item'[c][j] \in {"waiting", "hit", "skipped"}
    BY <1>1, <1>6 DEF CallInv
  <2>3. In(c, Failed) # {}  BY DEF Skip
  <2>4. QED  BY <1>1, <1>4, <1>8, <1>10, <2>1, <2>2, <2>3 DEF CallInv
<1>13. QED  BY <1>4, <1>5, <1>7, <1>8, <1>9, <1>11, <1>12, OneCallSteps

\* The outcome is handed to the callback before the call returns.
LEMMA NotifyKeeps ==
  ASSUME IInv, NEW c \in Calls, Notify(c)
  PROVE  IInv'
<1>1. CallType(c) /\ CallInv(c) /\ ResultInv(c) /\ Domains /\ SharedType  BY DEF IInv
<1>2. UNCHANGED <<cache, spent, retries, request, item, value, batches, dimensions, usage,
                  result, total, paid, known>>
  BY DEF Notify, reports, work
<1>3. result[c] = NoResult  BY <1>1 DEF Notify, ResultInv, Over
<1>4. /\ DOMAIN notified' = Calls /\ notified'[c] \in {"yes", "error"}
      /\ \A d \in Calls : d # c => notified'[d] = notified[d]
  BY <1>1 DEF Notify, Domains
<1>5. \A d \in Calls : d # c => Same(d)  BY <1>2, <1>4 DEF Same
<1>6. Kind(c)' = Kind(c) /\ \A states : In(c, states)' = In(c, states)
  BY <1>2 DEF Kind, In
<1>7. Domains' /\ SharedType'
  <2>1. DOMAIN last' = DOMAIN last  BY DEF Notify
  <2>2. Domains'  BY <1>1, <1>2, <1>4, <2>1 DEF Domains
  <2>3. SharedType'  BY <1>1, <1>2 DEF SharedType
  <2>4. QED  BY <2>2, <2>3
<1>8. CallType(c)'  BY <1>1, <1>2, <1>4, <1>6 DEF CallType
<1>9. CallInv(c)'
  <2>1. \A j : Key(c, j)' = Key(c, j) /\ (Found(c, j)' <=> Found(c, j))
    BY <1>2 DEF Found, Key, Kind
  <2>2. QED  BY <1>1, <1>2, <1>6, <2>1 DEF CallInv
<1>10. Kind(c) = "generate"  BY DEF Notify
<1>11. QED  BY <1>2, <1>3, <1>5, <1>6, <1>7, <1>8, <1>9, <1>10, OneCallSteps

-----------------------------------------------------------------------------
(* A call returns.                                                         *)

\* The outcome of a call is that of an input it asked for.
LEMMA OutcomeIs ==
  ASSUME IInv, NEW c \in Calls, request[c] # NoRequest
  PROVE  Outcome(c) \in [call : Calls, state : States]
<1>1. request[c].inputs \in Seq(Inputs) /\ request[c].inputs # <<>>
  BY RequestIs DEF IInv
<1>2. PICK i : i = request[c].inputs[Len(request[c].inputs)]  OBVIOUS
<1>3. i \in Range(request[c].inputs)  BY <1>1, <1>2 DEF Range
<1>4. item[c][i] \in States  BY <1>3 DEF IInv, CallType
<1>5. QED  BY <1>2, <1>4 DEF Outcome

\* The report of a call counts its finitely many inputs.
LEMMA AddedIs ==
  ASSUME IInv, NEW c \in Calls, request[c] # NoRequest, NEW t \in Total
  PROVE  Added(c, t) \in Total
<1>1. \A states : Cardinality(In(c, states)) \in Nat  BY InIs, FS_CardinalityType
<1>2. \A states : Cardinality(At(c, states)) \in Nat
  <2> SUFFICES ASSUME NEW states PROVE Cardinality(At(c, states)) \in Nat  OBVIOUS
  <2>1. request[c].inputs \in Seq(Inputs)  BY RequestIs DEF IInv
  <2>2. IsFiniteSet(1 .. Len(request[c].inputs))  BY <2>1, FS_Interval
  <2>3. At(c, states) \subseteq 1 .. Len(request[c].inputs)  BY <2>1 DEF At
  <2>4. QED  BY <2>2, <2>3, FS_Subset, FS_CardinalityType
<1>3. PICK hits, misses, writes, works \in Nat :
        /\ hits = Cardinality(At(c, {"hit"}))
        /\ misses = Cardinality(At(c, Ended \ {"hit", "skipped"}))
        /\ writes = Cardinality(In(c, {"stored"}))
        /\ works = Cardinality(In(c, {"stored", "failed", "unstored"}))
  BY <1>1, <1>2
<1>4. /\ t.usage \in Nat /\ t.hits \in Nat /\ t.misses \in Nat /\ t.writes \in Nat
      /\ t.workCalls \in Nat /\ t.outcomes \in Seq([call : Calls, state : States])
  BY DEF Total
<1>5. usage[c] \in Nat  BY DEF IInv, CallType
<1>6. PICK outcomes : outcomes = IF Kind(c) = "embed" THEN <<>>
                                 ELSE Append(t.outcomes, Outcome(c))
  OBVIOUS
<1>7. outcomes \in Seq([call : Calls, state : States])
  BY <1>4, <1>6, OutcomeIs, EmptySeq, AppendProperties
<1>8. Added(c, t) = [usage |-> t.usage + usage[c], hits |-> t.hits + hits,
                     misses |-> t.misses + misses, writes |-> t.writes + writes,
                     workCalls |-> t.workCalls + works, outcomes |-> outcomes]
  BY <1>3, <1>6 DEF Added
<1>9. QED
  <2>1. /\ t.usage + usage[c] \in Nat /\ t.hits + hits \in Nat /\ t.misses + misses \in Nat
        /\ t.writes + writes \in Nat /\ t.workCalls + works \in Nat
    <3>1. \A x, y \in Nat : x + y \in Nat  OBVIOUS
    <3>2. QED  BY <1>3, <1>4, <1>5, <3>1
  <2>2. PICK all : all = Seq([call : Calls, state : States])  OBVIOUS
  <2>3. Total = [usage : Nat, hits : Nat, misses : Nat, writes : Nat, workCalls : Nat,
                 outcomes : all]
    BY <2>2 DEF Total
  <2>4. outcomes \in all  BY <1>7, <2>2
  <2>5. QED  BY <1>8, <2>1, <2>3, <2>4

\* A call that returns adds what was billed for it to the report of its kind.
LEMMA ReturnKeeps ==
  ASSUME IInv, NEW c \in Calls, Return(c)
  PROVE  IInv'
<1>1. CallType(c) /\ CallInv(c) /\ ResultInv(c) /\ Domains /\ SharedType  BY DEF IInv
<1>2. UNCHANGED <<cache, spent, retries, request, item, value, batches, dimensions, usage,
                  notified, paid, known>>
  BY DEF Return, work
<1>3. request[c] # NoRequest /\ result[c] = NoResult /\ Over(c)  BY DEF Return
<1>4. Kind(c) \in Kinds  BY <1>1, <1>3, RequestIs
<1>5. /\ DOMAIN result' = Calls /\ result'[c] = Returned(c)
      /\ \A d \in Calls : d # c => result'[d] = result[d]
  BY <1>1 DEF Return, Domains
<1>6. /\ Returned(c).state \in {"ok", "error"} /\ Returned(c) # NoResult
      /\ Returned(c).state = "ok" => /\ ~Refused(c) /\ Aligned(c)
                                     /\ Returned(c).values = Values(c)
      /\ (Kind(c) = "corpus" \/ (Kind(c) \in Single /\ Returned(c).state = "error"))
           => Returned(c).usage = usage[c]
  BY DEF Returned, NoResult, Single
<1>7. \A d \in Calls : d # c => Same(d)  BY <1>2, <1>5 DEF Same
<1>8. Domains' /\ SharedType'
  <2>1. DOMAIN last' = DOMAIN last  BY DEF Return, LastMerged
  <2>2. Domains'  BY <1>1, <1>2, <1>5, <2>1 DEF Domains
  <2>3. SharedType'  BY <1>1, <1>2 DEF SharedType
  <2>4. QED  BY <2>2, <2>3
<1>9. \A d \in Calls : Kind(d)' = Kind(d) /\ \A states : In(d, states)' = In(d, states)
  BY <1>2 DEF Kind, In
<1>10. CallType(c)'  BY <1>1, <1>2, <1>5, <1>6, <1>9 DEF CallType
<1>11. CallInv(c)'
  <2>1. \A j : Key(c, j)' = Key(c, j) /\ (Found(c, j)' <=> Found(c, j))
    BY <1>2 DEF Found, Key, Kind
  <2>2. QED  BY <1>1, <1>2, <1>9, <2>1 DEF CallInv
<1>12. ResultInv(c)'
  <2>1. Over(c)' /\ Values(c)' = Values(c) /\ (Aligned(c) => Aligned(c)')
    <3>1. Over(c)'  BY <1>2, <1>3, <1>9 DEF Over
    <3>2. Values(c)' = Values(c)  BY <1>2 DEF Values
    <3>3. Aligned(c) => Aligned(c)'  BY <1>9, <3>2 DEF Aligned
    <3>4. QED  BY <3>1, <3>2, <3>3
  <2>2. ~Refused(c) => In(c, Failed) = {}  BY DEF Refused
  <2>3. usage[c] = paid[c]  BY <1>1 DEF CallInv
  <2>4. QED  BY <1>2, <1>3, <1>5, <1>6, <1>9, <2>1, <2>2, <2>3 DEF ResultInv
<1>13. ASSUME NEW d \in Calls PROVE CallType(d)' /\ CallInv(d)' /\ ResultInv(d)'
  <2>1. CASE d = c  BY <1>10, <1>11, <1>12, <2>1
  <2>2. CASE d # c  BY <1>2, <1>7, <2>2, OthersStand DEF IInv
  <2>3. QED  BY <2>1, <2>2
<1>14. \A k \in Kinds \ {"corpus"} : /\ k # Kind(c) => total'[k] = total[k]
                                     /\ k = Kind(c) => total'[k] = Added(c, total[k])
  BY DEF Return, IInv
<1>15. total' \in [Kinds \ {"corpus"} -> Total]
  <2>1. DOMAIN total' = Kinds \ {"corpus"}
        /\ total' = [k \in DOMAIN total' |-> total'[k]]
    BY DEF Return, IInv
  <2>2. \A k \in Kinds \ {"corpus"} : total[k] \in Total  BY DEF IInv
  <2>3. \A t \in Total : Added(c, t) \in Total  BY <1>3, AddedIs
  <2>4. \A k \in Kinds \ {"corpus"} : total'[k] \in Total  BY <1>14, <2>2, <2>3
  <2>5. QED  BY <2>1, <2>4
<1>16. LastInv'
  <2>1. CASE Kind(c) = "generate"
    <3>1. PICK before : before = total["generate"].outcomes  OBVIOUS
    <3>2. before \in Seq([call : Calls, state : States])
      BY <3>1 DEF IInv, Total, Kinds
    <3>3. total'["generate"].outcomes = Append(before, Outcome(c))
      <4>1. total'["generate"] = Added(c, total["generate"])  BY <1>14, <2>1 DEF Kinds
      <4>2. Added(c, total["generate"]).outcomes = Append(total["generate"].outcomes, Outcome(c))
        BY <2>1 DEF Added
      <4>3. QED  BY <3>1, <4>1, <4>2
    <3>4. last'["generate"] = Outcome(c)  BY <1>1, <2>1 DEF Return, LastMerged, Domains
    <3>5. PICK o : o = Outcome(c)  OBVIOUS
    <3>6. o \in [call : Calls, state : States]  BY <1>3, <3>5, OutcomeIs
    <3>7. PICK after : after = Append(before, o)  OBVIOUS
    <3>8. after # <<>> /\ after[Len(after)] = o  BY <3>2, <3>6, <3>7
    <3>9. QED  BY <3>3, <3>4, <3>5, <3>7, <3>8 DEF LastInv
  <2>2. CASE Kind(c) # "generate"
    <3>1. last'["generate"] = last["generate"]
      BY <1>1, <2>2 DEF Return, LastMerged, Domains
    <3>2. total'["generate"] = total["generate"]  BY <1>14, <2>2 DEF Kinds
    <3>3. QED  BY <1>5, <1>9, <2>2, <3>1, <3>2 DEF LastInv, IInv
  <2>3. QED  BY <2>1, <2>2
<1>17. SumInv'
  <2> SUFFICES ASSUME NEW k \in Kinds \ {"corpus"}
               PROVE  /\ IsFiniteSet(Returners(k)')
                      /\ total'[k].usage = SumOf(paid', Returners(k)')
    BY DEF SumInv
  <2>1. paid' = paid  BY <1>2
  <2>2. IsFiniteSet(Returners(k)) /\ total[k].usage = SumOf(paid, Returners(k))
    BY DEF IInv, SumInv
  <2>3. CASE k # Kind(c)
    <3>1. Returners(k)' = Returners(k)  BY <1>5, <1>9, <2>3 DEF Returners
    <3>2. total'[k] = total[k]  BY <1>14, <2>3
    <3>3. QED  BY <2>1, <2>2, <3>1, <3>2
  <2>4. CASE k = Kind(c)
    <3>1. Returners(k)' = Returners(k) \cup {c} /\ c \notin Returners(k)
      BY <1>3, <1>5, <1>6, <1>9, <2>4 DEF Returners
    <3>2. Maps(paid, Returners(k) \cup {c}, Int)
      <4>1. \A d \in Calls : paid[d] \in Nat  BY DEF IInv, CallType
      <4>2. QED  BY <4>1 DEF Maps, Returners
    <3>3. SumOf(paid, Returners(k) \cup {c}) = SumOf(paid, Returners(k)) + paid[c]
      <4>1. IsFiniteSet(Returners(k)) /\ c \notin Returners(k)  BY <2>2, <3>1
      <4>2. QED  BY <3>2, <4>1, SumAdds
    <3>4. total'[k].usage = total[k].usage + usage[c]
      <4>1. total'[k] = Added(c, total[k])  BY <1>14, <2>4
      <4>2. Added(c, total[k]).usage = total[k].usage + usage[c]  BY DEF Added
      <4>3. QED  BY <4>1, <4>2
    <3>5. usage[c] = paid[c]  BY <1>1 DEF CallInv
    <3>6. IsFiniteSet(Returners(k) \cup {c})  BY <2>2, FS_AddElement
    <3>7. QED  BY <2>1, <2>2, <3>1, <3>3, <3>4, <3>5, <3>6
  <2>5. QED  BY <2>3, <2>4
<1>18. QED  BY <1>8, <1>13, <1>15, <1>16, <1>17 DEF IInv

-----------------------------------------------------------------------------
(* The invariant and what it means.                                        *)

\* Before any call is made nothing has been bought and nothing is reported.
LEMMA InvInit == Init => IInv
<1> SUFFICES ASSUME Init PROVE IInv  OBVIOUS
<1>1. Domains /\ SharedType
  BY PoolAssumption DEF Init, Domains, SharedType
<1>2. ASSUME NEW c \in Calls PROVE CallType(c) /\ CallInv(c) /\ ResultInv(c)
  <2>1. DOMAIN item[c] = {} /\ Range(request[c].inputs) = {}
    BY DEF Init, NoRequest, Range
  <2>2. \A states : In(c, states) = {}  BY <2>1 DEF In
  <2>3. CallType(c)
    <3>1. item[c] \in [Range(request[c].inputs) -> States]
          /\ value[c] \in [Range(request[c].inputs) -> Dimensions \cup {None}]
      BY <2>1 DEF Init
    <3>2. QED  BY <2>2, <3>1 DEF CallType, Init, NoResult
  <2>4. CallInv(c)  BY <2>1, <2>2 DEF CallInv, Init
  <2>5. ResultInv(c)  BY DEF ResultInv, Init
  <2>6. QED  BY <2>3, <2>4, <2>5
<1>3. total \in [Kinds \ {"corpus"} -> Total]
  <2>1. Zero \in Total  BY EmptySeq DEF Zero, Total
  <2>2. QED  BY <2>1 DEF Init
<1>4. LastInv  BY DEF Init, LastInv, Zero, Kinds
<1>5. SumInv
  <2>1. \A k : Returners(k) = {}  BY DEF Init, Returners
  <2>2. IsFiniteSet({})  BY FS_EmptySet
  <2>3. \A k \in Kinds \ {"corpus"} : total[k].usage = 0  BY DEF Init, Zero
  <2>4. QED  BY <2>1, <2>2, <2>3, SumOfNone DEF SumInv
<1>6. QED  BY <1>1, <1>2, <1>3, <1>4, <1>5 DEF IInv

\* The invariant reads the variables only.
LEMMA InvStands ==
  ASSUME IInv, UNCHANGED vars
  PROVE  IInv'
<1>1. UNCHANGED <<cache, spent, retries, request, item, value, batches, dimensions, usage,
                  notified, result, total, last, paid, known>>
  BY DEF vars, work, reports
<1>2. \A d \in Calls : Same(d)  BY <1>1 DEF Same
<1>3. \A d \in Calls : CallType(d)' /\ CallInv(d)' /\ ResultInv(d)'
  BY <1>1, <1>2, OthersStand DEF IInv
<1>4. Domains' /\ SharedType' /\ LastInv'
  BY <1>1 DEF IInv, Domains, SharedType, LastInv, Kind
<1>5. SumInv'
  <2>1. \A k : Returners(k)' = Returners(k)  BY <1>1 DEF Returners, Kind
  <2>2. QED  BY <1>1, <2>1 DEF IInv, SumInv
<1>6. QED  BY <1>1, <1>3, <1>4, <1>5 DEF IInv

\* Every step keeps the invariant.
LEMMA Invariant == Spec => []IInv
<1>1. ASSUME IInv, [Next]_vars PROVE IInv'
  <2>1. CASE UNCHANGED vars  BY <1>1, <2>1, InvStands
  <2>2. ASSUME NEW c \in Calls, NEW r \in Requests, Call(c, r) PROVE IInv'
    BY <1>1, <2>2, CallKeeps
  <2>3. ASSUME NEW c \in Calls, NEW n \in DOMAIN request[c].inputs, Lookup(c, n) PROVE IInv'
    BY <1>1, <2>3, LookupKeeps
  <2>4. ASSUME NEW c \in Calls, NEW S \in SUBSET In(c, {"missed"}), Admit(c, S) PROVE IInv'
    BY <1>1, <2>4, AdmitKeeps
  <2>5. ASSUME NEW c \in Calls, NEW S \in batches[c], NEW a \in Answers, Work(c, S, a)
        PROVE  IInv'
    BY <1>1, <2>5, WorkKeeps
  <2>6. ASSUME NEW c \in Calls, NEW S \in batches[c], NEW a \in Answers, Retry(c, a)
        PROVE  IInv'
    BY <1>1, <2>6, RetryKeeps
  <2>7. ASSUME NEW c \in Calls, NEW i \in In(c, {"received"}), Store(c, i) PROVE IInv'
    BY <1>1, <2>7, StoreKeeps
  <2>8. ASSUME NEW c \in Calls, Skip(c) PROVE IInv'  BY <1>1, <2>8, SkipKeeps
  <2>9. ASSUME NEW c \in Calls, Notify(c) PROVE IInv'  BY <1>1, <2>9, NotifyKeeps
  <2>10. ASSUME NEW c \in Calls, Return(c) PROVE IInv'  BY <1>1, <2>10, ReturnKeeps
  <2>11. QED
    BY <1>1, <2>1, <2>2, <2>3, <2>4, <2>5, <2>6, <2>7, <2>8, <2>9, <2>10 DEF Next
<1>2. QED  BY <1>1, InvInit, PTL DEF Spec

\* The variables have their types, in any number of calls: no malformed answer reaches
\* the cache as a vector, and the inputs of a call are in one batch at most.
THEOREM CachesTypeOK == Spec => []TypeOK
<1>1. IInv => TypeOK
  <2> SUFFICES ASSUME IInv PROVE TypeOK  OBVIOUS
  <2>1. \A c \in Calls : {usage[c], paid[c]} \subseteq Nat  BY DEF IInv, CallType
  <2>2. \A k \in DOMAIN total : {total[k][f] : f \in DOMAIN Zero \ {"outcomes"}} \subseteq Nat
    <3> SUFFICES ASSUME NEW k \in DOMAIN total, NEW f \in DOMAIN Zero \ {"outcomes"}
                 PROVE  total[k][f] \in Nat
      OBVIOUS
    <3>1. total[k] \in Total  BY DEF IInv
    <3>2. f \in {"usage", "hits", "misses", "writes", "workCalls"}  BY DEF Zero
    <3>3. QED  BY <3>1, <3>2 DEF Total
  <2>3. \A c \in Calls :
          item[c] \in [Range(request[c].inputs) ->
                         Ended \cup {"waiting", "missed", "working", "received"}]
    BY DEF IInv, CallType, States
  <2>4. QED  BY <2>1, <2>2, <2>3 DEF IInv, SharedType, CallType, TypeOK
<1>2. QED  BY <1>1, Invariant, PTL

\* A call that succeeds has a stored answer for each of its inputs, in vectors of the
\* same dimensions, whatever other calls stored meanwhile.
THEOREM SuccessesAligned == Spec => []SuccessAligned
<1>1. IInv => SuccessAligned
  <2> SUFFICES ASSUME IInv, NEW c \in Calls
               PROVE  /\ Kind(c) \in Embeds =>
                           \A i, j \in In(c, {"received", "stored"}) : value[c][i] = value[c][j]
                      /\ result[c].state = "ok" =>
                           /\ Len(result[c].values) = Len(request[c].inputs)
                           /\ \A n \in DOMAIN result[c].values : Found(c, request[c].inputs[n])
                           /\ Kind(c) \in Embeds =>
                                \E d \in Dimensions : Range(result[c].values) = {d}
    BY DEF SuccessAligned
  <2>1. CallType(c) /\ CallInv(c) /\ ResultInv(c) /\ SharedType  BY DEF IInv
  <2>2. Kind(c) \in Embeds =>
          \A i, j \in In(c, {"received", "stored"}) : value[c][i] = value[c][j]
    BY <2>1 DEF CallInv
  <2>3. ASSUME result[c].state = "ok"
        PROVE  /\ Len(result[c].values) = Len(request[c].inputs)
               /\ \A n \in DOMAIN result[c].values : Found(c, request[c].inputs[n])
               /\ Kind(c) \in Embeds => \E d \in Dimensions : Range(result[c].values) = {d}
    <3>1. result[c] # NoResult  BY <2>3 DEF NoResult
    <3>2. /\ request[c] # NoRequest /\ Over(c) /\ In(c, Failed) = {} /\ Aligned(c)
          /\ result[c].values = Values(c)
      BY <2>1, <2>3, <3>1 DEF ResultInv
    <3>3. PICK inputs : inputs = request[c].inputs  OBVIOUS
    <3>4. inputs \in Seq(Inputs) /\ inputs # <<>>  BY <2>1, <3>2, <3>3, RequestIs
    <3>5. DOMAIN inputs = 1 .. Len(inputs) /\ 1 \in DOMAIN inputs  BY <3>4
    <3>6. PICK values : values = Values(c)  OBVIOUS
    <3>7. values = [n \in 1 .. Len(inputs) |-> value[c][inputs[n]]]
      BY <3>3, <3>5, <3>6 DEF Values
    <3>8. Len(values) = Len(inputs) /\ DOMAIN values = DOMAIN inputs
      <4>1. Len(inputs) \in Nat  BY <3>4
      <4>2. QED  BY <3>5, <3>7, <4>1
    <3>9. \A n \in DOMAIN inputs : inputs[n] \in In(c, {"hit", "stored"})
      <4>1. \A n \in DOMAIN inputs : inputs[n] \in DOMAIN item[c]
        BY <2>1, <3>3 DEF CallType, Range
      <4>2. In(c, {"skipped"}) = {}  BY <2>1, <3>2 DEF CallInv
      <4>3. \A i \in DOMAIN item[c] : item[c][i] \in Ended  BY <3>2 DEF Over, In
      <4>4. \A i \in DOMAIN item[c] : item[c][i] \notin Failed /\ item[c][i] # "skipped"
        BY <3>2, <4>2 DEF In
      <4>5. QED  BY <4>1, <4>3, <4>4 DEF In, Ended, Failed
    <3>10. \A n \in DOMAIN inputs : Found(c, inputs[n])  BY <2>1, <3>9 DEF CallInv
    <3>11. ASSUME Kind(c) \in Embeds
           PROVE  \E d \in Dimensions : Range(values) = {d}
      <4>1. \A n \in DOMAIN values : values[n] # None /\ values[n] = values[1]
        BY <3>2, <3>6, <3>11 DEF Aligned
      <4>2. values[1] = value[c][inputs[1]] /\ inputs[1] \in Range(inputs)
        BY <3>5, <3>7 DEF Range
      <4>3. values[1] \in Dimensions  BY <2>1, <3>3, <3>5, <3>8, <4>1, <4>2 DEF CallType
      <4>4. Range(values) = {values[1]}  BY <3>5, <3>8, <4>1 DEF Range
      <4>5. QED  BY <4>3, <4>4
    <3>12. QED  BY <3>2, <3>3, <3>6, <3>8, <3>10, <3>11
  <2>4. QED  BY <2>2, <2>3
<1>2. QED  BY <1>1, Invariant, PTL

\* What was stored when a call was made is never bought again for it.
THEOREM StoredAlwaysFree == Spec => []StoredInputsAreFree
<1>1. IInv => StoredInputsAreFree  BY DEF IInv, CallInv, StoredInputsAreFree
<1>2. QED  BY <1>1, Invariant, PTL

\* The total usage of a decorator is the sum of what was billed for the calls of its
\* kind that have returned, and LastOutcome the last of its report.
THEOREM ReportsAlwaysTrack == Spec => []ReportsTrackCalls
<1>1. IInv => ReportsTrackCalls
  <2> SUFFICES ASSUME IInv PROVE ReportsTrackCalls  OBVIOUS
  <2>1. \A k \in DOMAIN total :
          total[k].usage = MapThenSumSet(LAMBDA c : paid[c],
                                         {c \in Calls : result[c] # NoResult /\ Kind(c) = k})
    <3> SUFFICES ASSUME NEW k \in DOMAIN total
                 PROVE  total[k].usage =
                          MapThenSumSet(LAMBDA c : paid[c],
                                        {c \in Calls : result[c] # NoResult /\ Kind(c) = k})
      OBVIOUS
    <3>1. k \in Kinds \ {"corpus"}  BY DEF IInv
    <3>2. total[k].usage = SumOf(paid, Returners(k))  BY <3>1 DEF IInv, SumInv
    <3>3. QED  BY <3>2, Zenon DEF SumOf, Returners
  <2>2. \A c \in Calls :
          result[c] # NoResult
            /\ (Kind(c) = "corpus" \/ (Kind(c) \in Single /\ result[c].state = "error"))
          => result[c].usage = paid[c]
    BY DEF IInv, ResultInv
  <2>3. LastInv  BY DEF IInv
  <2>4. QED  BY <2>1, <2>2, <2>3, Zenon DEF ReportsTrackCalls, LastInv
<1>2. QED  BY <1>1, Invariant, PTL
==============================================================================
