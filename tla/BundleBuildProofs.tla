-------------------------- MODULE BundleBuildProofs --------------------------
(***************************************************************************)
(* Theorems about BundleBuild for any number of builders, bundles, calls,  *)
(* faults, crashes and losses of power.                                    *)
(*                                                                         *)
(* What makes a published bundle whole is what its call wrote before the   *)
(* rename, in an order that differs between Build and BuildStream: the     *)
(* inductive invariant says for each step which artifacts are in the       *)
(* partial directory, and that just before the rename all of them are      *)
(* durable, so that no loss of power tears what was renamed.               *)
(***************************************************************************)
EXTENDS BundleBuild, TLAPS

\* The steps of a call that find its partial directory there.
Filling(b) ==
  {"staging", "payloads", "content", "lexical", "vectors", "RemoveStaging", "manifest",
   "SyncTemporary", "Rename"} \cup (IF Mode[b] = "stream" THEN {"Stat"} ELSE {})

\* The artifacts of a bundle that are written before step s.
Written(s) ==
  CASE s \in {"staging", "Stat", "payloads"} -> {}
    [] s = "content"                         -> {"payloads"}
    [] s = "lexical"                         -> {"payloads", "content"}
    [] s = "vectors"                         -> {"payloads", "content", "lexical"}
    [] s \in {"RemoveStaging", "manifest"}   -> Bundle \ {"manifest"}
    [] OTHER                                 -> Bundle

\* A call is at a step of its own kind, in a call that was counted.
StepInv ==
  \A b \in Builders :
    /\ Mode[b] = "build" => step[b] \notin {"staging", "RemoveStaging"}
    /\ step[b] # "idle" => attempt[b] >= 1

\* What is in the partial directory of call b.
PartialOf(b) ==
  LET s == step[b]  d == temporary[b] IN
  s \in Filling(b) =>
    /\ d.files \ {"staging"} = Written(s)
    /\ d.path = PathOf[b] /\ d.intact
    /\ Mode[b] = "build" \/ s \in {"manifest", "SyncTemporary", "Rename"}
         => "staging" \notin d.files
    /\ s = "Rename" => d.durable = Bundle

PartialInv == \A b \in Builders : PartialOf(b)

\* Every directory of a bundle, damaged or not, holds all of it durably.
FinalInv ==
  \A i \in BundleIds :
    \/ final[i] = NoDir
    \/ /\ final[i] \in Directory
       /\ final[i].files = Bundle /\ final[i].durable = Bundle

SyncedInv ==
  /\ \A i \in synced : final[i] # NoDir
  /\ \A b \in Builders :
       /\ step[b] \in {"SyncRoot", "Measure"} => final[IdOf[b]] # NoDir
       /\ step[b] = "Measure" => IdOf[b] \in synced

IInv == TypeOK /\ StepInv /\ PartialInv /\ FinalInv /\ SyncedInv /\ LeftoversAccounted

-----------------------------------------------------------------------------
(* The order of the steps.                                                 *)

\* What follows each step of BuildStream.
LEMMA StreamOrder ==
  ASSUME NEW b \in Builders, Mode[b] = "stream"
  PROVE  /\ Steps(b)[1] = "MkdirTemp"
         /\ Following(b, "MkdirTemp") = "staging"
         /\ Following(b, "staging") = "Stat"
         /\ Following(b, "Stat") = "payloads"
         /\ Following(b, "payloads") = "content"
         /\ Following(b, "content") = "lexical"
         /\ Following(b, "lexical") = "vectors"
         /\ Following(b, "vectors") = "RemoveStaging"
         /\ Following(b, "RemoveStaging") = "manifest"
         /\ Following(b, "manifest") = "SyncTemporary"
         /\ Following(b, "SyncTemporary") = "Rename"
         /\ Following(b, "Rename") = "SyncRoot"
         /\ Following(b, "SyncRoot") = "Measure"
<1>1. Steps(b) = StreamSteps
  BY DEF Steps
<1>2. Len(StreamSteps) = 13
  BY DEF StreamSteps
<1>3. \A n, m \in 1 .. 13 : StreamSteps[n] = StreamSteps[m] => n = m
  BY DEF StreamSteps
<1>4. ASSUME NEW n \in 1 .. 12
      PROVE  Following(b, StreamSteps[n]) = StreamSteps[n + 1]
  BY <1>1, <1>2, <1>3 DEF Following
<1>5. QED
  BY <1>1, <1>4 DEF StreamSteps

\* What follows each step of Build.
LEMMA BuildOrder ==
  ASSUME NEW b \in Builders, Mode[b] = "build"
  PROVE  /\ Steps(b)[1] = "Stat"
         /\ Following(b, "Stat") = "MkdirTemp"
         /\ Following(b, "MkdirTemp") = "payloads"
         /\ Following(b, "payloads") = "content"
         /\ Following(b, "content") = "lexical"
         /\ Following(b, "lexical") = "vectors"
         /\ Following(b, "vectors") = "manifest"
         /\ Following(b, "manifest") = "SyncTemporary"
         /\ Following(b, "SyncTemporary") = "Rename"
         /\ Following(b, "Rename") = "SyncRoot"
         /\ Following(b, "SyncRoot") = "Measure"
<1>1. Steps(b) = BuildSteps
  BY DEF Steps
<1>2. Len(BuildSteps) = 11
  BY DEF BuildSteps
<1>3. \A n, m \in 1 .. 11 : BuildSteps[n] = BuildSteps[m] => n = m
  BY DEF BuildSteps
<1>4. ASSUME NEW n \in 1 .. 10
      PROVE  Following(b, BuildSteps[n]) = BuildSteps[n + 1]
  BY <1>1, <1>2, <1>3 DEF Following
<1>5. QED
  BY <1>1, <1>4 DEF BuildSteps

-----------------------------------------------------------------------------
(* The inductive invariant.                                                *)

\* Nothing is in the output root, and no call is made.
LEMMA Initially == Init => IInv
<1> SUFFICES ASSUME Init PROVE IInv
  OBVIOUS
<1>1. TypeOK
  BY BoundAssumption DEF Init, TypeOK, StepNames
<1>2. StepInv /\ PartialInv
  BY DEF Init, StepInv, PartialInv, PartialOf, Filling
<1>3. FinalInv /\ SyncedInv /\ LeftoversAccounted
  BY DEF Init, FinalInv, SyncedInv, LeftoversAccounted
<1>4. QED
  BY <1>1, <1>2, <1>3 DEF IInv

\* A call that stays where it is keeps its partial directory.
LEMMA OthersKeep ==
  ASSUME NEW c \in Builders, PartialOf(c), step'[c] = step[c], temporary'[c] = temporary[c]
  PROVE  PartialOf(c)'
BY DEF PartialOf, Filling, Written, Bundle, Artifacts

\* A call begins before it has a directory.
LEMMA StartKeeps ==
  ASSUME IInv, NEW b \in Builders, Start(b) PROVE IInv'
<1> USE InputAssumption, BoundAssumption DEF IInv
<1>1. /\ step[b] = "idle" /\ step' = [step EXCEPT ![b] = step'[b]]
      /\ \/ step'[b] = "MkdirTemp" /\ Mode[b] = "stream"
         \/ step'[b] = "Stat" /\ Mode[b] = "build"
  BY StreamOrder, BuildOrder DEF Start, TypeOK
<1>2. TypeOK' /\ StepInv'
  BY <1>1 DEF Start, TypeOK, StepNames, StepInv
<1>3. PartialInv'
  <2>1. PartialOf(b)'
    BY <1>1 DEF PartialOf, Filling
  <2>2. QED
    BY <1>1, <2>1, OthersKeep DEF PartialInv, Start, TypeOK
<1>4. FinalInv' /\ SyncedInv'
  BY <1>1 DEF FinalInv, SyncedInv, Start, TypeOK
<1>5. LeftoversAccounted'
  BY <1>1 DEF LeftoversAccounted, Start, TypeOK
<1>6. QED
  BY <1>2, <1>3, <1>4, <1>5

\* A new partial directory is empty and belongs to the call that made it.
LEMMA MkdirTempKeeps ==
  ASSUME IInv, NEW b \in Builders, MkdirTemp(b) PROVE IInv'
<1> USE InputAssumption, BoundAssumption DEF IInv
<1> DEFINE next == IF Mode[b] = "stream" THEN "staging" ELSE "payloads"
<1>1. Mode[b] = "stream" \/ Mode[b] = "build"
  OBVIOUS
<1>2. /\ step[b] = "MkdirTemp" /\ step' = [step EXCEPT ![b] = next]
      /\ temporary'[b] = [files |-> {}, durable |-> {}, path |-> PathOf[b], intact |-> TRUE]
  BY <1>1, StreamOrder, BuildOrder DEF MkdirTemp, Continue, TypeOK
<1> HIDE DEF next
<1>3. TypeOK'
  BY <1>2 DEF MkdirTemp, TypeOK, Directory, StepInv, StepNames, TemporaryName, next, Artifacts
<1>4. StepInv'
  BY <1>1, <1>2 DEF MkdirTemp, TypeOK, StepInv, next
<1>5. PartialInv'
  <2>1. PartialOf(b)'
    BY <1>1, <1>2 DEF PartialOf, Filling, Written, TypeOK, next
  <2>2. QED
    BY <1>2, <2>1, OthersKeep DEF PartialInv, MkdirTemp, TypeOK
<1>6. FinalInv' /\ SyncedInv'
  BY <1>1, <1>2 DEF FinalInv, SyncedInv, MkdirTemp, TypeOK, next
<1>7. LeftoversAccounted'
  BY <1>1, <1>2 DEF LeftoversAccounted, MkdirTemp, TypeOK, next, TemporaryName
<1>8. QED
  BY <1>3, <1>4, <1>5, <1>6, <1>7

\* Looking for the bundle changes nothing but the way the call takes.
LEMMA StatKeeps ==
  ASSUME IInv, NEW b \in Builders, Stat(b) PROVE IInv'
<1> USE InputAssumption, BoundAssumption DEF IInv
<1> DEFINE next == IF final[IdOf[b]] # NoDir THEN "Verify"
                   ELSE IF Mode[b] = "stream" THEN "payloads" ELSE "MkdirTemp"
<1>1. Mode[b] = "stream" \/ Mode[b] = "build"
  OBVIOUS
<1>2. /\ step[b] = "Stat" /\ step' = [step EXCEPT ![b] = next]
  BY <1>1, StreamOrder, BuildOrder DEF Stat, Continue, TypeOK
<1>3a. /\ next \in {"Verify", "payloads", "MkdirTemp"}
       /\ next = "payloads" => Mode[b] = "stream"
       /\ next = "MkdirTemp" => Mode[b] = "build"
  BY <1>1
<1> HIDE DEF next
<1>3. TypeOK'
  BY <1>2, <1>3a DEF Stat, TypeOK, StepNames, Artifacts
<1>4. StepInv'
  BY <1>1, <1>2, <1>3a DEF Stat, TypeOK, StepInv
<1>5. PartialInv'
  <2>1. PartialOf(b)'
    BY <1>1, <1>2, <1>3a DEF PartialInv, PartialOf, Filling, Written, Stat, TypeOK
  <2>2. QED
    BY <1>2, <2>1, OthersKeep DEF PartialInv, Stat, TypeOK
<1>6. FinalInv' /\ SyncedInv'
  BY <1>2, <1>3a DEF FinalInv, SyncedInv, Stat, TypeOK
<1>7. LeftoversAccounted'
  BY <1>2, <1>3a DEF LeftoversAccounted, Stat, TypeOK
<1>8. QED
  BY <1>3, <1>4, <1>5, <1>6, <1>7

\* No directory is not the directory of a call.
LEMMA NoDirIsEmpty == ~NoDir.intact /\ NoDir.files = {} /\ NoDir.files # Bundle
<1>1. NoDir.files = {} /\ ~NoDir.intact
  BY DEF NoDir
<1>2. Bundle # {}
  BY DEF Bundle, Artifacts
<1>3. QED
  BY <1>1, <1>2

\* The artifacts a call has written grow by the one of each step.
LEMMA WrittenGrows ==
  /\ Written("staging") = {} /\ Written("Stat") = {} /\ Written("payloads") = {}
  /\ Written("content") = Written("payloads") \cup {"payloads"}
  /\ Written("lexical") = Written("content") \cup {"content"}
  /\ Written("vectors") = Written("lexical") \cup {"lexical"}
  /\ Written("RemoveStaging") = Written("vectors") \cup {"vectors"}
  /\ Written("manifest") = Written("vectors") \cup {"vectors"}
  /\ Written("SyncTemporary") = Written("manifest") \cup {"manifest"}
  /\ Written("Rename") = Bundle /\ Written("SyncTemporary") = Bundle
<1>1. Bundle = {"payloads", "content", "lexical", "vectors", "manifest"}
  BY DEF Bundle, Artifacts
<1>2. QED
  BY <1>1 DEF Written

\* The step after a write, and what its artifact adds.
LEMMA WriteAdvances ==
  ASSUME IInv, NEW b \in Builders, Write(b)
  PROVE  LET s == step[b] IN
         /\ step' = [step EXCEPT ![b] = step'[b]] /\ step'[b] = Following(b, s)
         /\ \/ s = "staging" /\ step'[b] = "Stat" /\ Mode[b] = "stream"
            \/ s = "payloads" /\ step'[b] = "content"
            \/ s = "content" /\ step'[b] = "lexical"
            \/ s = "lexical" /\ step'[b] = "vectors"
            \/ s = "vectors" /\ step'[b] = "RemoveStaging" /\ Mode[b] = "stream"
            \/ s = "vectors" /\ step'[b] = "manifest" /\ Mode[b] = "build"
            \/ s = "RemoveStaging" /\ step'[b] = "manifest" /\ Mode[b] = "stream"
            \/ s = "manifest" /\ step'[b] = "SyncTemporary"
            \/ s = "SyncTemporary" /\ step'[b] = "Rename"
<1> USE InputAssumption DEF IInv
<1>1. step' = [step EXCEPT ![b] = Following(b, step[b])] /\ step'[b] = Following(b, step[b])
  BY DEF Write, Continue, TypeOK
<1>2. step[b] \in Artifacts \cup {"RemoveStaging", "SyncTemporary"}
  BY DEF Write
<1>3. CASE Mode[b] = "stream"
  <2>1. step[b] \in {"staging", "payloads", "content", "lexical", "vectors", "manifest",
                    "RemoveStaging", "SyncTemporary"}
    BY <1>2 DEF Artifacts
  <2>2. QED
    BY <1>1, <1>3, <2>1, StreamOrder
<1>4. CASE Mode[b] = "build"
  <2>1. step[b] \notin {"staging", "RemoveStaging"}
    BY <1>4 DEF StepInv
  <2>2. QED
    BY <1>1, <1>2, <1>4, <2>1, BuildOrder DEF Artifacts
<1>5. QED
  BY <1>3, <1>4

\* A write adds the artifact of its step to the partial directory.
LEMMA WriteKeeps ==
  ASSUME IInv, NEW b \in Builders, Write(b) PROVE IInv'
<1> USE InputAssumption, BoundAssumption DEF IInv
<1> DEFINE s == step[b]
           d == temporary[b]
           e == temporary'[b]
<1>1. /\ step' = [step EXCEPT ![b] = step'[b]]
      /\ \/ s = "staging" /\ step'[b] = "Stat" /\ Mode[b] = "stream"
         \/ s = "payloads" /\ step'[b] = "content"
         \/ s = "content" /\ step'[b] = "lexical"
         \/ s = "lexical" /\ step'[b] = "vectors"
         \/ s = "vectors" /\ step'[b] = "RemoveStaging" /\ Mode[b] = "stream"
         \/ s = "vectors" /\ step'[b] = "manifest" /\ Mode[b] = "build"
         \/ s = "RemoveStaging" /\ step'[b] = "manifest" /\ Mode[b] = "stream"
         \/ s = "manifest" /\ step'[b] = "SyncTemporary"
         \/ s = "SyncTemporary" /\ step'[b] = "Rename"
  BY WriteAdvances
<1>2. s \in Filling(b)
  BY <1>1 DEF Filling
<1>3. /\ d.files \ {"staging"} = Written(s) /\ d.path = PathOf[b] /\ d.intact
      /\ Mode[b] = "build" \/ s \in {"manifest", "SyncTemporary"} => "staging" \notin d.files
  BY <1>2 DEF PartialInv, PartialOf
<1>4. d \in Directory
  BY <1>3, NoDirIsEmpty DEF TypeOK
<1>5. /\ temporary' = [temporary EXCEPT ![b] = e]
      /\ e \in Directory /\ e.path = d.path /\ e.intact = d.intact
      /\ e.files = IF s = "RemoveStaging" THEN d.files \ {"staging"}
                   ELSE d.files \cup ({s} \cap Artifacts)
      /\ s = "SyncTemporary" => e.durable = e.files
  BY <1>4 DEF Write, TypeOK, SyncsTemporary, Directory
<1>6. TypeOK'
  BY <1>1, <1>5 DEF Write, TypeOK, StepNames, Artifacts
<1>7. StepInv'
  BY <1>1 DEF Write, TypeOK, StepInv
<1>8. PartialInv'
  <2>1. e.files \ {"staging"} = Written(step'[b])
    BY <1>1, <1>3, <1>5, WrittenGrows DEF Artifacts
  <2>2. Mode[b] = "build" \/ step'[b] \in {"manifest", "SyncTemporary", "Rename"}
          => "staging" \notin e.files
    BY <1>1, <1>3, <1>5 DEF Artifacts
  <2>3. step'[b] = "Rename" => e.durable = Bundle
    <3>1. step'[b] = "Rename" => e.durable = e.files /\ e.files = e.files \ {"staging"}
      BY <1>1, <1>5, <2>2
    <3>2. QED
      BY <2>1, <3>1, WrittenGrows
  <2>4. PartialOf(b)'
    BY <1>3, <1>5, <2>1, <2>2, <2>3 DEF PartialOf, Filling, Written
  <2>5. QED
    BY <1>1, <2>4, OthersKeep DEF PartialInv, Write, TypeOK
<1>9. FinalInv' /\ SyncedInv'
  BY <1>1 DEF FinalInv, SyncedInv, Write, TypeOK
<1>10. LeftoversAccounted'
  BY <1>1 DEF LeftoversAccounted, Write, TypeOK
<1>11. QED
  BY <1>6, <1>7, <1>8, <1>9, <1>10

\* Just before the rename the partial directory is the whole bundle, durably.
LEMMA RenameEffect ==
  ASSUME IInv, NEW b \in Builders, Rename(b)
  PROVE  LET d == temporary[b] IN
         /\ step' = [step EXCEPT ![b] = "SyncRoot"]
         /\ d \in Directory /\ d.intact /\ d.path = PathOf[b]
         /\ d.files = Bundle /\ d.durable = Bundle
<1> USE InputAssumption DEF IInv
<1>1. Mode[b] = "stream" \/ Mode[b] = "build"
  OBVIOUS
<1>2. step' = [step EXCEPT ![b] = "SyncRoot"] /\ step[b] = "Rename"
  BY <1>1, StreamOrder, BuildOrder DEF Rename, Continue
<1>3. LET d == temporary[b] IN
      /\ d.intact /\ d.path = PathOf[b]
      /\ d.files = Bundle /\ d.durable = Bundle
  <2>1. LET d == temporary[b] IN
        /\ d.intact /\ d.path = PathOf[b] /\ d.durable = Bundle
        /\ d.files \ {"staging"} = Bundle /\ "staging" \notin d.files
    BY <1>2, WrittenGrows DEF PartialInv, PartialOf, Filling
  <2>2. temporary[b].files = temporary[b].files \ {"staging"}
    BY <2>1
  <2>3. QED
    BY <2>1, <2>2
<1>4. temporary[b] \in Directory
  BY <1>3, NoDirIsEmpty DEF TypeOK
<1>5. QED
  BY <1>2, <1>3, <1>4

\* A rename publishes a whole bundle, where there was none.
LEMMA RenameKeeps ==
  ASSUME IInv, NEW b \in Builders, Rename(b) PROVE IInv'
<1> USE InputAssumption, BoundAssumption DEF IInv
<1>1. LET d == temporary[b] IN
      /\ step' = [step EXCEPT ![b] = "SyncRoot"]
      /\ d \in Directory /\ d.intact /\ d.path = PathOf[b]
      /\ d.files = Bundle /\ d.durable = Bundle
  BY RenameEffect
<1>2. /\ final'[IdOf[b]] = temporary[b]
      /\ \A i \in BundleIds : final'[i] \in {final[i], temporary[b]}
  BY DEF Rename, TypeOK
<1>3. temporary[b] # NoDir
  BY <1>1, NoDirIsEmpty
<1>4. TypeOK'
  BY <1>1 DEF Rename, TypeOK, StepNames
<1>5. StepInv'
  BY <1>1 DEF Rename, TypeOK, StepInv
<1>6. PartialInv'
  <2>1. PartialOf(b)'
    BY <1>1 DEF PartialOf, Filling, TypeOK
  <2>2. QED
    BY <1>1, <2>1, OthersKeep DEF PartialInv, Rename, TypeOK
<1>7. FinalInv'
  BY <1>1, <1>2 DEF FinalInv
<1>8. SyncedInv'
  BY <1>1, <1>2, <1>3 DEF SyncedInv, Rename, TypeOK
<1>9. LeftoversAccounted'
  BY <1>1 DEF LeftoversAccounted, Rename, TypeOK, TemporaryName
<1>10. QED
  BY <1>4, <1>5, <1>6, <1>7, <1>8, <1>9

\* Syncing the root makes durable what is there.
LEMMA SyncRootKeeps ==
  ASSUME IInv, NEW b \in Builders, SyncRoot(b) PROVE IInv'
<1> USE InputAssumption, BoundAssumption DEF IInv
<1>1. Mode[b] = "stream" \/ Mode[b] = "build"
  OBVIOUS
<1>2. step' = [step EXCEPT ![b] = "Measure"] /\ step[b] = "SyncRoot"
  BY <1>1, StreamOrder, BuildOrder DEF SyncRoot, Continue
<1>3. TypeOK' /\ StepInv'
  BY <1>2 DEF SyncRoot, TypeOK, StepNames, StepInv
<1>4. PartialInv'
  <2>1. PartialOf(b)'
    BY <1>2 DEF PartialOf, Filling, TypeOK
  <2>2. QED
    BY <1>2, <2>1, OthersKeep DEF PartialInv, SyncRoot, TypeOK
<1>5. FinalInv' /\ SyncedInv'
  BY <1>2 DEF FinalInv, SyncedInv, SyncRoot, TypeOK
<1>6. LeftoversAccounted'
  BY <1>2 DEF LeftoversAccounted, SyncRoot, TypeOK
<1>7. QED
  BY <1>3, <1>4, <1>5, <1>6

\* Verification changes nothing but the way the call takes.
LEMMA VerifyKeeps ==
  ASSUME IInv, NEW b \in Builders, Verify(b) PROVE IInv'
<1> USE DEF IInv
<1>1. step' = [step EXCEPT ![b] = "MeasureReused"] /\ step[b] = "Verify"
  BY DEF Verify
<1>2. TypeOK' /\ StepInv'
  BY <1>1 DEF Verify, TypeOK, StepNames, StepInv
<1>3. PartialInv'
  <2>1. PartialOf(b)'
    BY <1>1 DEF PartialOf, Filling, TypeOK
  <2>2. QED
    BY <1>1, <2>1, OthersKeep DEF PartialInv, Verify, TypeOK
<1>4. FinalInv' /\ SyncedInv'
  BY <1>1 DEF FinalInv, SyncedInv, Verify, TypeOK
<1>5. LeftoversAccounted'
  BY <1>1 DEF LeftoversAccounted, Verify, TypeOK
<1>6. QED
  BY <1>2, <1>3, <1>4, <1>5

\* A call that returns gives up its partial directory or leaves it behind.
LEMMA ReturnKeeps ==
  ASSUME IInv, NEW b \in Builders, NEW result \in {"fresh", "reused", "error"},
         NEW failed \in {0, 1},
         step[b] # "idle", failed = 1 => faults < MaxFaults, Return(b, result, failed)
  PROVE  IInv'
<1> USE InputAssumption, BoundAssumption DEF IInv
<1>1. step' = [step EXCEPT ![b] = "idle"] /\ UNCHANGED <<attempt, final, synced, accidents>>
      /\ outcome' = [outcome EXCEPT ![b] = result] /\ temporary' = [temporary EXCEPT ![b] = NoDir]
  BY DEF Return
<1>2. /\ partials' \subseteq partials /\ abandoned' \subseteq abandoned \cup partials
      /\ partials' \ abandoned' \subseteq (partials \ abandoned) \ {TemporaryName(b)}
  BY DEF Return, Cleanup
<1>2a. faults' \in 0 .. MaxFaults
  BY DEF Return, Cleanup, TypeOK
<1>3. TypeOK'
  BY <1>1, <1>2, <1>2a DEF TypeOK, StepNames
<1>4. StepInv'
  BY <1>1 DEF StepInv, TypeOK
<1>5. PartialInv'
  <2>1. PartialOf(b)'
    BY <1>1 DEF PartialOf, Filling, TypeOK
  <2>2. QED
    BY <1>1, <2>1, OthersKeep DEF PartialInv, TypeOK
<1>6. FinalInv' /\ SyncedInv'
  BY <1>1 DEF FinalInv, SyncedInv, TypeOK
<1>7. LeftoversAccounted'
  BY <1>1, <1>2 DEF LeftoversAccounted, TypeOK, TemporaryName
<1>8. QED
  BY <1>3, <1>4, <1>5, <1>6, <1>7

\* The calls that end return in one of these ways.
LEMMA EndKeeps ==
  ASSUME IInv, NEW b \in Builders,
         MeasureResult(b) \/ VerifyFails(b) \/ RenameFails(b) \/ Fail(b)
  PROVE  IInv'
BY ReturnKeeps DEF MeasureResult, VerifyFails, RenameFails, Fail

\* A crash leaves the partial directory of the call behind.
LEMMA CrashKeeps ==
  ASSUME IInv, NEW b \in Builders, Crash(b) PROVE IInv'
<1> USE InputAssumption, BoundAssumption DEF IInv
<1>1. step' = [step EXCEPT ![b] = "idle"] /\ temporary' = [temporary EXCEPT ![b] = NoDir]
  BY DEF Crash
<1>2. TypeOK' /\ StepInv'
  BY <1>1 DEF Crash, TypeOK, StepNames, StepInv
<1>3. PartialInv'
  <2>1. PartialOf(b)'
    BY <1>1 DEF PartialOf, Filling, TypeOK
  <2>2. QED
    BY <1>1, <2>1, OthersKeep DEF PartialInv, Crash, TypeOK
<1>4. FinalInv' /\ SyncedInv'
  BY <1>1 DEF FinalInv, SyncedInv, Crash, TypeOK
<1>5. LeftoversAccounted'
  BY <1>1 DEF LeftoversAccounted, Crash, TypeOK, TemporaryName
<1>6. QED
  BY <1>2, <1>3, <1>4, <1>5

\* Damage leaves the entries of a directory as they are.
LEMMA DamageKeeps ==
  ASSUME IInv, NEW i \in BundleIds, Damage(i) PROVE IInv'
<1> USE BoundAssumption DEF IInv
<1>1. /\ final' = [final EXCEPT ![i].intact = FALSE] /\ final[i] # NoDir /\ final[i].intact
      /\ UNCHANGED <<step, outcome, attempt, temporary, synced, partials, abandoned, faults>>
      /\ accidents' \in 0 .. MaxAccidents
  BY DEF Damage, TypeOK
<1>2. final[i] \in Directory /\ final[i].files = Bundle /\ final[i].durable = Bundle
  BY <1>1 DEF FinalInv
<1>3. final'[i] \in Directory /\ final'[i].files = Bundle /\ final'[i].durable = Bundle
  BY <1>1, <1>2 DEF TypeOK, Directory
<1>4. \A j \in BundleIds : j # i => final'[j] = final[j]
  BY <1>1 DEF TypeOK
<1>5. \A j \in BundleIds : final[j] # NoDir => final'[j] # NoDir
  BY <1>3, <1>4, NoDirIsEmpty
<1>6. TypeOK' /\ StepInv'
  BY <1>1, <1>3 DEF TypeOK, StepInv
<1>7. PartialInv'
  BY <1>1, OthersKeep DEF PartialInv
<1>8. FinalInv' /\ SyncedInv'
  BY <1>1, <1>3, <1>4, <1>5, InputAssumption DEF FinalInv, SyncedInv, TypeOK
<1>9. LeftoversAccounted'
  BY <1>1 DEF LeftoversAccounted
<1>10. QED
  BY <1>6, <1>7, <1>8, <1>9

\* A loss of power undoes renames, and nothing else: no entry of a bundle is volatile.
LEMMA PowerUndoesRenames ==
  ASSUME IInv, LosePower
  PROVE  \E undone \in SUBSET {i \in BundleIds : final[i] # NoDir /\ i \notin synced} :
           final' = [i \in BundleIds |-> IF i \in undone THEN NoDir ELSE final[i]]
<1> USE DEF IInv
<1>1. Volatile = {}
  <2>1. \A i \in BundleIds : final[i].files = final[i].durable
    <3>1. NoDir.files = NoDir.durable
      BY DEF NoDir
    <3>2. QED
      BY <3>1 DEF FinalInv
  <2>2. QED
    BY <2>1 DEF Volatile
<1>2. PICK undone \in SUBSET {i \in BundleIds : final[i] # NoDir /\ i \notin synced},
           lost \in SUBSET Volatile :
        final' = [i \in BundleIds |->
          IF i \in undone THEN NoDir
          ELSE LET d == final[i]
                   left == {a \in Artifacts : ~(a \in d.files <=> <<i, a>> \in lost)} IN
               [d EXCEPT !.files = left, !.durable = left]]
  BY DEF LosePower
<1>3. ASSUME NEW i \in BundleIds
      PROVE  LET d == final[i]
                 left == {a \in Artifacts : ~(a \in d.files <=> <<i, a>> \in lost)} IN
             [d EXCEPT !.files = left, !.durable = left] = d
  <2> DEFINE d == final[i]
             left == {a \in Artifacts : ~(a \in d.files <=> <<i, a>> \in lost)}
  <2>1. left = {a \in Artifacts : a \in d.files}
    <3>1. \A a \in Artifacts : ~(<<i, a>> \in lost)
      BY <1>1, <1>2
    <3>2. QED
      BY <3>1, Zenon
  <2>2. left = d.files /\ left = d.durable
    <3>1. NoDir.files = {} /\ NoDir.durable = {}
      BY DEF NoDir
    <3>2. d.files \subseteq Artifacts /\ d.files = d.durable
      BY <3>1 DEF FinalInv, Bundle
    <3>3. QED
      BY <2>1, <3>2
  <2>3. d = [files |-> d.files, durable |-> d.durable, path |-> d.path, intact |-> d.intact]
    <3>1. NoDir = [files |-> NoDir.files, durable |-> NoDir.durable, path |-> NoDir.path,
                   intact |-> NoDir.intact]
      BY DEF NoDir
    <3>2. QED
      BY <3>1 DEF TypeOK, Directory
  <2>4. QED
    BY <2>2, <2>3
<1>4. QED
  BY <1>2, <1>3

\* A loss of power leaves the bundles it does not undo as they are.
LEMMA LosePowerKeeps ==
  ASSUME IInv, LosePower PROVE IInv'
<1> USE BoundAssumption DEF IInv
<1>1. PICK undone \in SUBSET {i \in BundleIds : final[i] # NoDir /\ i \notin synced} :
        final' = [i \in BundleIds |-> IF i \in undone THEN NoDir ELSE final[i]]
  BY PowerUndoesRenames
<1>1a. /\ step' = [b \in Builders |-> "idle"] /\ outcome' = [b \in Builders |-> "none"]
      /\ temporary' = [b \in Builders |-> NoDir]
      /\ accidents < MaxAccidents /\ accidents' = accidents + 1 /\ abandoned' = partials
      /\ UNCHANGED <<attempt, synced, partials, faults>>
  BY DEF LosePower
<1>2. TypeOK' /\ StepInv'
  BY <1>1, <1>1a DEF TypeOK, StepNames, StepInv
<1>3. PartialInv'
  BY DEF PartialInv, PartialOf, Filling, LosePower
<1>4. FinalInv' /\ SyncedInv'
  BY <1>1, <1>1a DEF TypeOK, FinalInv, SyncedInv
<1>5. LeftoversAccounted'
  BY DEF LeftoversAccounted, LosePower
<1>6. QED
  BY <1>2, <1>3, <1>4, <1>5

\* Every step keeps the inductive invariant.
LEMMA StepsKeep == ASSUME IInv, [Next]_vars PROVE IInv'
<1>1. ASSUME NEW b \in Builders, Start(b) \/ Proceed(b) \/ Fail(b) \/ Crash(b) PROVE IInv'
  BY <1>1, StartKeeps, MkdirTempKeeps, StatKeeps, WriteKeeps, RenameKeeps, SyncRootKeeps,
     VerifyKeeps, EndKeeps, CrashKeeps DEF Proceed
<1>2. ASSUME NEW i \in BundleIds, Damage(i) PROVE IInv'
  BY <1>2, DamageKeeps
<1>3. CASE UNCHANGED vars
  BY <1>3, OthersKeep DEF vars, IInv, TypeOK, StepInv, PartialInv, FinalInv, SyncedInv,
     LeftoversAccounted
<1>4. QED
  BY <1>1, <1>2, <1>3, LosePowerKeeps DEF Next

\* The inductive invariant holds of every run.
LEMMA Invariant == Spec => []IInv
BY Initially, StepsKeep, PTL DEF Spec

-----------------------------------------------------------------------------
(* The safety of an output root.                                           *)

\* Steps, outcomes, directories and counters keep their types and bounds.
THEOREM BuildTypeOK == Spec => []TypeOK
<1>1. IInv => TypeOK BY DEF IInv
<1>2. QED BY Invariant, <1>1, PTL

\* Nobody ever finds part of a bundle, or a staging database, under the name of one.
THEOREM BuildPublishesComplete == Spec => []PublishedComplete
<1>1. IInv => PublishedComplete
  BY NoDirIsEmpty DEF IInv, FinalInv, PublishedComplete
<1>2. QED BY Invariant, <1>1, PTL

\* What is left of calls that have ended is accounted for.
THEOREM BuildLeftoversAccounted == Spec => []LeftoversAccounted
<1>1. IInv => LeftoversAccounted BY DEF IInv
<1>2. QED BY Invariant, <1>1, PTL

\* BuildStream is given paths without surrounding blanks: with them the property fails.
PathsTrimmed == \A b \in Builders : Mode[b] = "stream" => Trim[PathOf[b]] = PathOf[b]

\* Among calls whose paths are trimmed none refuses the very bundle it would build.
THEOREM TrimmedBuildReuses ==
  ASSUME PathsTrimmed PROVE Spec => IdenticalBuildReuses
<1> DEFINE Reuses ==
             \A b \in Builders :
               /\ VerifyFails(b)
               /\ final[IdOf[b]].intact /\ Bundle \subseteq final[IdOf[b]].files
               => final[IdOf[b]].path # PathOf[b]
<1>1. [Next]_vars => [Reuses]_vars
  BY DEF VerifyFails, Verified, ExpectedPath, PathsTrimmed
<1>2. QED
  BY <1>1, PTL DEF Spec, IdenticalBuildReuses
-----------------------------------------------------------------------------
(* The bundle store.                                                       *)

\* "absent" is what the store calls a bundle that is not there, no corpus path.
PathsNamed == "absent" \notin Paths

\* What the store shows of the directories and the calls: Store is its instance.
Shown ==
  [i \in BundleIds |->
     IF final[i] = NoDir THEN "absent"
     ELSE IF ~final[i].intact THEN "damaged"
     ELSE IF final[i].files = Bundle THEN final[i].path ELSE "torn"]

Answers == [b \in Builders |-> Answer(b)]

\* Nothing is torn, and only what is not there is shown as absent.
LEMMA ShownWhole ==
  ASSUME IInv, PathsNamed, NEW i \in BundleIds
  PROVE  /\ Shown[i] = "absent" <=> final[i] = NoDir
         /\ final[i] # NoDir => Shown[i] = IF final[i].intact THEN final[i].path ELSE "damaged"
BY DEF IInv, FinalInv, Shown, PathsNamed, Directory

\* A step of one call changes the answer of this call.
LEMMA AnswersMove ==
  ASSUME TypeOK, NEW b \in Builders, NEW s, NEW o,
         step' = [step EXCEPT ![b] = s], outcome' = [outcome EXCEPT ![b] = o]
  PROVE  /\ s = "idle" => Answers' = [Answers EXCEPT ![b] = o]
         /\ s \in {"SyncRoot", "Measure"} => Answers' = [Answers EXCEPT ![b] = "published"]
         /\ s = "MeasureReused" => Answers' = [Answers EXCEPT ![b] = "verified"]
         /\ s \in {"MkdirTemp", "Stat"} => Answers' = [Answers EXCEPT ![b] = "working"]
<1>1. step'[b] = s /\ outcome'[b] = o
  BY DEF TypeOK
<1>2. \A c \in Builders : c # b => Answer(c)' = Answer(c)
  BY DEF TypeOK, Answer
<1>3. Answers' = [Answers EXCEPT ![b] = Answer(b)']
  BY <1>2 DEF Answers
<1>4. /\ s = "idle" => Answer(b)' = o
      /\ s \in {"SyncRoot", "Measure"} => Answer(b)' = "published"
      /\ s = "MeasureReused" => Answer(b)' = "verified"
      /\ s \in {"MkdirTemp", "Stat"} => Answer(b)' = "working"
  BY <1>1 DEF Answer
<1>5. QED
  BY <1>3, <1>4

\* An empty root is an empty store.
LEMMA StoreInitially == Init => Store!StoreInit
BY DEF Init, Store!StoreInit, Store!Absent, Answer

\* A call of a builder is a call of the store.
LEMMA StartCalls ==
  ASSUME IInv, NEW b \in Builders, Start(b) PROVE Store!Call(b)
<1> USE DEF IInv
<1>1. step[b] = "idle" /\ Steps(b)[1] \in {"MkdirTemp", "Stat"}
  BY StreamOrder, BuildOrder, InputAssumption DEF Start
<1>2. Answer(b) = outcome[b] /\ outcome[b] \in {"none", "fresh", "reused", "error"}
  BY <1>1 DEF Answer, TypeOK
<1>3. Answers' = [Answers EXCEPT ![b] = "working"]
  BY <1>1, AnswersMove DEF Start
<1>4. Shown' = Shown /\ synced' = synced
  BY DEF Start, Shown
<1>5. QED
  BY <1>2, <1>3, <1>4 DEF Store!Call, Shown, Answers

\* The rename is what publishes a bundle.
LEMMA RenamePublishes ==
  ASSUME IInv, PathsNamed, NEW b \in Builders, Rename(b) PROVE Store!Publish(b)
<1> USE InputAssumption DEF IInv
<1>1. LET d == temporary[b] IN
      /\ step' = [step EXCEPT ![b] = "SyncRoot"]
      /\ d \in Directory /\ d.intact /\ d.path = PathOf[b]
      /\ d.files = Bundle /\ d.durable = Bundle
  BY RenameEffect
<1>2. Answer(b) = "working" /\ Shown[IdOf[b]] = "absent"
  BY DEF Rename, Answer, DestinationFree, Shown
<1>3. Answers' = [Answers EXCEPT ![b] = "published"]
  <2>1. outcome' = [outcome EXCEPT ![b] = outcome[b]]
    BY DEF Rename, TypeOK
  <2>2. QED
    BY <1>1, <2>1, AnswersMove
<1>4. Shown' = [Shown EXCEPT ![IdOf[b]] = PathOf[b]]
  <2>1. temporary[b] # NoDir
    BY <1>1, NoDirIsEmpty
  <2>2. final' = [final EXCEPT ![IdOf[b]] = temporary[b]]
    BY DEF Rename
  <2>3. QED
    BY <1>1, <2>1, <2>2 DEF Shown, TypeOK
<1>5. synced' = synced
  BY DEF Rename
<1>6. QED
  BY <1>2, <1>3, <1>4, <1>5 DEF Store!Publish, Store!Absent, Shown, Answers

\* Syncing the root is what settles the bundles that are there.
LEMMA SyncRootSettles ==
  ASSUME IInv, PathsNamed, NEW b \in Builders, SyncRoot(b) PROVE Store!Settle(b)
<1> USE InputAssumption DEF IInv
<1>1. step' = [step EXCEPT ![b] = "Measure"] /\ step[b] = "SyncRoot"
  BY StreamOrder, BuildOrder DEF SyncRoot, Continue
<1>2. Answer(b) = "published"
  BY <1>1 DEF Answer
<1>3. Answers' = Answers
  BY <1>1 DEF Answers, Answer, SyncRoot, TypeOK
<1>4. synced' = {i \in BundleIds : Shown[i] # "absent"}
  BY ShownWhole DEF SyncRoot
<1>5. Shown' = Shown
  BY DEF Shown, SyncRoot
<1>6. QED
  BY <1>2, <1>3, <1>4, <1>5 DEF Store!Settle, Store!Absent, Shown, Answers

\* What verification accepts is a bundle of the path the call accepts.
LEMMA VerifyVerifies ==
  ASSUME IInv, PathsNamed, NEW b \in Builders, Verify(b) PROVE Store!Verify(b)
<1> USE InputAssumption DEF IInv
<1>1. Answer(b) = "working"
  BY DEF Verify, Answer
<1>2. Shown[IdOf[b]] = ExpectedPath(b)
  <2>1. final[IdOf[b]].intact /\ final[IdOf[b]].path = ExpectedPath(b)
    BY DEF Verify, Verified
  <2>2. QED
    BY <2>1, ShownWhole, NoDirIsEmpty
<1>3. Answers' = [Answers EXCEPT ![b] = "verified"]
  <2>1. outcome' = [outcome EXCEPT ![b] = outcome[b]]
    BY DEF Verify, TypeOK
  <2>2. step' = [step EXCEPT ![b] = "MeasureReused"]
    BY DEF Verify
  <2>3. QED
    BY <2>1, <2>2, AnswersMove
<1>4. Shown' = Shown /\ synced' = synced
  BY DEF Shown, Verify
<1>5. QED
  BY <1>1, <1>2, <1>3, <1>4 DEF Store!Verify, Shown, Answers

\* A call that returns answers what its last step entitles it to.
LEMMA ReturnAnswers ==
  ASSUME IInv, NEW b \in Builders, NEW result, NEW failed, Return(b, result, failed)
  PROVE  /\ Answers' = [Answers EXCEPT ![b] = result]
         /\ Shown' = Shown /\ synced' = synced
<1>1. /\ step' = [step EXCEPT ![b] = "idle"] /\ outcome' = [outcome EXCEPT ![b] = result]
      /\ UNCHANGED <<final, synced>>
  BY DEF Return
<1>2. Answers' = [Answers EXCEPT ![b] = result]
  BY <1>1, AnswersMove DEF IInv
<1>3. QED
  BY <1>1, <1>2 DEF Shown

\* The last step of a call answers for what it published or verified.
LEMMA MeasureAnswers ==
  ASSUME IInv, NEW b \in Builders, MeasureResult(b)
  PROVE  Store!AnswerFresh(b) \/ Store!AnswerReused(b)
<1>1. CASE step[b] = "Measure" /\ Return(b, "fresh", 0)
  <2>1. Answer(b) = "published" /\ IdOf[b] \in synced
    BY <1>1 DEF Answer, IInv, SyncedInv
  <2>2. QED
    BY <1>1, <2>1, ReturnAnswers DEF Store!AnswerFresh, Shown, Answers
<1>2. CASE step[b] = "MeasureReused" /\ Return(b, "reused", 0)
  <2>1. Answer(b) = "verified"
    BY <1>2 DEF Answer
  <2>2. QED
    BY <1>2, <2>1, ReturnAnswers DEF Store!AnswerReused, Shown, Answers
<1>3. QED
  BY <1>1, <1>2 DEF MeasureResult

\* A call that fails answers with an error.
LEMMA FailureAnswers ==
  ASSUME IInv, NEW b \in Builders, VerifyFails(b) \/ RenameFails(b) \/ Fail(b)
  PROVE  Store!AnswerError(b)
<1>1. \E failed \in {0, 1} : Return(b, "error", failed)
  BY DEF VerifyFails, RenameFails, Fail
<1>2. Answer(b) \in {"working", "published", "verified"}
  BY DEF VerifyFails, RenameFails, Fail, Answer
<1>3. QED
  BY <1>1, <1>2, ReturnAnswers DEF Store!AnswerError, Shown, Answers

\* A crash kills the call and nothing else.
LEMMA CrashKills ==
  ASSUME IInv, NEW b \in Builders, Crash(b) PROVE Store!Die(b)
<1>1. Answers' = [Answers EXCEPT ![b] = "none"]
  <2>1. step' = [step EXCEPT ![b] = "idle"] /\ outcome' = [outcome EXCEPT ![b] = "none"]
    BY DEF Crash
  <2>2. QED
    BY <2>1, AnswersMove DEF IInv
<1>2. Shown' = Shown /\ synced' = synced
  BY DEF Crash, Shown
<1>3. QED
  BY <1>1, <1>2 DEF Store!Die, Shown, Answers

\* A damaged directory is a damaged bundle.
LEMMA DamageDamages ==
  ASSUME IInv, PathsNamed, NEW i \in BundleIds, Damage(i) PROVE Store!Damage(i)
<1> USE DEF IInv
<1>1. final[i] # NoDir /\ final[i] \in Directory /\ final' = [final EXCEPT ![i].intact = FALSE]
  BY DEF Damage, FinalInv
<1>2. Shown[i] # "absent"
  BY <1>1, ShownWhole
<1>3. Shown' = [Shown EXCEPT ![i] = "damaged"]
  <2>1. final'[i].files = Bundle /\ ~final'[i].intact
    BY <1>1 DEF TypeOK, Directory, FinalInv
  <2>2. final'[i] # NoDir /\ \A j \in BundleIds : j # i => final'[j] = final[j]
    BY <1>1, <2>1, NoDirIsEmpty DEF TypeOK
  <2>3. QED
    BY <2>1, <2>2 DEF Shown
<1>4. Answers' = Answers /\ synced' = synced
  BY DEF Damage, Answers, Answer
<1>5. QED
  BY <1>2, <1>3, <1>4 DEF Store!Damage, Store!Absent, Store!Damaged, Shown, Answers

\* What a loss of power takes was not settled.
LEMMA PowerIsLost ==
  ASSUME IInv, PathsNamed, LosePower
  PROVE  \E lost \in SUBSET BundleIds : Store!LosePower(lost)
<1>1. PICK undone \in SUBSET {i \in BundleIds : final[i] # NoDir /\ i \notin synced} :
        final' = [i \in BundleIds |-> IF i \in undone THEN NoDir ELSE final[i]]
  BY PowerUndoesRenames
<1>2. undone \in SUBSET BundleIds /\ undone \cap synced = {}
  OBVIOUS
<1>3. Shown' = [i \in BundleIds |-> IF i \in undone THEN "absent" ELSE Shown[i]]
  BY <1>1 DEF Shown
<1>4. Answers' = [b \in Builders |-> "none"] /\ synced' = synced
  BY DEF LosePower, Answers, Answer
<1>5. Store!LosePower(undone)
  BY <1>2, <1>3, <1>4 DEF Store!LosePower, Store!Absent, Shown, Answers
<1>6. QED
  BY <1>2, <1>5

\* The steps in between are not seen.
LEMMA StepUnseen ==
  ASSUME IInv, NEW b \in Builders, MkdirTemp(b) \/ Stat(b) \/ Write(b)
  PROVE  Shown' = Shown /\ synced' = synced /\ Answers' = Answers
<1> USE InputAssumption DEF IInv
<1>1. UNCHANGED <<outcome, final, synced>>
  BY DEF MkdirTemp, Stat, Write
<1>2. Shown' = Shown
  BY <1>1 DEF Shown
<1> DEFINE silent == {"MkdirTemp", "Stat", "Verify"} \cup Filling(b)
<1>3. step[b] \in silent /\ step' = [step EXCEPT ![b] = step'[b]] /\ step'[b] \in silent
  <2>1. CASE MkdirTemp(b)
    BY <2>1, StreamOrder, BuildOrder DEF MkdirTemp, Continue, TypeOK, Filling
  <2>2. CASE Stat(b)
    BY <2>2, StreamOrder, BuildOrder DEF Stat, Continue, TypeOK, Filling
  <2>3. CASE Write(b)
    BY <2>3, WriteAdvances DEF Filling
  <2>4. QED
    BY <2>1, <2>2, <2>3
<1>4. Answer(b) = "working" /\ Answer(b)' = "working"
  BY <1>3 DEF Answer, Filling
<1>5. \A c \in Builders : c # b => Answer(c)' = Answer(c)
  BY <1>1, <1>3 DEF Answer, TypeOK
<1>6. QED
  BY <1>1, <1>2, <1>4, <1>5 DEF Answers

\* Every step of the builders is a step of the store, or is not seen.
LEMMA StepsImplementStore ==
  ASSUME IInv, PathsNamed, [Next]_vars PROVE [Store!StoreNext]_(Store!storeVars)
<1>1. ASSUME NEW b \in Builders, Start(b) \/ Fail(b) \/ Crash(b) PROVE Store!StoreNext
  BY <1>1, StartCalls, FailureAnswers, CrashKills DEF Store!StoreNext
<1>2. ASSUME NEW b \in Builders, Proceed(b) PROVE [Store!StoreNext]_(Store!storeVars)
  <2>1. CASE MkdirTemp(b) \/ Stat(b) \/ Write(b)
    BY <2>1, StepUnseen DEF Store!storeVars, Shown, Answers
  <2>2. CASE Rename(b) \/ SyncRoot(b) \/ Verify(b)
    BY <2>2, RenamePublishes, SyncRootSettles, VerifyVerifies DEF Store!StoreNext
  <2>3. CASE MeasureResult(b) \/ VerifyFails(b) \/ RenameFails(b)
    BY <2>3, MeasureAnswers, FailureAnswers DEF Store!StoreNext
  <2>4. QED
    BY <1>2, <2>1, <2>2, <2>3 DEF Proceed
<1>3. ASSUME NEW i \in BundleIds, Damage(i) PROVE Store!StoreNext
  BY <1>3, DamageDamages DEF Store!StoreNext
<1>4. CASE LosePower
  BY <1>4, PowerIsLost DEF Store!StoreNext
<1>5. CASE UNCHANGED vars
  BY <1>5 DEF vars, Store!storeVars, Answer
<1>6. QED
  BY <1>1, <1>2, <1>3, <1>4, <1>5 DEF Next

\* Build and BuildStream implement the bundle store.
THEOREM BuildImplementsStore ==
  ASSUME PathsNamed PROVE Spec => StoreImplemented
<1>1. Init => Store!StoreInit
  BY StoreInitially
<1>2. IInv /\ [Next]_vars => [Store!StoreNext]_(Store!storeVars)
  BY StepsImplementStore
<1>3. QED
  BY <1>1, <1>2, Invariant, PTL DEF Spec, StoreImplemented, Store!StoreSpec

\* The answers of the store stand, and its variables are functions of their indices.
StoreInv ==
  /\ DOMAIN Shown = BundleIds /\ Shown = [i \in BundleIds |-> Shown[i]]
  /\ synced \subseteq BundleIds
  /\ DOMAIN Answers = Builders /\ Answers = [b \in Builders |-> Answers[b]]
  /\ Store!AnswersStand

\* The promise of the store, of the bundles shown and the answers given.
AnswersShown ==
  /\ \A i \in synced : Shown[i] # Store!Absent
  /\ \A b \in Builders :
       /\ Answers[b] \in {"published", "fresh"} => Shown[IdOf[b]] \in {PathOf[b], Store!Damaged}
       /\ Answers[b] \in {"verified", "reused"}
            => Shown[IdOf[b]] \in {ExpectedPath(b)} \cup {Store!Damaged}
       /\ Answers[b] = "fresh" => IdOf[b] \in synced

\* It is what the store promises.
LEMMA StoreShown ==
  (Store!AnswersStand <=> AnswersShown) /\ (Store!AnswersStand' <=> AnswersShown')
BY DEF Store!AnswersStand, AnswersShown, Shown, Answers

\* The store starts with no bundle and no answer.
LEMMA StoreStarts ==
  ASSUME Store!StoreInit PROVE StoreInv
<1>1. /\ Shown = [i \in BundleIds |-> "absent"] /\ synced = {}
      /\ Answers = [b \in Builders |-> "none"]
  BY DEF Store!StoreInit, Store!Absent, Shown, Answers
<1>2. AnswersShown
  BY <1>1 DEF AnswersShown
<1>3. QED
  BY <1>1, <1>2, StoreShown DEF StoreInv

\* The calls of the store, of the bundles shown and the answers given.
LEMMA StoreCalls ==
  ASSUME NEW b \in Builders
  PROVE  /\ Store!Call(b) =>
              /\ Answers[b] \in {"none", "fresh", "reused", "error"}
              /\ Answers' = [Answers EXCEPT ![b] = "working"]
              /\ Shown' = Shown /\ synced' = synced
         /\ Store!Publish(b) =>
              /\ Answers[b] = "working" /\ Shown[IdOf[b]] = "absent"
              /\ Shown' = [Shown EXCEPT ![IdOf[b]] = PathOf[b]]
              /\ Answers' = [Answers EXCEPT ![b] = "published"]
              /\ synced' = synced
         /\ Store!Settle(b) =>
              /\ synced' = {i \in BundleIds : Shown[i] # "absent"}
              /\ Shown' = Shown /\ Answers' = Answers
         /\ Store!AnswerFresh(b) =>
              /\ Answers[b] = "published" /\ IdOf[b] \in synced
              /\ Answers' = [Answers EXCEPT ![b] = "fresh"]
              /\ Shown' = Shown /\ synced' = synced
         /\ Store!Verify(b) =>
              /\ Shown[IdOf[b]] \in {ExpectedPath(b)}
              /\ Answers' = [Answers EXCEPT ![b] = "verified"]
              /\ Shown' = Shown /\ synced' = synced
         /\ Store!AnswerReused(b) =>
              /\ Answers[b] = "verified"
              /\ Answers' = [Answers EXCEPT ![b] = "reused"]
              /\ Shown' = Shown /\ synced' = synced
         /\ Store!AnswerError(b) =>
              /\ Answers' = [Answers EXCEPT ![b] = "error"]
              /\ Shown' = Shown /\ synced' = synced
         /\ Store!Die(b) =>
              /\ Answers' = [Answers EXCEPT ![b] = "none"]
              /\ Shown' = Shown /\ synced' = synced
<1> USE DEF Shown, Answers, Store!Absent
<1>1. Store!Call(b) =>
              /\ Answers[b] \in {"none", "fresh", "reused", "error"}
              /\ Answers' = [Answers EXCEPT ![b] = "working"]
              /\ Shown' = Shown /\ synced' = synced
  BY Zenon DEF Store!Call
<1>2. Store!Publish(b) =>
              /\ Answers[b] = "working" /\ Shown[IdOf[b]] = "absent"
              /\ Shown' = [Shown EXCEPT ![IdOf[b]] = PathOf[b]]
              /\ Answers' = [Answers EXCEPT ![b] = "published"]
              /\ synced' = synced
  BY Zenon DEF Store!Publish
<1>3. QED
  BY <1>1, <1>2, Zenon DEF Store!Settle, Store!AnswerFresh, Store!Verify,
     Store!AnswerReused, Store!AnswerError, Store!Die

\* What befalls the bundles of the store, of those shown and the answers given.
LEMMA StoreAccidents ==
  /\ \A i \in BundleIds : Store!Damage(i) =>
       /\ Shown[i] # "absent" /\ Shown' = [Shown EXCEPT ![i] = "damaged"]
       /\ Answers' = Answers /\ synced' = synced
  /\ \A lost \in SUBSET BundleIds : Store!LosePower(lost) =>
       /\ lost \cap synced = {}
       /\ Shown' = [i \in BundleIds |-> IF i \in lost THEN "absent" ELSE Shown[i]]
       /\ Answers' = [b \in Builders |-> "none"] /\ synced' = synced
BY Zenon DEF Shown, Answers, Store!Absent, Store!Damaged, Store!Damage, Store!LosePower

\* No step of a call, damage or loss of power takes back what was answered.
LEMMA StoreSteps ==
  ASSUME Store!NamesAssumed, StoreInv, [Store!StoreNext]_(Store!storeVars) PROVE StoreInv'
<1> USE DEF StoreInv
<1>1. /\ AnswersShown
      /\ \A b \in Builders :
           IdOf[b] \in BundleIds /\ PathOf[b] # "absent" /\ ExpectedPath(b) # "absent"
  BY StoreShown DEF Store!NamesAssumed, Store!Absent
<1> USE <1>1 DEF AnswersShown, Store!Absent, Store!Damaged
<1>2. ASSUME NEW b \in Builders,
             \/ Store!Call(b) \/ Store!Publish(b) \/ Store!Settle(b) \/ Store!AnswerFresh(b)
             \/ Store!Verify(b) \/ Store!AnswerReused(b) \/ Store!AnswerError(b) \/ Store!Die(b)
      PROVE  AnswersShown'
  <2>1. CASE Store!Call(b)  BY <2>1, StoreCalls
  <2>2. CASE Store!Publish(b)  BY <2>2, StoreCalls
  <2>3. CASE Store!Settle(b)  BY <2>3, StoreCalls
  <2>4. CASE Store!AnswerFresh(b)  BY <2>4, StoreCalls
  <2>5. CASE Store!Verify(b)  BY <2>5, StoreCalls
  <2>6. CASE Store!AnswerReused(b)  BY <2>6, StoreCalls
  <2>7. CASE Store!AnswerError(b)  BY <2>7, StoreCalls
  <2>8. CASE Store!Die(b)
    <3>1. /\ Answers' = [Answers EXCEPT ![b] = "none"]
          /\ Shown' = Shown /\ synced' = synced
      BY <2>8, StoreCalls
    <3>2. QED  BY <3>1
  <2>9. QED  BY <1>2, <2>1, <2>2, <2>3, <2>4, <2>5, <2>6, <2>7, <2>8
<1>3. ASSUME NEW i \in BundleIds, Store!Damage(i) PROVE AnswersShown'
  BY <1>3, StoreAccidents
<1>4. ASSUME NEW lost \in SUBSET BundleIds, Store!LosePower(lost) PROVE AnswersShown'
  BY <1>4, StoreAccidents
<1>5. ASSUME UNCHANGED Store!storeVars PROVE AnswersShown'
  <2>1. Shown' = Shown /\ Answers' = Answers /\ synced' = synced
    BY <1>5 DEF Shown, Answers, Store!storeVars
  <2>2. \A b \in Builders : ExpectedPath(b)' = ExpectedPath(b)
    BY DEF ExpectedPath
  <2>3. QED  BY <2>1, <2>2
<1>6. AnswersShown'
  <2> HIDE DEF AnswersShown
  <2> QED  BY <1>2, <1>3, <1>4, <1>5 DEF Store!StoreNext
<1>7. DOMAIN Shown' = BundleIds /\ Shown' = [i \in BundleIds |-> Shown'[i]]
  BY DEF Shown
<1>8. DOMAIN Answers' = Builders /\ Answers' = [b \in Builders |-> Answers'[b]]
  BY DEF Answers
<1>9. synced' \subseteq BundleIds
  <2>1. ASSUME NEW b \in Builders, Store!Settle(b) PROVE synced' \subseteq BundleIds
    BY <2>1, StoreCalls
  <2>2. QED
    BY <2>1, StoreCalls, StoreAccidents DEF Store!StoreNext, Store!storeVars
<1>10. QED
  BY <1>6, <1>7, <1>8, <1>9, StoreShown

\* The answers of the store stand, however calls, damage and losses of power follow
\* each other.
LEMMA StoreAnswersStand ==
  ASSUME PathsNamed PROVE Store!StoreSpec => []Store!AnswersStand
<1>1. Store!NamesAssumed
  BY InputAssumption DEF Store!NamesAssumed, Store!Absent, PathsNamed, ExpectedPath
<1>2. Store!StoreInit => StoreInv
  BY StoreStarts
<1>3. StoreInv /\ [Store!StoreNext]_(Store!storeVars) => StoreInv'
  BY <1>1, StoreSteps
<1>4. StoreInv => Store!AnswersStand
  BY DEF StoreInv
<1>5. QED
  BY <1>2, <1>3, <1>4, PTL DEF Store!StoreSpec

\* The answers of Build and BuildStream stand: what was answered as fresh is there,
\* whole and under its path, after any crashes and losses of power.
THEOREM BuildAnswersStand ==
  ASSUME PathsNamed PROVE Spec => []Store!AnswersStand
BY BuildImplementsStore, StoreAnswersStand, PTL DEF StoreImplemented

=============================================================================
