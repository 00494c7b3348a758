----------------------------- MODULE BundleStore -----------------------------
(***************************************************************************)
(* What rag/indexbundle promises of an output root: a bundle appears whole *)
(* and at once, is never replaced, is reused only for the corpus path it   *)
(* was built for, and survives a loss of power once a build has answered   *)
(* that it is fresh.  How the directories and files behind it come about   *)
(* is the matter of BundleBuild, which implements this module.             *)
(***************************************************************************)
CONSTANTS
  Builders,    \* concurrent calls of Build and BuildStream
  BundleIds,
  IdOf,        \* IdOf[b]: the identity of the bundle b builds
  PathOf,      \* PathOf[b]: the corpus path b records in it
  Accepts      \* Accepts[b]: the stored corpus paths b takes for its own

VARIABLES
  bundle,      \* bundle[i]: the corpus path of bundle i, Absent or Damaged
  settled,     \* the bundles that survive a loss of power
  answer       \* what each call is about to answer or has answered

storeVars == <<bundle, settled, answer>>

Absent  == "absent"
Damaged == "damaged"

StoreInit ==
  /\ bundle = [i \in BundleIds |-> Absent]
  /\ settled = {}
  /\ answer = [b \in Builders |-> "none"]

Call(b) ==
  /\ answer[b] \in {"none", "fresh", "reused", "error"}
  /\ answer' = [answer EXCEPT ![b] = "working"]
  /\ UNCHANGED <<bundle, settled>>

\* The bundle appears, whole, where none was.
Publish(b) ==
  /\ answer[b] = "working" /\ bundle[IdOf[b]] = Absent
  /\ bundle' = [bundle EXCEPT ![IdOf[b]] = PathOf[b]]
  /\ answer' = [answer EXCEPT ![b] = "published"]
  /\ UNCHANGED settled

\* Publishing a bundle makes every bundle of the root that is there durable.
Settle(b) ==
  /\ answer[b] = "published"
  /\ settled' = {i \in BundleIds : bundle[i] # Absent}
  /\ UNCHANGED <<bundle, answer>>

AnswerFresh(b) ==
  /\ answer[b] = "published" /\ IdOf[b] \in settled
  /\ answer' = [answer EXCEPT ![b] = "fresh"]
  /\ UNCHANGED <<bundle, settled>>

\* A verified bundle of the caller's corpus path stands for the one it would build.
Verify(b) ==
  /\ answer[b] = "working" /\ bundle[IdOf[b]] \in Accepts[b]
  /\ answer' = [answer EXCEPT ![b] = "verified"]
  /\ UNCHANGED <<bundle, settled>>

AnswerReused(b) ==
  /\ answer[b] = "verified"
  /\ answer' = [answer EXCEPT ![b] = "reused"]
  /\ UNCHANGED <<bundle, settled>>

AnswerError(b) ==
  /\ answer[b] \in {"working", "published", "verified"}
  /\ answer' = [answer EXCEPT ![b] = "error"]
  /\ UNCHANGED <<bundle, settled>>

Die(b) ==
  /\ answer' = [answer EXCEPT ![b] = "none"]
  /\ UNCHANGED <<bundle, settled>>

Damage(i) ==
  /\ bundle[i] # Absent
  /\ bundle' = [bundle EXCEPT ![i] = Damaged]
  /\ UNCHANGED <<settled, answer>>

\* Only bundles that no build has made durable may vanish.
LosePower(lost) ==
  /\ lost \cap settled = {}
  /\ bundle' = [i \in BundleIds |-> IF i \in lost THEN Absent ELSE bundle[i]]
  /\ answer' = [b \in Builders |-> "none"]
  /\ UNCHANGED settled

StoreNext ==
  \/ \E b \in Builders :
       \/ Call(b) \/ Publish(b) \/ Settle(b) \/ AnswerFresh(b)
       \/ Verify(b) \/ AnswerReused(b) \/ AnswerError(b) \/ Die(b)
  \/ \E i \in BundleIds : Damage(i)
  \/ \E lost \in SUBSET BundleIds : LosePower(lost)

StoreSpec == StoreInit /\ [][StoreNext]_storeVars

-----------------------------------------------------------------------------
(* Properties.                                                             *)

\* The names of bundles and corpus paths are what they look like.
NamesAssumed ==
  \A b \in Builders : IdOf[b] \in BundleIds /\ PathOf[b] # Absent /\ Absent \notin Accepts[b]

\* An answer stands: the bundle of a call that has published, reused or answered for
\* one is in the store, under the path the call gave or accepts unless it has been
\* damaged, so that calls that have succeeded with one bundle accept one path; and
\* no settled bundle, which is what every fresh answer is about, ever vanishes.
AnswersStand ==
  /\ \A i \in settled : bundle[i] # Absent
  /\ \A b \in Builders :
       /\ answer[b] \in {"published", "fresh"} => bundle[IdOf[b]] \in {PathOf[b], Damaged}
       /\ answer[b] \in {"verified", "reused"} => bundle[IdOf[b]] \in Accepts[b] \cup {Damaged}
       /\ answer[b] = "fresh" => IdOf[b] \in settled

=============================================================================
