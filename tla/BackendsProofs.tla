---------------------------- MODULE BackendsProofs ----------------------------
(***************************************************************************)
(* Theorems about the stores of a bundle and the searches in them, for any *)
(* number of calls, any inputs, queries and filters, and any faults,       *)
(* crashes and alterations.                                                *)
(*                                                                         *)
(* What is published is whole because the rows a call has accepted have    *)
(* keys of their own: then no batch replaces a row, and what was committed *)
(* and what is pending are, one after the other, what was taken.  What an  *)
(* inspection reads is compared with what was planned through the order in *)
(* which both list their rows; what a search returns is the beginning of   *)
(* the order of all rows, because the heap holds the best of what it saw.  *)
(***************************************************************************)
EXTENDS Searching, CollectionTheorems, SequenceTheorems

\* A row of any table.
Row == Document \cup Chunk \cup Entry

\* The rows are the first of those that come.
Begins(rows, all) == Len(rows) <= Len(all) /\ \A n \in 1 .. Len(rows) : rows[n] = all[n]

\* The identifiers of the rows rise.
Increasing(rows) == \A n, m \in DOMAIN rows : n < m => rows[n].id < rows[m].id

\* What the tables of a call have in common with those of a database.
WellFormed(tables) ==
  /\ Unique(tables.documents) /\ Unique(tables.chunks) /\ Increasing(tables.entries)
  /\ \A n \in DOMAIN tables.chunks : HasDocument(tables.documents, tables.chunks[n])
  /\ kind = "vector" => \A n, m \in DOMAIN tables.entries :
                           tables.entries[n].width = tables.entries[m].width

\* All that call c is given.
Whole(c) == [documents |-> Stream(c, "documents"), chunks |-> Stream(c, "chunks"),
             entries |-> Stream(c, "entries")]

\* There is something in the tables, as inspections expect.
Filled(tables) ==
  IF kind = "content" THEN tables.documents # <<>> /\ tables.chunks # <<>>
  ELSE tables.entries # <<>>

\* The calls are given inputs of one kind, which they may be given.
InputInv ==
  /\ input \in [Calls -> Input]
  /\ \A c \in Calls :
       /\ input[c].kind = kind
       /\ input[c].whole => input[c].expected = Len(input[c].produced.entries)
       /\ \A t \in TableNames :
            /\ input[c].produced[t] # <<>> => (kind = "content" <=> t # "entries")
            /\ \A n \in DOMAIN input[c].produced[t] : input[c].produced[t][n].id # 0

\* The steps of all kinds.
Names == {"idle", "create", "prepare", "documents", "chunks", "entries", "identity",
          "close", "stat", "rename", "sync", "open", "returned", "dead"}

\* The steps of a call that has taken the rows of table t.
Past(t) ==
  {"identity", "close", "stat", "rename", "sync", "open"}
  \cup IF t = "documents" THEN {"chunks"} ELSE {}

\* The step of a call after step s.
After(s) ==
  CASE s = "create"    -> "prepare"
    [] s = "prepare"   -> IF kind = "content" THEN "documents" ELSE "entries"
    [] s = "documents" -> "chunks"
    [] s = "chunks"    -> "identity"
    [] s = "entries"   -> IF kind = "lexical" THEN "identity" ELSE "close"
    [] s = "identity"  -> "close"
    [] s = "close"     -> "stat"
    [] s = "stat"      -> "rename"
    [] s = "rename"    -> IF kind = "lexical" THEN "open" ELSE "sync"
    [] s = "sync"      -> IF kind = "content" THEN "returned" ELSE "open"
    [] s = "open"      -> "returned"

\* A call is at a step of its kind.
StepInv(c) ==
  /\ step[c] \in Names
  /\ kind = "content" => step[c] \notin {"entries", "open"}
  /\ kind = "vector"  => step[c] \notin {"documents", "chunks", "identity"}
  /\ kind = "lexical" => step[c] \notin {"documents", "chunks", "sync"}

\* A number of full batches of size b and p rows make n.
LeftOver(n, b, p) == \E q \in 0 .. n : n = b * q + p

\* What of the rows taken for table t is committed, and after it what is pending.
Written(c, t) == stored[c][t] \o (IF step[c] = t THEN pending[c] ELSE <<>>)

\* What a call has taken begins what it is given, is well formed and is all written.
TakenInv(c) ==
  /\ taken[c] \in Tables /\ stored[c] \in Tables /\ identity[c] \in Tables
  /\ pending[c] \in Seq(Row)
  /\ WellFormed(taken[c])
  /\ \A t \in TableNames : Begins(taken[c][t], Stream(c, t))
  /\ \A t \in TableNames : step[c] \in Past(t) => taken[c][t] = Stream(c, t)
  /\ step[c] \notin {"returned", "dead"} => \A t \in TableNames : Written(c, t) = taken[c][t]
  /\ step[c] \in {"idle", "create", "prepare"} => \A t \in TableNames : taken[c][t] = <<>>
  /\ step[c] \notin TableNames \cup {"dead"} => pending[c] = <<>>
  /\ kind = "lexical" =>
       /\ Len(pending[c]) < BatchSize
       /\ step[c] = "entries" =>
            LeftOver(Len(taken[c].entries), BatchSize, Len(pending[c]))

\* What a call that is about to publish has written: the identity and some rows.
ReadyInv(c) ==
  /\ kind # "content" =>
       /\ step[c] \notin {"idle", "returned", "dead"} => input[c].expected >= 1
       /\ step[c] \in Past("entries") => Filled(taken[c])
  /\ step[c] \in {"close", "stat", "rename"} =>
       Filled(taken[c]) /\ (kind # "vector" => identity[c] = taken[c])

CallInv(c) == StepInv(c) /\ TakenInv(c) /\ ReadyInv(c)

\* The steps at which the store of a call is open.
Filling == {"documents", "chunks", "entries", "identity", "close"}

\* The temporary of a call is there from its creation to the rename, and its store
\* open from the schema to the close; a temporary of another was left behind.
StoreInv(c) ==
  /\ c \in temporary => c \in lingering \/ step[c] \in Filling \cup {"prepare", "stat", "rename"}
  /\ step[c] \in Filling \cup {"prepare", "stat", "rename"} => c \in temporary
  /\ c \in handles =>
       \/ step[c] \in Filling
       \/ step[c] = "returned" /\ outcome[c] = "ok" /\ kind # "content"

\* What does not depend on the step of a call.
BoundsInv ==
  /\ temporary \subseteq Calls /\ handles \subseteq Calls /\ lingering \subseteq Calls
  /\ outcome \in [Calls -> {"none", "ok", "error"}]
  /\ faults \in 0 .. MaxFaults /\ accidents \in 0 .. MaxAccidents
  /\ IsFiniteSet(lingering) /\ Cardinality(lingering) <= faults + accidents

StoresInv == BoundsInv /\ \A c \in Calls : StoreInv(c)

\* What Publication yields, altered or not.
PublicationType ==
  [by : Calls, tables : Tables, identity : Tables, intact : BOOLEAN, beside : SUBSET Calls]

\* A list that has lost its last row or had it altered.
LastAltered(rows, left) ==
  LET last == Len(rows) IN
  rows # <<>> /\ left \in {SubSeq(rows, 1, last - 1), [rows EXCEPT ![last].id = 0]}

\* The tables are those of `whole` but for table t, which is altered.
AlteredIn(tables, whole, t) ==
  LastAltered(whole[t], tables[t]) /\ \A u \in TableNames \ {t} : tables[u] = whole[u]

\* A publication has what its call was given, or that altered in one place.
PublicationInv(p) ==
  /\ p \in PublicationType
  /\ Whole(p.by) \in Tables /\ WellFormed(Whole(p.by)) /\ Filled(Whole(p.by))
  /\ p.intact => p.tables = Whole(p.by) /\ (kind # "vector" => p.identity = Whole(p.by))
  /\ ~p.intact => \E t \in TableNames : AlteredIn(p.tables, Whole(p.by), t)

\* Publications replace each other only in the calls that had found none.
PublishedInv ==
  /\ published \in Seq(PublicationType)
  /\ \A n \in DOMAIN published : PublicationInv(published[n])
  /\ \A n \in 2 .. Len(published) :
       kind # "lexical" /\ \E m \in 1 .. n - 1 : published[n].by \in published[m].beside
  /\ \A c \in Calls :
       /\ step[c] = "rename" =>
            published = <<>> \/ \E m \in DOMAIN published : c \in published[m].beside
       /\ step[c] \in {"sync", "open"} \/ outcome[c] = "ok" =>
            \E n \in DOMAIN published : published[n].by = c

\* An inspection has read the beginning of what a publication lists.
ReaderInv ==
  \/ reader = Idle
  \/ /\ reader = [state |-> reader.state, index |-> reader.index, rows |-> reader.rows]
     /\ reader.state \in {"reading", "inspected", "failed"}
     /\ PublicationInv(reader.index)
     /\ Begins(reader.rows, Canonical(reader.index.tables))
     /\ reader.rows \in Seq(Row)
     /\ reader.state = "reading" /\ kind # "lexical" => reader.rows = <<>>
     /\ reader.state = "inspected" => reader.rows = Canonical(reader.index.tables)
     /\ reader.state = "failed" => ~Readable(reader.index)

\* The variables of the calls are functions of the calls.
MapsInv ==
  /\ step = [c \in Calls |-> step[c]] /\ taken = [c \in Calls |-> taken[c]]
  /\ pending = [c \in Calls |-> pending[c]] /\ stored = [c \in Calls |-> stored[c]]
  /\ identity = [c \in Calls |-> identity[c]]

\* The inductive invariant of the stores,
BuildInv ==
  /\ InputInv /\ MapsInv /\ (\A c \in Calls : CallInv(c)) /\ StoresInv /\ PublishedInv /\ ReaderInv

\* The calls are given what they may be given.
GivenInv == \A c \in Calls : input[c] \in InputsOf[c]

\* What has been scanned of the index.
Scanned == {Hit(row) : row \in Entries(asked.index) \ unscanned}

\* The heap holds the best of what was scanned.
HeapInv ==
  /\ unscanned \subseteq Entries(asked.index) /\ heap \subseteq Scanned
  /\ Cardinality(heap) <= Depth
  /\ \A h \in Scanned \ heap : Cardinality(heap) = Depth /\ heap \subseteq Before(h, Scanned)

\* What BeginSearch stores.
AskedType == [index : PublicationType, query : Query, filter : Filter, limit : Nat \ {0}]

\* An index is searched that was published.
AskedInv ==
  /\ asked \in AskedType /\ PublicationInv(asked.index)
  /\ asked.filter.by = "role" => asked.filter.depth >= 1

\* and of the searches in them.
SearchInv ==
  /\ GivenInv
  /\ \/ phase = "idle" /\ heap = {}
     \/ phase = "scanning" /\ AskedInv /\ HeapInv
     \/ phase \in {"found", "failed"}
  /\ SearchIsExact

IInv == BuildInv /\ SearchInv

-----------------------------------------------------------------------------
(* Numbers and lists.                                                      *)

\* What is left over when a number is divided.
LEMMA Remainder ==
  ASSUME NEW q \in Nat, NEW r \in Nat, NEW b \in Nat \ {0}, r < b
  PROVE  (b * q + r) % b = r
OBVIOUS

\* A batch is full when a row more makes the count divisible.
LEMMA BatchCounts ==
  ASSUME NEW n \in Nat, NEW b \in Nat \ {0}, NEW p \in Nat, p < b,
         LeftOver(n, b, p)
  PROVE  /\ ((n + 1) % b = 0 <=> p + 1 = b)
         /\ p + 1 = b => LeftOver(n + 1, b, 0)
         /\ p + 1 # b => LeftOver(n + 1, b, p + 1)
<1>1. PICK q \in 0 .. n : n = b * q + p  BY DEF LeftOver
<1>2. CASE p + 1 = b
  <2>1. n + 1 = b * (q + 1) + 0  BY <1>1, <1>2
  <2>2. (b * (q + 1) + 0) % b = 0
    <3>1. q + 1 \in Nat /\ 0 \in Nat /\ 0 < b  OBVIOUS
    <3>2. QED  BY <3>1, Remainder
  <2>3. q + 1 \in 0 .. n + 1  OBVIOUS
  <2>4. QED  BY <1>2, <2>1, <2>2, <2>3 DEF LeftOver
<1>3. CASE p + 1 # b
  <2>1. n + 1 = b * q + (p + 1)  BY <1>1
  <2>2. p + 1 \in Nat /\ p + 1 < b  BY <1>3
  <2>3. (b * q + (p + 1)) % b = p + 1  BY <2>2, Remainder
  <2>4. (n + 1) % b = p + 1  BY <2>1, <2>3
  <2>5. q \in 0 .. n + 1  OBVIOUS
  <2>6. QED  BY <1>3, <2>1, <2>2, <2>4, <2>5 DEF LeftOver
<1>4. QED  BY <1>2, <1>3

\* The members of T have identifiers.
Identified(T) == \A x \in T : x.id \in Nat

\* The pairs of places whose rows ById puts one before the other.
IdOrder(rows) ==
  {p \in (DOMAIN rows) \X (DOMAIN rows) :
    \/ rows[p[1]].id < rows[p[2]].id
    \/ rows[p[1]].id = rows[p[2]].id /\ p[1] < p[2]}

\* A pair of places is one of them if the first has the lesser identifier, or the
\* same and comes first.
LEMMA InIdOrder ==
  ASSUME NEW rows, NEW i \in DOMAIN rows, NEW j \in DOMAIN rows
  PROVE  <<i, j>> \in IdOrder(rows) <=>
           \/ rows[i].id < rows[j].id
           \/ rows[i].id = rows[j].id /\ i < j
<1>1. <<i, j>> \in (DOMAIN rows) \X (DOMAIN rows)  OBVIOUS
<1>2. <<i, j>>[1] = i /\ <<i, j>>[2] = j  OBVIOUS
<1>3. QED  BY <1>1, <1>2, Zenon DEF IdOrder

\* They rank the places of a list without ties.
LEMMA IdsOrder ==
  ASSUME NEW T, Identified(T), NEW rows \in Seq(T)
  PROVE  /\ Orders(IdOrder(rows), DOMAIN rows) /\ IsFiniteSet(DOMAIN rows)
         /\ Cardinality(DOMAIN rows) = Len(rows)
         /\ ById(rows) = Kept(rows, InOrder(DOMAIN rows, IdOrder(rows)))
<1>1. PICK n \in Nat : n = Len(rows) /\ DOMAIN rows = 1 .. n  OBVIOUS
<1>2. PICK f : f = [i \in 1 .. n |-> rows[i].id]  OBVIOUS
<1>3. \A i \in 1 .. n : rows[i].id = f[i] /\ f[i] \in Nat
  <2>1. \A i \in 1 .. n : rows[i] \in T  BY <1>1
  <2>2. QED  BY <1>2, <2>1 DEF Identified
<1>4. PICK R : R = IdOrder(rows)  OBVIOUS
<1>5. \A i, j \in 1 .. n : <<i, j>> \in R <=> f[i] < f[j] \/ (f[i] = f[j] /\ i < j)
  <2>1. SUFFICES ASSUME NEW i \in 1 .. n, NEW j \in 1 .. n
                 PROVE  <<i, j>> \in R <=> f[i] < f[j] \/ (f[i] = f[j] /\ i < j)
    OBVIOUS
  <2>2. i \in DOMAIN rows /\ j \in DOMAIN rows  BY <1>1
  <2>3. <<i, j>> \in R <=> rows[i].id < rows[j].id \/ (rows[i].id = rows[j].id /\ i < j)
    BY <1>4, <2>2, InIdOrder
  <2>4. rows[i].id = f[i] /\ rows[j].id = f[j]  BY <1>3
  <2>5. QED  BY <2>3, <2>4
<1>6. Orders(R, 1 .. n)
  <2>1. \A i \in 1 .. n : <<i, i>> \notin R  BY <1>3, <1>5
  <2>2. \A i, j \in 1 .. n : i # j => <<i, j>> \in R \/ <<j, i>> \in R  BY <1>3, <1>5
  <2>3. ASSUME NEW i \in 1 .. n, NEW j \in 1 .. n, NEW k \in 1 .. n,
               <<i, j>> \in R, <<j, k>> \in R
        PROVE  <<i, k>> \in R
    <3>1. f[i] < f[j] \/ (f[i] = f[j] /\ i < j)  BY <1>5, <2>3
    <3>2. f[j] < f[k] \/ (f[j] = f[k] /\ j < k)  BY <1>5, <2>3
    <3>3. f[i] \in Nat /\ f[j] \in Nat /\ f[k] \in Nat  BY <1>3
    <3>4. f[i] < f[k] \/ (f[i] = f[k] /\ i < k)  BY <3>1, <3>2, <3>3
    <3>5. QED  BY <1>5, <3>4
  <2>4. QED  BY <2>1, <2>2, <2>3 DEF Orders
<1>7. IsFiniteSet(1 .. n) /\ Cardinality(1 .. n) = n  BY FS_Interval
<1>8. ById(rows) = Kept(rows, InOrder(DOMAIN rows, IdOrder(rows)))  BY DEF ById, IdOrder
<1>9. QED  BY <1>1, <1>4, <1>6, <1>7, <1>8

\* Sorting by identifiers keeps the rows.
LEMMA ByIdRows ==
  ASSUME NEW T, Identified(T), NEW rows \in Seq(T)
  PROVE  /\ ById(rows) \in Seq(T) /\ Len(ById(rows)) = Len(rows)
         /\ \A n \in DOMAIN rows : \E i \in DOMAIN ById(rows) : ById(rows)[i] = rows[n]
         /\ \A i \in DOMAIN ById(rows) : \E n \in DOMAIN rows : ById(rows)[i] = rows[n]
<1>1. PICK n \in Nat : n = Len(rows) /\ DOMAIN rows = 1 .. n  OBVIOUS
<1>2. PICK q : q = InOrder(DOMAIN rows, IdOrder(rows))  OBVIOUS
<1>3. q \in Seq(1 .. n) /\ Len(q) = n /\ ToSet(q) = 1 .. n
  BY <1>1, <1>2, IdsOrder, InOrderLists
<1>4. q \in [1 .. n -> 1 .. n] /\ DOMAIN q = 1 .. n  BY <1>3
<1>5. PICK k : k = ById(rows)  OBVIOUS
<1>6. k = [i \in 1 .. n |-> rows[q[i]]]  BY <1>2, <1>4, <1>5, IdsOrder DEF Kept
<1>7. \A i \in 1 .. n : rows[q[i]] \in T  BY <1>1, <1>4
<1>8. k \in Seq(T) /\ Len(k) = n /\ DOMAIN k = 1 .. n  BY <1>6, <1>7
<1>9. \A m \in 1 .. n : \E i \in 1 .. n : q[i] = m  BY <1>3, <1>4 DEF ToSet
<1>10. \A m \in 1 .. n : \E i \in 1 .. n : k[i] = rows[m]  BY <1>6, <1>9
<1>11. \A i \in 1 .. n : \E m \in 1 .. n : k[i] = rows[m]  BY <1>4, <1>6
<1>12. QED  BY <1>1, <1>5, <1>8, <1>10, <1>11

\* What is in the order of its identifiers stays as it is.
LEMMA ByIdSorted ==
  ASSUME NEW T, Identified(T), NEW rows \in Seq(T), Increasing(rows)
  PROVE  ById(rows) = rows
<1>1. PICK n \in Nat : n = Len(rows) /\ DOMAIN rows = 1 .. n  OBVIOUS
<1>2. PICK R : R = IdOrder(rows)  OBVIOUS
<1>3. Orders(R, 1 .. n) /\ IsFiniteSet(1 .. n) /\ Cardinality(1 .. n) = n
  BY <1>1, <1>2, IdsOrder
<1>4. PICK q : q = [i \in 1 .. n |-> i]  OBVIOUS
<1>5. \A i, j \in 1 .. n : i < j => <<i, j>> \in R
  <2>1. SUFFICES ASSUME NEW i \in 1 .. n, NEW j \in 1 .. n, i < j PROVE <<i, j>> \in R
    OBVIOUS
  <2>2. rows[i].id < rows[j].id  BY <1>1, <2>1 DEF Increasing
  <2>3. QED  BY <1>1, <1>2, <2>2, InIdOrder
<1>6. Lists(q, 1 .. n, R)  BY <1>3, <1>4, <1>5 DEF Lists
<1>7. q = InOrder(1 .. n, R)  BY <1>3, <1>6, ListIsInOrder
<1>8. Kept(rows, q) = [i \in 1 .. n |-> rows[i]]  BY <1>4 DEF Kept
<1>9. rows = [i \in 1 .. n |-> rows[i]]  BY <1>1
<1>10. QED  BY <1>1, <1>2, <1>7, <1>8, <1>9, IdsOrder

\* A batch of new keys goes behind what is there.
LEMMA CommitAppends ==
  ASSUME NEW s \in Seq(Row), NEW b \in Seq(Row), Unique(s \o b)
  PROVE  Commit(s, b) = s \o b
<1>1. PICK n \in Nat : n = Len(s) /\ DOMAIN s = 1 .. n  OBVIOUS
<1>2. PICK m \in Nat : m = Len(b) /\ DOMAIN b = 1 .. m  OBVIOUS
<1>3. PICK w : w = s \o b  OBVIOUS
<1>4. /\ DOMAIN w = 1 .. n + m /\ \A i \in 1 .. n : w[i] = s[i]
      /\ \A i \in 1 .. m : w[n + i] = b[i]
  <2>1. Len(w) = n + m /\ w \in Seq(Row)  BY <1>1, <1>2, <1>3, ConcatProperties
  <2>2. DOMAIN w = 1 .. n + m  BY <2>1
  <2>3. \A i \in 1 .. n : w[i] = s[i]  BY <1>1, <1>2, <1>3
  <2>4. \A i \in 1 .. m : w[n + i] = b[i]  BY <1>1, <1>2, <1>3
  <2>5. QED  BY <2>2, <2>3, <2>4
<1>5. ASSUME NEW i \in 1 .. n, NEW j \in 1 .. m PROVE b[j].id # s[i].id
  <2>1. n + j \in DOMAIN w /\ i \in DOMAIN w  BY <1>4
  <2>2. w[n + j].id = w[i].id => n + j = i  BY <1>3, <2>1 DEF Unique
  <2>3. w[n + j] = b[j] /\ w[i] = s[i] /\ n + j # i  BY <1>4
  <2>4. QED  BY <2>2, <2>3
<1>6. \A i \in 1 .. n : NewKey(b, s[i])  BY <1>2, <1>5 DEF NewKey, RowsOf
<1>7. {i \in DOMAIN s : NewKey(b, s[i])} = DOMAIN s  BY <1>1, <1>6
<1>8. Kept(s, Ascending(DOMAIN s)) = s  BY KeptAll
<1>9. QED  BY <1>7, <1>8 DEF Commit

\* Two lists one after the other.
LEMMA Concatenated ==
  ASSUME NEW T, NEW s \in Seq(T), NEW b \in Seq(T)
  PROVE  /\ s \o b \in Seq(T) /\ Len(s \o b) = Len(s) + Len(b)
         /\ \A i \in 1 .. Len(s) : (s \o b)[i] = s[i]
         /\ \A i \in 1 .. Len(b) : (s \o b)[Len(s) + i] = b[i]
<1>1. s \o b \in Seq(T) /\ Len(s \o b) = Len(s) + Len(b)  BY ConcatProperties
<1>2. QED  BY <1>1

\* What goes behind a list that goes behind another.
LEMMA AppendBehind ==
  ASSUME NEW T, NEW s \in Seq(T), NEW b \in Seq(T), NEW r \in T
  PROVE  /\ s \o Append(b, r) = Append(s \o b, r)
         /\ b \o <<r>> = Append(b, r)
         /\ s \o <<>> = s
OBVIOUS

-----------------------------------------------------------------------------
(* Tables and what the calls are given.                                    *)

\* The rows of table t.
RowOf(t) == IF t = "documents" THEN Document ELSE IF t = "chunks" THEN Chunk ELSE Entry

\* Rows have identifiers.
LEMMA RowsIdentified ==
  /\ Identified(Row) /\ Identified(Document) /\ Identified(Chunk) /\ Identified(Entry)
  /\ \A t : RowOf(t) \subseteq Row /\ Identified(RowOf(t))
BY DEF Identified, Row, RowOf, Document, Chunk, Entry

\* A list of some rows is a list of rows.
LEMMA SeqRows ==
  ASSUME NEW t, NEW s \in Seq(RowOf(t)) PROVE s \in Seq(Row)
<1>1. PICK T : T = RowOf(t)  OBVIOUS
<1>2. T \subseteq Row  BY <1>1, RowsIdentified
<1>3. s \in Seq(T) /\ Len(s) \in Nat /\ DOMAIN s = 1 .. Len(s)  BY <1>1
<1>4. \A i \in 1 .. Len(s) : s[i] \in Row  BY <1>2, <1>3
<1>5. QED  BY <1>3, <1>4

\* A table of Tables, and what becomes of them when one changes.
LEMMA TableRows ==
  ASSUME NEW T \in Tables, NEW t \in TableNames
  PROVE  /\ T[t] \in Seq(RowOf(t)) /\ T[t] \in Seq(Row)
         /\ \A s \in Seq(RowOf(t)) :
              /\ [T EXCEPT ![t] = s] \in Tables /\ [T EXCEPT ![t] = s][t] = s
              /\ \A u \in TableNames \ {t} : [T EXCEPT ![t] = s][u] = T[u]
<1>1. PICK D : D = Seq(Document)  OBVIOUS
<1>2. PICK C : C = Seq(Chunk)  OBVIOUS
<1>3. PICK N : N = Seq(Entry)  OBVIOUS
<1>4. Tables = [documents : D, chunks : C, entries : N]
  BY <1>1, <1>2, <1>3 DEF Tables
<1>5. CASE t = "documents"
  <2>1. T[t] \in D  BY <1>4, <1>5
  <2>2. RowOf(t) = Document  BY <1>5 DEF RowOf
  <2>3. T[t] \in Seq(RowOf(t))  BY <1>1, <2>1, <2>2
  <2>4. ASSUME NEW s \in D
        PROVE  /\ [T EXCEPT ![t] = s] \in Tables /\ [T EXCEPT ![t] = s][t] = s
               /\ \A u \in TableNames \ {t} : [T EXCEPT ![t] = s][u] = T[u]
    BY <1>4, <1>5 DEF TableNames
  <2>5. QED  BY <1>1, <2>2, <2>3, <2>4, SeqRows
<1>6. CASE t = "chunks"
  <2>1. T[t] \in C  BY <1>4, <1>6
  <2>2. RowOf(t) = Chunk  BY <1>6 DEF RowOf
  <2>3. T[t] \in Seq(RowOf(t))  BY <1>2, <2>1, <2>2
  <2>4. ASSUME NEW s \in C
        PROVE  /\ [T EXCEPT ![t] = s] \in Tables /\ [T EXCEPT ![t] = s][t] = s
               /\ \A u \in TableNames \ {t} : [T EXCEPT ![t] = s][u] = T[u]
    BY <1>4, <1>6 DEF TableNames
  <2>5. QED  BY <1>2, <2>2, <2>3, <2>4, SeqRows
<1>7. CASE t = "entries"
  <2>1. T[t] \in N  BY <1>4, <1>7
  <2>2. RowOf(t) = Entry  BY <1>7 DEF RowOf
  <2>3. T[t] \in Seq(RowOf(t))  BY <1>3, <2>1, <2>2
  <2>4. ASSUME NEW s \in N
        PROVE  /\ [T EXCEPT ![t] = s] \in Tables /\ [T EXCEPT ![t] = s][t] = s
               /\ \A u \in TableNames \ {t} : [T EXCEPT ![t] = s][u] = T[u]
    BY <1>4, <1>7 DEF TableNames
  <2>5. QED  BY <1>3, <2>2, <2>3, <2>4, SeqRows
<1>8. QED  BY <1>5, <1>6, <1>7 DEF TableNames

\* Two sets of tables with the same rows.
LEMMA SameTables ==
  ASSUME NEW T \in Tables, NEW U \in Tables, \A t \in TableNames : T[t] = U[t]
  PROVE  T = U
<1>1. PICK D : D = Seq(Document)  OBVIOUS
<1>2. PICK C : C = Seq(Chunk)  OBVIOUS
<1>3. PICK N : N = Seq(Entry)  OBVIOUS
<1>4. Tables = [documents : D, chunks : C, entries : N]
  BY <1>1, <1>2, <1>3 DEF Tables
<1>5. QED  BY <1>4 DEF TableNames

\* Tables without rows.
LEMMA NoRowsTables ==
  /\ NoRows \in Tables /\ \A t \in TableNames : NoRows[t] = <<>>
<1>1. PICK D : D = Seq(Document) /\ <<>> \in D  BY EmptySeq
<1>2. PICK C : C = Seq(Chunk) /\ <<>> \in C  BY EmptySeq
<1>3. PICK N : N = Seq(Entry) /\ <<>> \in N  BY EmptySeq
<1>4. Tables = [documents : D, chunks : C, entries : N]
  BY <1>1, <1>2, <1>3 DEF Tables
<1>5. NoRows = [documents |-> <<>>, chunks |-> <<>>, entries |-> <<>>]
  BY DEF NoRows, TableNames
<1>6. NoRows \in Tables  BY <1>1, <1>2, <1>3, <1>4, <1>5
<1>7. QED  BY <1>6 DEF NoRows

\* What comes for the tables of a call.
LEMMA StreamIs ==
  ASSUME InputInv, NEW c \in Calls
  PROVE  /\ Whole(c) \in Tables /\ \A t \in TableNames : Whole(c)[t] = Stream(c, t)
         /\ input[c].produced \in Tables
         /\ \A t \in TableNames : Stream(c, t) \in Seq(RowOf(t)) /\ Stream(c, t) \in Seq(Row)
         /\ \A t \in {"documents", "chunks"} : Stream(c, t) = input[c].produced[t]
         /\ Stream(c, "entries") = IF input[c].whole THEN ById(input[c].produced.entries)
                                   ELSE input[c].produced.entries
         /\ input[c].whole => input[c].expected = Len(Stream(c, "entries"))
         /\ \A t \in TableNames : \A n \in DOMAIN Stream(c, t) : Stream(c, t)[n].id \in Nat \ {0}
         /\ kind = "content" => Stream(c, "entries") = <<>>
         /\ kind # "content" => Stream(c, "documents") = <<>> /\ Stream(c, "chunks") = <<>>
<1>1. PICK produced \in Tables : produced = input[c].produced
  BY DEF InputInv, Input
<1>2. PICK entries : entries = produced.entries  OBVIOUS
<1>3. /\ entries \in Seq(Entry)
      /\ \A n \in DOMAIN entries : entries[n] \in Entry /\ entries[n].id # 0
      /\ entries # <<>> => kind # "content"
  <2>1. entries \in Seq(Entry)  BY <1>2 DEF Tables
  <2>2. \A n \in DOMAIN entries : entries[n] \in Entry  BY <2>1
  <2>3. produced["entries"] = entries /\ "entries" \in TableNames  BY <1>2 DEF TableNames
  <2>4. \A n \in DOMAIN entries : entries[n].id # 0  BY <1>1, <2>3 DEF InputInv
  <2>5. entries # <<>> => kind # "content"  BY <1>1, <2>3 DEF InputInv
  <2>6. QED  BY <2>1, <2>2, <2>4, <2>5
<1>4. PICK sorted : sorted = Stream(c, "entries")  OBVIOUS
<1>5. sorted = IF input[c].whole THEN ById(entries) ELSE entries
  BY <1>1, <1>2, <1>4 DEF Stream
<1>6. /\ sorted \in Seq(Entry) /\ Len(sorted) = Len(entries)
      /\ \A i \in DOMAIN sorted : \E n \in DOMAIN entries : sorted[i] = entries[n]
  BY <1>3, <1>5, ByIdRows, RowsIdentified
<1>7. \A i \in DOMAIN sorted : sorted[i].id \in Nat \ {0}
  <2>1. \A n \in DOMAIN entries : entries[n].id \in Nat \ {0}
    BY <1>3, RowsIdentified DEF Identified
  <2>2. QED  BY <1>6, <2>1
<1>8. entries = <<>> => sorted = <<>>  BY <1>3, <1>6
<1>9. \A t \in {"documents", "chunks"} :
        /\ Stream(c, t) = produced[t] /\ t \in TableNames
        /\ produced[t] # <<>> => kind = "content"
        /\ \A n \in DOMAIN produced[t] : produced[t][n].id # 0
  BY <1>1 DEF Stream, InputInv, TableNames
<1>10. \A t \in {"documents", "chunks"} :
         /\ Stream(c, t) \in Seq(RowOf(t)) /\ Stream(c, t) \in Seq(Row)
  BY <1>1, <1>9, TableRows
<1>11. \A t \in {"documents", "chunks"} : \A n \in DOMAIN Stream(c, t) :
         Stream(c, t)[n].id \in Nat \ {0}
  <2>1. SUFFICES ASSUME NEW t \in {"documents", "chunks"}, NEW n \in DOMAIN Stream(c, t)
                 PROVE  Stream(c, t)[n].id \in Nat \ {0}
    OBVIOUS
  <2>2. PICK s \in Seq(Row) : s = Stream(c, t)  BY <1>10
  <2>3. s[n] \in Row  BY <2>1, <2>2
  <2>4. s[n].id # 0  BY <1>9, <2>1, <2>2
  <2>5. QED  BY <2>2, <2>3, <2>4, RowsIdentified DEF Identified
<1>12. sorted \in Seq(RowOf("entries")) /\ sorted \in Seq(Row)
  <2>1. RowOf("entries") = Entry  BY DEF RowOf
  <2>2. QED  BY <1>6, <2>1, SeqRows
<1>13. Whole(c) \in Tables /\ \A t \in TableNames : Whole(c)[t] = Stream(c, t)
  <2>1. PICK d, k : d = Stream(c, "documents") /\ k = Stream(c, "chunks")  OBVIOUS
  <2>2. d \in Seq(Document) /\ k \in Seq(Chunk)  BY <1>10, <2>1 DEF RowOf
  <2>3. Whole(c) = [documents |-> d, chunks |-> k, entries |-> sorted]
    BY <1>4, <2>1 DEF Whole
  <2>4. Whole(c) \in Tables  BY <1>6, <2>2, <2>3 DEF Tables
  <2>5. QED  BY <1>4, <2>1, <2>3, <2>4 DEF TableNames
<1>14. input[c].whole => input[c].expected = Len(sorted)  BY <1>1, <1>2, <1>6 DEF InputInv
<1>15. QED
  BY <1>1, <1>2, <1>3, <1>4, <1>5, <1>7, <1>8, <1>9, <1>10, <1>11, <1>12, <1>13, <1>14
  DEF TableNames

-----------------------------------------------------------------------------
(* How a call goes on, and what a step of another leaves it.               *)

\* A call that goes on is at the next step of its kind, or has succeeded.
LEMMA ContinueMoves ==
  ASSUME NEW c \in Calls, StepInv(c), kind \in Kinds,
         step[c] \notin {"idle", "returned", "dead"}, Continue(c)
  PROVE  /\ step' = [step EXCEPT ![c] = After(step[c])]
         /\ outcome' = IF After(step[c]) = "returned" THEN [outcome EXCEPT ![c] = "ok"] ELSE outcome
<1>1. CASE kind = "content"
  <2>1. PICK steps : steps = <<"create", "prepare", "documents", "chunks", "identity", "close",
                               "stat", "rename", "sync">>
    OBVIOUS
  <2>2. Steps = steps  BY <1>1, <2>1 DEF Steps
  <2>3. PICK at : at = CHOOSE n \in 1 .. 9 : steps[n] = step[c]  OBVIOUS
  <2>4. at \in 1 .. 9 /\ steps[at] = step[c]  BY <1>1, <2>1, <2>3 DEF StepInv, Names
  <2>5. at = 9 => step' = [step EXCEPT ![c] = "returned"] /\ outcome' = [outcome EXCEPT ![c] = "ok"]
    BY <2>1, <2>2, <2>3 DEF Continue
  <2>6. at # 9 => step' = [step EXCEPT ![c] = steps[at + 1]] /\ outcome' = outcome
    BY <2>1, <2>2, <2>3 DEF Continue
  <2>7. QED  BY <1>1, <2>1, <2>4, <2>5, <2>6 DEF After
<1>2. CASE kind = "vector"
  <2>1. PICK steps : steps = <<"create", "prepare", "entries", "close", "stat", "rename",
                               "sync", "open">>
    OBVIOUS
  <2>2. Steps = steps  BY <1>2, <2>1 DEF Steps
  <2>3. PICK at : at = CHOOSE n \in 1 .. 8 : steps[n] = step[c]  OBVIOUS
  <2>4. at \in 1 .. 8 /\ steps[at] = step[c]  BY <1>2, <2>1, <2>3 DEF StepInv, Names
  <2>5. at = 8 => step' = [step EXCEPT ![c] = "returned"] /\ outcome' = [outcome EXCEPT ![c] = "ok"]
    BY <2>1, <2>2, <2>3 DEF Continue
  <2>6. at # 8 => step' = [step EXCEPT ![c] = steps[at + 1]] /\ outcome' = outcome
    BY <2>1, <2>2, <2>3 DEF Continue
  <2>7. QED  BY <1>2, <2>1, <2>4, <2>5, <2>6 DEF After
<1>3. CASE kind = "lexical"
  <2>1. PICK steps : steps = <<"create", "prepare", "entries", "identity", "close", "stat",
                               "rename", "open">>
    OBVIOUS
  <2>2. Steps = steps  BY <1>3, <2>1 DEF Steps
  <2>3. PICK at : at = CHOOSE n \in 1 .. 8 : steps[n] = step[c]  OBVIOUS
  <2>4. at \in 1 .. 8 /\ steps[at] = step[c]  BY <1>3, <2>1, <2>3 DEF StepInv, Names
  <2>5. at = 8 => step' = [step EXCEPT ![c] = "returned"] /\ outcome' = [outcome EXCEPT ![c] = "ok"]
    BY <2>1, <2>2, <2>3 DEF Continue
  <2>6. at # 8 => step' = [step EXCEPT ![c] = steps[at + 1]] /\ outcome' = outcome
    BY <2>1, <2>2, <2>3 DEF Continue
  <2>7. QED  BY <1>3, <2>1, <2>4, <2>5, <2>6 DEF After
<1>4. QED  BY <1>1, <1>2, <1>3 DEF Kinds

\* What is said of inputs alone stays.
LEMMA InputFrame ==
  ASSUME input' = input
  PROVE  /\ kind' = kind /\ (InputInv => InputInv')
         /\ \A c, t : Stream(c, t)' = Stream(c, t)
         /\ \A c : Whole(c)' = Whole(c) /\ Planned(c)' = Planned(c)
         /\ \A T : (WellFormed(T)' <=> WellFormed(T)) /\ (Filled(T)' <=> Filled(T))
         /\ \A p : PublicationInv(p)' <=> PublicationInv(p)
         /\ \A p : Readable(p)' <=> Readable(p)
<1>1. kind' = kind  BY DEF kind
<1>2. \A c, t : Stream(c, t)' = Stream(c, t)  BY DEF Stream
<1>3. \A c : Whole(c)' = Whole(c) /\ Planned(c)' = Planned(c)  BY <1>2 DEF Whole, Planned
<1>4. \A T : (WellFormed(T)' <=> WellFormed(T)) /\ (Filled(T)' <=> Filled(T))
  BY <1>1 DEF WellFormed, Filled
<1>5. InputInv => InputInv'  BY <1>1 DEF InputInv
<1>6. \A p : PublicationInv(p)' <=> PublicationInv(p)
  BY <1>1, <1>3, <1>4 DEF PublicationInv
<1>7. \A p : Readable(p)' <=> Readable(p)  BY <1>1 DEF Readable
<1>8. QED  BY <1>1, <1>2, <1>3, <1>4, <1>5, <1>6, <1>7

\* What is said of a call is about its own variables.
LEMMA CallFrame ==
  ASSUME input' = input, NEW c \in Calls, CallInv(c), step'[c] = step[c], taken'[c] = taken[c],
         pending'[c] = pending[c], stored'[c] = stored[c], identity'[c] = identity[c]
  PROVE  CallInv(c)'
<1>1. kind' = kind /\ \A t : Stream(c, t)' = Stream(c, t)  BY InputFrame
<1>2. \A T : (WellFormed(T)' <=> WellFormed(T)) /\ (Filled(T)' <=> Filled(T))  BY InputFrame
<1>3. StepInv(c)'  BY <1>1 DEF CallInv, StepInv
<1>4. TakenInv(c)'
  <2>1. WellFormed(taken[c])'  BY <1>2 DEF CallInv, TakenInv
  <2>2. \A t : Written(c, t)' = Written(c, t)  BY DEF Written
  <2>3. QED  BY <1>1, <2>1, <2>2 DEF CallInv, TakenInv
<1>5. ReadyInv(c)'
  <2>1. Filled(taken[c])' <=> Filled(taken[c])  BY <1>2
  <2>2. QED  BY <1>1, <2>1 DEF CallInv, ReadyInv
<1>6. QED  BY <1>3, <1>4, <1>5 DEF CallInv

-----------------------------------------------------------------------------
(* What a step leaves of the call that takes it.                           *)

\* A call is accepted with something to expect.
LEMMA StartLeaves ==
  ASSUME InputInv, NEW c \in Calls, CallInv(c), input' = input, step[c] = "idle",
         step'[c] = "returned" \/ (Startable(c) /\ step'[c] = Steps[1]),
         taken'[c] = taken[c], pending'[c] = pending[c], stored'[c] = stored[c],
         identity'[c] = identity[c]
  PROVE  CallInv(c)'
<1>1. kind' = kind /\ kind \in Kinds /\ \A t : Stream(c, t)' = Stream(c, t)
  BY InputFrame DEF InputInv, Input
<1>2. WellFormed(taken[c])' /\ (Filled(taken[c])' <=> Filled(taken[c]))
  BY InputFrame DEF CallInv, TakenInv
<1>3. step'[c] \in {"create", "returned"}  BY <1>1 DEF Steps, Kinds
<1>4. StepInv(c)'  BY <1>1, <1>3 DEF StepInv, Names
<1>5. TakenInv(c)'
  <2>1. \A t \in TableNames : Written(c, t)' = Written(c, t)
    BY <1>3 DEF Written, TableNames
  <2>2. \A t \in TableNames : step'[c] \notin Past(t)  BY <1>3 DEF Past
  <2>3. pending[c] = <<>> /\ \A t \in TableNames : taken[c][t] = <<>>
    BY DEF CallInv, TakenInv, TableNames
  <2>4. step'[c] \notin {"entries", "dead"}  BY <1>3
  <2>5. \A t \in TableNames : Written(c, t) = taken[c][t]  BY DEF CallInv, TakenInv
  <2>6. QED  BY <1>1, <1>2, <2>1, <2>2, <2>3, <2>4, <2>5 DEF CallInv, TakenInv
<1>6. ReadyInv(c)'  BY <1>1, <1>2, <1>3 DEF CallInv, ReadyInv, Startable, Past
<1>7. QED  BY <1>4, <1>5, <1>6 DEF CallInv

\* A call that goes on without touching rows or identity.
LEMMA MoveLeaves ==
  ASSUME InputInv, NEW c \in Calls, CallInv(c), input' = input,
         step[c] \in {"create", "prepare", "close", "stat", "rename", "sync", "open"},
         step'[c] = After(step[c]),
         taken'[c] = taken[c], pending'[c] = pending[c], stored'[c] = stored[c],
         identity'[c] = identity[c]
  PROVE  CallInv(c)'
<1>1. kind' = kind /\ kind \in Kinds /\ \A t : Stream(c, t)' = Stream(c, t)
  BY InputFrame DEF InputInv, Input
<1>2. WellFormed(taken[c])' /\ (Filled(taken[c])' <=> Filled(taken[c]))
  BY InputFrame DEF CallInv, TakenInv
<1>3. StepInv(c)'  BY <1>1 DEF StepInv, CallInv, After, Names, Kinds
<1>4. TakenInv(c)'
  <2>1. pending[c] = <<>>  BY DEF CallInv, TakenInv, TableNames
  <2>2. ASSUME NEW t \in TableNames PROVE Written(c, t)' = Written(c, t)
    BY <2>1 DEF Written
  <2>3. ASSUME NEW t \in TableNames, step'[c] \in Past(t) PROVE step[c] \in Past(t)
    BY <2>3 DEF Past, After, Kinds
  <2>4. step'[c] \notin {"idle", "create", "dead"}  BY DEF After
  <2>5. step'[c] = "prepare" => step[c] = "create"  BY <1>1 DEF After, Kinds
  <2>6. step'[c] = "entries" => step[c] = "prepare"  BY <1>1 DEF After, Kinds
  <2>7. step'[c] = "entries" => taken[c].entries = <<>>
    BY <2>6 DEF CallInv, TakenInv, TableNames
  <2>8. LeftOver(Len(<<>>), BatchSize, Len(<<>>))
    BY SizeAssumption DEF LeftOver
  <2>9. QED
    BY <1>1, <1>2, <2>1, <2>2, <2>3, <2>4, <2>5, <2>6, <2>7, <2>8 DEF CallInv, TakenInv
<1>5. ReadyInv(c)'
  <2>1. step'[c] \in Past("entries") => step[c] \in Past("entries")
    BY <1>1 DEF Past, After, Kinds
  <2>2. step'[c] \in {"close", "stat", "rename"} => step[c] \in {"close", "stat"}
    BY <1>1 DEF After, Kinds
  <2>3. QED  BY <1>1, <1>2, <2>1, <2>2 DEF CallInv, ReadyInv
<1>6. QED  BY <1>3, <1>4, <1>5 DEF CallInv

\* A call that has ended, or whose process has died.
LEMMA HaltLeaves ==
  ASSUME NEW c \in Calls, CallInv(c), input' = input,
         \/ step'[c] = "returned" /\ pending'[c] = <<>>
         \/ step'[c] = "dead" /\ pending'[c] = pending[c],
         taken'[c] = taken[c], stored'[c] = stored[c], identity'[c] = identity[c]
  PROVE  CallInv(c)'
<1>1. kind' = kind /\ \A t : Stream(c, t)' = Stream(c, t)  BY InputFrame
<1>2. WellFormed(taken[c])'  BY InputFrame DEF CallInv, TakenInv
<1>3. StepInv(c)'  BY <1>1 DEF StepInv, Names
<1>4. TakenInv(c)'
  <2>1. \A t \in TableNames : step'[c] \notin Past(t)  BY DEF Past
  <2>2. <<>> \in Seq(Row) /\ Len(<<>>) = 0  BY EmptySeq
  <2>3. Len(<<>>) < BatchSize  BY <2>2, SizeAssumption
  <2>4. QED  BY <1>1, <1>2, <2>1, <2>2, <2>3 DEF CallInv, TakenInv
<1>5. ReadyInv(c)'  BY <1>1 DEF ReadyInv, Past
<1>6. QED  BY <1>3, <1>4, <1>5 DEF CallInv

\* The identity of a call that has taken all rows is that of the rows.
LEMMA IdentityLeaves ==
  ASSUME InputInv, NEW c \in Calls, CallInv(c), input' = input, step[c] = "identity",
         ~(kind = "content" /\ (taken[c].documents = <<>> \/ taken[c].chunks = <<>>)),
         step'[c] = "close", identity'[c] = taken[c],
         taken'[c] = taken[c], pending'[c] = pending[c], stored'[c] = stored[c]
  PROVE  CallInv(c)'
<1>1. kind' = kind /\ \A t : Stream(c, t)' = Stream(c, t)  BY InputFrame
<1>2. WellFormed(taken[c])' /\ (Filled(taken[c])' <=> Filled(taken[c]))
  BY InputFrame DEF CallInv, TakenInv
<1>3. StepInv(c)'  BY <1>1 DEF StepInv, CallInv, Names
<1>4. TakenInv(c)'
  <2>1. \A t \in TableNames : Written(c, t)' = Written(c, t)
    BY DEF Written, TableNames
  <2>2. \A t \in TableNames : step[c] \in Past(t)  BY DEF Past
  <2>3. pending[c] = <<>>  BY DEF CallInv, TakenInv, TableNames
  <2>4. QED  BY <1>1, <1>2, <2>1, <2>2, <2>3 DEF CallInv, TakenInv
<1>5. ReadyInv(c)'
  <2>1. Filled(taken[c])  BY DEF CallInv, ReadyInv, Filled, Past
  <2>2. QED  BY <1>1, <1>2, <2>1 DEF CallInv, ReadyInv, Past
<1>6. QED  BY <1>3, <1>4, <1>5 DEF CallInv

-----------------------------------------------------------------------------
(* Taking rows and committing them.                                        *)

\* Rows in the order of their identifiers have keys of their own.
LEMMA IncreasingUnique ==
  ASSUME NEW T, Identified(T), NEW s \in Seq(T), Increasing(s)
  PROVE  Unique(s)
<1>1. SUFFICES ASSUME NEW n \in DOMAIN s, NEW m \in DOMAIN s, s[n].id = s[m].id, n # m
               PROVE  FALSE
  BY DEF Unique
<1>2. s[n].id \in Nat /\ s[m].id \in Nat  BY DEF Identified
<1>3. n \in Nat /\ m \in Nat  OBVIOUS
<1>4. s[n].id < s[m].id \/ s[m].id < s[n].id  BY <1>1, <1>3 DEF Increasing
<1>5. QED  BY <1>1, <1>2, <1>4

\* So have those behind others.
LEMMA UniqueBehind ==
  ASSUME NEW s \in Seq(Row), NEW b \in Seq(Row), Unique(s \o b)
  PROVE  Unique(b)
<1>1. PICK n \in Nat : n = Len(s)  OBVIOUS
<1>2. PICK m \in Nat : m = Len(b) /\ DOMAIN b = 1 .. m  OBVIOUS
<1>3. PICK w \in Seq(Row) : w = s \o b  BY Concatenated
<1>4. Len(w) = n + m /\ \A i \in 1 .. m : w[n + i] = b[i]  BY <1>1, <1>2, <1>3, Concatenated
<1>5. DOMAIN w = 1 .. n + m  BY <1>3, <1>4
<1>6. \A i \in 1 .. m : n + i \in DOMAIN w  BY <1>5
<1>7. SUFFICES ASSUME NEW i \in 1 .. m, NEW j \in 1 .. m, b[i].id = b[j].id PROVE i = j
  BY <1>2 DEF Unique
<1>8. w[n + i].id = w[n + j].id  BY <1>4, <1>7
<1>9. n + i = n + j  BY <1>3, <1>6, <1>8 DEF Unique
<1>10. QED  BY <1>9

\* The first elements of an appended list.
LEMMA Appended ==
  ASSUME NEW T, NEW s \in Seq(T), NEW r \in T
  PROVE  /\ Append(s, r) \in Seq(T) /\ Len(Append(s, r)) = Len(s) + 1
         /\ DOMAIN Append(s, r) = 1 .. Len(s) + 1 /\ DOMAIN s = 1 .. Len(s)
         /\ \A i \in 1 .. Len(s) : Append(s, r)[i] = s[i]
         /\ Append(s, r)[Len(s) + 1] = r
<1>1. Append(s, r) \in Seq(T) /\ Len(Append(s, r)) = Len(s) + 1  BY AppendProperties
<1>2. QED  BY <1>1, AppendProperties

\* A row of a new key.
LEMMA UniqueAppended ==
  ASSUME NEW T, NEW s \in Seq(T), NEW r \in T, Unique(s), NewKey(s, r)
  PROVE  Unique(Append(s, r))
<1>1. PICK n \in Nat : n = Len(s) /\ DOMAIN s = 1 .. n  OBVIOUS
<1>2. PICK w : w = Append(s, r)  OBVIOUS
<1>3. DOMAIN w = 1 .. n + 1 /\ (\A i \in 1 .. n : w[i] = s[i]) /\ w[n + 1] = r
  BY <1>1, <1>2, Appended
<1>4. \A i \in 1 .. n : s[i].id # r.id  BY <1>1 DEF NewKey, RowsOf
<1>5. SUFFICES ASSUME NEW i \in 1 .. n + 1, NEW j \in 1 .. n + 1, w[i].id = w[j].id
               PROVE  i = j
  BY <1>2, <1>3 DEF Unique
<1>6. CASE i \in 1 .. n /\ j \in 1 .. n
  <2>1. s[i].id = s[j].id  BY <1>3, <1>5, <1>6
  <2>2. QED  BY <1>1, <1>6, <2>1 DEF Unique
<1>7. CASE i = n + 1 /\ j \in 1 .. n  BY <1>3, <1>4, <1>5, <1>7
<1>8. CASE j = n + 1 /\ i \in 1 .. n  BY <1>3, <1>4, <1>5, <1>8
<1>9. QED  BY <1>6, <1>7, <1>8

\* Tables stay well formed when an admissible row is added.
LEMMA AdmissibleKeeps ==
  ASSUME InputInv, NEW c \in Calls, CallInv(c), NEW t \in TableNames, step[c] = t,
         NEW row \in RowOf(t), Admissible(c, t, row)
  PROVE  /\ [taken[c] EXCEPT ![t] = Append(taken[c][t], row)] \in Tables
         /\ WellFormed([taken[c] EXCEPT ![t] = Append(taken[c][t], row)])
         /\ Unique(Append(taken[c][t], row))
<1>1. PICK T \in Tables : T = taken[c]  BY DEF CallInv, TakenInv
<1>2. PICK rows : rows = T[t]  OBVIOUS
<1>3. rows \in Seq(RowOf(t)) /\ rows \in Seq(Row)  BY <1>2, TableRows
<1>4. PICK new : new = Append(rows, row)  OBVIOUS
<1>5. new \in Seq(RowOf(t))  BY <1>3, <1>4, Appended
<1>6. PICK U : U = [T EXCEPT ![t] = new]  OBVIOUS
<1>7. U \in Tables /\ U[t] = new /\ \A u \in TableNames \ {t} : U[u] = T[u]
  BY <1>1, <1>5, <1>6, TableRows
<1>8. WellFormed(T)  BY <1>1 DEF CallInv, TakenInv
<1>9. PICK n \in Nat : n = Len(rows) /\ DOMAIN rows = 1 .. n  BY <1>3
<1>10. DOMAIN new = 1 .. n + 1 /\ (\A i \in 1 .. n : new[i] = rows[i]) /\ new[n + 1] = row
  BY <1>3, <1>4, <1>9, Appended
<1>11. CASE t = "documents"
  <2>1. rows = T.documents /\ U.documents = new /\ U.chunks = T.chunks /\ U.entries = T.entries
    BY <1>2, <1>7, <1>11 DEF TableNames
  <2>2. Unique(new)
    BY <1>1, <1>3, <1>4, <1>8, <1>11, <2>1, UniqueAppended
    DEF WellFormed, Admissible, AdmissibleDocument
  <2>3. ASSUME NEW k, HasDocument(rows, k) PROVE HasDocument(new, k)
    BY <2>3, <1>9, <1>10 DEF HasDocument, RowsOf
  <2>4. WellFormed(U)  BY <1>8, <2>1, <2>2, <2>3 DEF WellFormed
  <2>5. QED  BY <1>1, <1>2, <1>4, <1>6, <1>7, <2>2, <2>4
<1>12. CASE t = "chunks"
  <2>1. rows = T.chunks /\ U.chunks = new /\ U.documents = T.documents /\ U.entries = T.entries
    BY <1>2, <1>7, <1>12 DEF TableNames
  <2>2. AdmissibleChunk(c, row)  BY <1>12 DEF Admissible
  <2>3. Unique(new)
    BY <1>1, <1>3, <1>4, <1>8, <2>1, <2>2, UniqueAppended DEF WellFormed, AdmissibleChunk
  <2>4. stored[c].documents = T.documents
    <3>1. "documents" \in TableNames /\ stored[c] \in Tables
      BY DEF TableNames, CallInv, TakenInv
    <3>2. stored[c]["documents"] \in Seq(Row)  BY <3>1, TableRows
    <3>3. Written(c, "documents") = stored[c]["documents"] \o <<>>  BY <1>12 DEF Written
    <3>4. Written(c, "documents") = T["documents"]
      BY <1>1, <1>12, <3>1 DEF CallInv, TakenInv
    <3>5. QED  BY <3>2, <3>3, <3>4
  <2>5. HasDocument(T.documents, row)  BY <2>2, <2>4 DEF AdmissibleChunk
  <2>6. \A i \in DOMAIN new : HasDocument(T.documents, new[i])
    BY <1>8, <1>9, <1>10, <2>1, <2>5 DEF WellFormed
  <2>7. WellFormed(U)  BY <1>8, <2>1, <2>3, <2>6 DEF WellFormed
  <2>8. QED  BY <1>1, <1>2, <1>4, <1>6, <1>7, <2>3, <2>7
<1>13. CASE t = "entries"
  <2>1. rows = T.entries /\ U.entries = new /\ U.documents = T.documents /\ U.chunks = T.chunks
    BY <1>2, <1>7, <1>13 DEF TableNames
  <2>2. AdmissibleEntry(c, row)  BY <1>13 DEF Admissible
  <2>3. /\ Identified(Entry) /\ rows \in Seq(Entry) /\ new \in Seq(Entry)
        /\ \A i \in 1 .. n : rows[i].id \in Nat
        /\ row.id \in Nat
    BY <1>3, <1>5, <1>9, <1>13, RowsIdentified DEF RowOf, Identified
  <2>4. n # 0 => rows[n].id < row.id
    BY <1>1, <1>3, <1>9, <2>1, <2>2 DEF AdmissibleEntry
  <2>5. \A i, j \in 1 .. n : i < j => rows[i].id < rows[j].id
    BY <1>8, <1>9, <2>1 DEF WellFormed, Increasing
  <2>6. \A i \in 1 .. n : rows[i].id < row.id
    <3>1. SUFFICES ASSUME NEW i \in 1 .. n PROVE rows[i].id < row.id  OBVIOUS
    <3>2. CASE i = n  BY <2>4, <3>2
    <3>3. CASE i < n
      <4>1. n \in 1 .. n /\ rows[i].id < rows[n].id  BY <2>5, <3>3
      <4>2. QED  BY <2>3, <2>4, <4>1
    <3>4. QED  BY <3>2, <3>3
  <2>7. Increasing(new)
    <3>1. SUFFICES ASSUME NEW i \in 1 .. n + 1, NEW j \in 1 .. n + 1, i < j
                   PROVE  new[i].id < new[j].id
      BY <1>10 DEF Increasing
    <3>2. i \in 1 .. n  BY <3>1
    <3>3. CASE j = n + 1  BY <1>10, <2>6, <3>2, <3>3
    <3>4. CASE j \in 1 .. n  BY <1>10, <2>5, <3>1, <3>2, <3>4
    <3>5. QED  BY <3>3, <3>4
  <2>8. Unique(new)  BY <2>3, <2>7, IncreasingUnique
  <2>9. ASSUME kind = "vector", NEW i \in 1 .. n + 1, NEW j \in 1 .. n + 1
        PROVE  new[i].width = new[j].width
    <3>1. \A k \in 1 .. n : rows[k].width = row.width
      BY <1>1, <1>9, <2>1, <2>2, <2>9 DEF AdmissibleEntry
    <3>2. QED  BY <1>10, <3>1
  <2>10. WellFormed(U)  BY <1>8, <1>10, <2>1, <2>7, <2>9 DEF WellFormed
  <2>11. QED  BY <1>1, <1>2, <1>4, <1>6, <1>7, <2>8, <2>10
<1>14. QED  BY <1>11, <1>12, <1>13 DEF TableNames

\* Call c takes a row of table t, and commits the batch with it if that is full.
Takes(c, t, row, batch) ==
  /\ input' = input /\ step[c] = t /\ step'[c] = t /\ identity'[c] = identity[c]
  /\ Len(taken[c][t]) < Len(Stream(c, t))
  /\ row = Stream(c, t)[Len(taken[c][t]) + 1] /\ Admissible(c, t, row)
  /\ batch = Commit(pending[c], <<row>>)
  /\ taken'[c] = [taken[c] EXCEPT ![t] = Append(taken[c][t], row)]
  /\ BatchFull(c, Len(taken[c][t]) + 1) =>
       stored'[c] = [stored[c] EXCEPT ![t] = Commit(stored[c][t], batch)] /\ pending'[c] = <<>>
  /\ ~BatchFull(c, Len(taken[c][t]) + 1) => pending'[c] = batch /\ stored'[c] = stored[c]

\* A row that is accepted is counted and written behind the others.
LEMMA TakeLeaves ==
  ASSUME InputInv, NEW c \in Calls, CallInv(c), NEW t \in TableNames, NEW row, NEW batch,
         Takes(c, t, row, batch)
  PROVE  CallInv(c)'
<1>. SUFFICES
       ASSUME input' = input, step[c] = t, step'[c] = t, identity'[c] = identity[c],
              Len(taken[c][t]) < Len(Stream(c, t)),
              row = Stream(c, t)[Len(taken[c][t]) + 1], Admissible(c, t, row),
              batch = Commit(pending[c], <<row>>),
              taken'[c] = [taken[c] EXCEPT ![t] = Append(taken[c][t], row)],
              BatchFull(c, Len(taken[c][t]) + 1) =>
                /\ stored'[c] = [stored[c] EXCEPT ![t] = Commit(stored[c][t], batch)]
                /\ pending'[c] = <<>>,
              ~BatchFull(c, Len(taken[c][t]) + 1) => pending'[c] = batch /\ stored'[c] = stored[c]
       PROVE  CallInv(c)'
  BY Zenon DEF Takes
<1>1. PICK T \in Tables : T = taken[c]  BY DEF CallInv, TakenInv
<1>2. PICK S \in Tables : S = stored[c]  BY DEF CallInv, TakenInv
<1>3. PICK all : all = Stream(c, t)  OBVIOUS
<1>4. all \in Seq(RowOf(t)) /\ all \in Seq(Row)  BY <1>3, StreamIs
<1>5. PICK rows : rows = T[t]  OBVIOUS
<1>6. rows \in Seq(RowOf(t)) /\ rows \in Seq(Row)  BY <1>5, TableRows
<1>7. PICK n \in Nat : n = Len(rows) /\ DOMAIN rows = 1 .. n  BY <1>6
<1>8. n < Len(all) /\ row = all[n + 1] /\ n + 1 \in 1 .. Len(all)
  BY <1>1, <1>3, <1>4, <1>5, <1>7
<1>9. row \in RowOf(t) /\ row \in Row  BY <1>4, <1>8
<1>10. PICK new : new = Append(rows, row)  OBVIOUS
<1>11. /\ new \in Seq(RowOf(t)) /\ new \in Seq(Row) /\ Len(new) = n + 1
       /\ (\A i \in 1 .. n : new[i] = rows[i]) /\ new[n + 1] = row
  <2>1. new \in Seq(RowOf(t))  BY <1>6, <1>9, <1>10, Appended
  <2>2. new \in Seq(Row) /\ Len(new) = n + 1 /\ new[n + 1] = row
        /\ \A i \in 1 .. n : new[i] = rows[i]
    BY <1>6, <1>7, <1>9, <1>10, Appended
  <2>3. QED  BY <2>1, <2>2
<1>12. PICK U : U = taken'[c]  OBVIOUS
<1>13. /\ U \in Tables /\ WellFormed(U) /\ Unique(new)
       /\ U[t] = new /\ \A u \in TableNames \ {t} : U[u] = T[u]
  <2>1. U = [T EXCEPT ![t] = new]  BY <1>1, <1>5, <1>10, <1>12
  <2>2. U \in Tables /\ WellFormed(U) /\ Unique(new)
    BY <1>1, <1>5, <1>9, <1>10, <2>1, AdmissibleKeeps
  <2>3. /\ [T EXCEPT ![t] = new][t] = new
        /\ \A u \in TableNames \ {t} : [T EXCEPT ![t] = new][u] = T[u]
    BY <1>1, <1>11, TableRows
  <2>4. QED  BY <2>1, <2>2, <2>3
<1>14. PICK p \in Seq(Row) : p = pending[c]  BY DEF CallInv, TakenInv
<1>15. PICK s : s = S[t]  OBVIOUS
<1>16. s \in Seq(RowOf(t)) /\ s \in Seq(Row)  BY <1>15, TableRows
<1>17. s \o p = rows
  BY <1>1, <1>2, <1>5, <1>14, <1>15 DEF CallInv, TakenInv, Written, TableNames
<1>18. PICK b : b = Append(p, row)  OBVIOUS
<1>19. b \in Seq(Row) /\ Len(b) = Len(p) + 1  BY <1>9, <1>14, <1>18, Appended
<1>20. s \o b = new  BY <1>9, <1>10, <1>16, <1>17, <1>18, AppendBehind
<1>21. Unique(b)
  <2>1. Unique(s \o b)  BY <1>13, <1>20
  <2>2. QED  BY <1>16, <1>19, <2>1, UniqueBehind
<1>22. batch = b
  <2>1. p \o <<row>> = b  BY <1>9, <1>18, AppendBehind
  <2>2. <<row>> \in Seq(Row)  BY <1>9
  <2>3. Commit(p, <<row>>) = b  BY <1>21, <2>1, <2>2, CommitAppends
  <2>4. QED  BY <1>14, <2>3
<1>23. Commit(s, b) = new
  <2>1. Unique(s \o b)  BY <1>13, <1>20
  <2>2. QED  BY <1>16, <1>19, <1>20, <2>1, CommitAppends
<1>24. kind' = kind /\ kind \in Kinds /\ \A x \in Calls, u \in TableNames : Stream(x, u)' = Stream(x, u)
  BY InputFrame DEF InputInv, Input
<1>25. WellFormed(taken[c])'
  <2>1. WellFormed(U)' <=> WellFormed(U)  BY InputFrame
  <2>2. QED  BY <1>12, <1>13, <2>1 DEF WellFormed
<1>26. PICK S2 : S2 = stored'[c]  OBVIOUS
<1>27. PICK p2 : p2 = pending'[c]  OBVIOUS
<1>28. /\ S2 \in Tables /\ p2 \in Seq(Row)
       /\ \A u \in TableNames : S2[u] \o (IF t = u THEN p2 ELSE <<>>) = U[u]
       /\ kind = "lexical" =>
            /\ Len(p2) < BatchSize
            /\ t = "entries" => LeftOver(n + 1, BatchSize, Len(p2))
  <2>1. \A u \in TableNames \ {t} : S[u] \o <<>> = U[u]
    <3>1. SUFFICES ASSUME NEW u \in TableNames, u # t PROVE S[u] \o <<>> = U[u]  OBVIOUS
    <3>2. Written(c, u) = S[u] \o <<>>  BY <1>2, <3>1 DEF Written
    <3>3. Written(c, u) = T[u]  BY <1>1 DEF CallInv, TakenInv, TableNames
    <3>4. QED  BY <1>13, <3>1, <3>2, <3>3
  <2>2. kind = "lexical" =>
          /\ Len(p) < BatchSize
          /\ t = "entries" => LeftOver(n, BatchSize, Len(p))
    <3>1. kind = "lexical" => Len(p) < BatchSize  BY <1>14 DEF CallInv, TakenInv
    <3>2. taken[c].entries = taken[c]["entries"]  OBVIOUS
    <3>3. kind = "lexical" /\ t = "entries" => LeftOver(n, BatchSize, Len(p))
      BY <1>1, <1>5, <1>7, <1>14, <3>2 DEF CallInv, TakenInv
    <3>4. QED  BY <3>1, <3>3
  <2>3. Len(p) \in Nat  BY <1>14
  <2>4. kind = "lexical" => t = "entries"  BY DEF CallInv, StepInv, TableNames
  <2>5. kind = "lexical" =>
          /\ ((n + 1) % BatchSize = 0 <=> Len(p) + 1 = BatchSize)
          /\ Len(p) + 1 = BatchSize => LeftOver(n + 1, BatchSize, 0)
          /\ Len(p) + 1 # BatchSize => LeftOver(n + 1, BatchSize, Len(p) + 1)
    <3>1. PICK l \in Nat : l = Len(p)  BY <2>3
    <3>2. PICK size \in Nat \ {0} : size = BatchSize  BY SizeAssumption
    <3>3. SUFFICES ASSUME kind = "lexical"
                   PROVE  /\ ((n + 1) % size = 0 <=> l + 1 = size)
                          /\ l + 1 = size => LeftOver(n + 1, size, 0)
                          /\ l + 1 # size => LeftOver(n + 1, size, l + 1)
      BY <3>1, <3>2
    <3>4. l < size  BY <2>2, <3>1, <3>2, <3>3
    <3>5. LeftOver(n, size, l)  BY <2>2, <2>4, <3>1, <3>2, <3>3
    <3>6. QED  BY <1>7, <3>1, <3>2, <3>4, <3>5, BatchCounts
  <2>6. CASE BatchFull(c, n + 1)
    <3>1. kind = "lexical" /\ Len(p) + 1 = BatchSize  BY <2>5, <2>6 DEF BatchFull
    <3>2. S2 = [S EXCEPT ![t] = new] /\ p2 = <<>>
      BY <1>1, <1>2, <1>5, <1>7, <1>15, <1>22, <1>23, <1>26, <1>27, <2>6
    <3>3. S2 \in Tables /\ S2[t] = new /\ \A u \in TableNames \ {t} : S2[u] = S[u]
      BY <1>2, <1>11, <3>2, TableRows
    <3>4. new \o <<>> = new  BY <1>11
    <3>5. p2 \in Seq(Row) /\ Len(p2) = 0  BY <3>2, EmptySeq
    <3>6. \A u \in TableNames : S2[u] \o (IF t = u THEN p2 ELSE <<>>) = U[u]
      BY <1>13, <2>1, <3>2, <3>3, <3>4
    <3>7. QED  BY <2>5, <3>1, <3>3, <3>5, <3>6, SizeAssumption
  <2>7. CASE ~BatchFull(c, n + 1)
    <3>1. S2 = S /\ p2 = b  BY <1>1, <1>2, <1>5, <1>7, <1>22, <1>26, <1>27, <2>7
    <3>2. kind = "lexical" => Len(p) + 1 # BatchSize  BY <2>5, <2>7 DEF BatchFull
    <3>3. \A u \in TableNames : S2[u] \o (IF t = u THEN p2 ELSE <<>>) = U[u]
      BY <1>13, <1>15, <1>20, <2>1, <3>1
    <3>4. kind = "lexical" => Len(p2) < BatchSize
      BY <1>19, <2>2, <2>3, <3>1, <3>2, SizeAssumption
    <3>5. kind = "lexical" => LeftOver(n + 1, BatchSize, Len(p2))
      BY <1>19, <2>5, <3>1, <3>2
    <3>6. QED  BY <1>2, <1>19, <3>1, <3>3, <3>4, <3>5
  <2>8. QED  BY <2>6, <2>7
<1>29. TakenInv(c)'
  <2>1. \A u \in TableNames : Begins(U[u], Stream(c, u))
    <3>1. SUFFICES ASSUME NEW u \in TableNames PROVE Begins(U[u], Stream(c, u))  OBVIOUS
    <3>2. CASE u = t
      <4>1. \A i \in 1 .. n : rows[i] = all[i]
        BY <1>1, <1>3, <1>5, <1>7 DEF CallInv, TakenInv, Begins
      <4>2. Len(new) <= Len(all)  BY <1>4, <1>8, <1>11
      <4>3. \A i \in 1 .. n + 1 : new[i] = all[i]  BY <1>8, <1>11, <4>1
      <4>4. QED  BY <1>3, <1>11, <1>13, <3>2, <4>2, <4>3 DEF Begins
    <3>3. CASE u # t  BY <1>1, <1>13, <3>3 DEF CallInv, TakenInv
    <3>4. QED  BY <3>2, <3>3
  <2>2. \A u \in TableNames : step'[c] \in Past(u) => U[u] = Stream(c, u)
    <3>1. SUFFICES ASSUME NEW u \in TableNames, t \in Past(u) PROVE U[u] = Stream(c, u)
      OBVIOUS
    <3>2. u # t  BY <3>1 DEF Past, TableNames
    <3>3. QED  BY <1>1, <1>13, <3>1, <3>2 DEF CallInv, TakenInv
  <2>3. step'[c] \notin {"returned", "dead", "idle", "create", "prepare"} /\ step'[c] \in TableNames
    BY DEF TableNames
  <2>4. \A u \in TableNames : Written(c, u)' = U[u]  BY <1>26, <1>27, <1>28 DEF Written
  <2>5. kind = "lexical" =>
          /\ Len(p2) < BatchSize
          /\ step'[c] = "entries" =>
               LeftOver(Len(U.entries), BatchSize, Len(p2))
    <3>1. t = "entries" => Len(U.entries) = n + 1  BY <1>11, <1>13
    <3>2. QED  BY <1>28, <3>1
  <2>6. identity'[c] \in Tables  BY DEF CallInv, TakenInv
  <2>7. QED
    BY <1>12, <1>13, <1>24, <1>25, <1>26, <1>27, <1>28, <2>1, <2>2, <2>3, <2>4, <2>5, <2>6
    DEF TakenInv
<1>30. StepInv(c)'  BY <1>24 DEF StepInv, CallInv
<1>31. ReadyInv(c)'
  <2>1. step'[c] \notin Past("entries") \cup {"close", "stat", "rename", "idle"}
    BY DEF Past, TableNames
  <2>2. QED  BY <1>24, <2>1 DEF CallInv, ReadyInv, TableNames
<1>32. QED  BY <1>29, <1>30, <1>31 DEF CallInv

\* A call that has taken all rows of a table has written them.
LEMMA CompleteLeaves ==
  ASSUME InputInv, NEW c \in Calls, CallInv(c), input' = input,
         NEW t \in TableNames, step[c] = t, step'[c] = After(t),
         Len(taken[c][t]) = Len(Stream(c, t)),
         t = "entries" => Len(taken[c].entries) = input[c].expected,
         stored'[c] = [stored[c] EXCEPT ![t] = Commit(stored[c][t], pending[c])],
         pending'[c] = <<>>, taken'[c] = taken[c], identity'[c] = identity[c]
  PROVE  CallInv(c)'
<1>1. PICK T \in Tables : T = taken[c]  BY DEF CallInv, TakenInv
<1>2. PICK S \in Tables : S = stored[c]  BY DEF CallInv, TakenInv
<1>3. PICK p \in Seq(Row) : p = pending[c]  BY DEF CallInv, TakenInv
<1>4. PICK rows : rows = T[t]  OBVIOUS
<1>5. rows \in Seq(RowOf(t)) /\ rows \in Seq(Row)  BY <1>1, <1>4, TableRows
<1>6. PICK s : s = S[t]  OBVIOUS
<1>7. s \in Seq(RowOf(t)) /\ s \in Seq(Row)  BY <1>2, <1>6, TableRows
<1>8. s \o p = rows
  BY <1>1, <1>2, <1>3, <1>4, <1>6 DEF CallInv, TakenInv, Written, TableNames
<1>9. Unique(rows)
  <2>1. WellFormed(T)  BY <1>1 DEF CallInv, TakenInv
  <2>2. CASE t = "entries"
    <3>1. rows \in Seq(Entry) /\ Increasing(rows)
      BY <1>4, <1>5, <2>1, <2>2 DEF WellFormed, RowOf
    <3>2. QED  BY <3>1, RowsIdentified, IncreasingUnique
  <2>3. QED  BY <1>4, <2>1, <2>2 DEF WellFormed, TableNames
<1>10. Commit(s, p) = rows
  <2>1. Unique(s \o p)  BY <1>8, <1>9
  <2>2. QED  BY <1>3, <1>7, <1>8, <2>1, CommitAppends
<1>11. PICK S2 : S2 = stored'[c]  OBVIOUS
<1>12. S2 \in Tables /\ S2[t] = rows /\ \A u \in TableNames \ {t} : S2[u] = S[u]
  <2>1. S2 = [S EXCEPT ![t] = rows]  BY <1>2, <1>3, <1>6, <1>10, <1>11
  <2>2. QED  BY <1>2, <1>5, <2>1, TableRows
<1>13. kind' = kind /\ kind \in Kinds /\ \A x \in Calls, u \in TableNames : Stream(x, u)' = Stream(x, u)
  BY InputFrame DEF InputInv, Input
<1>14. WellFormed(taken[c])' /\ (Filled(taken[c])' <=> Filled(taken[c]))
  BY InputFrame DEF CallInv, TakenInv
<1>15. rows = Stream(c, t)
  <2>1. PICK all \in Seq(Row) : all = Stream(c, t)  BY StreamIs
  <2>2. PICK n \in Nat : n = Len(rows) /\ DOMAIN rows = 1 .. n  BY <1>5
  <2>3. Len(all) = n /\ \A i \in 1 .. n : rows[i] = all[i]
    BY <1>1, <1>4, <2>1, <2>2 DEF CallInv, TakenInv, Begins
  <2>4. rows \in Seq(Row) /\ Len(rows) = Len(all) /\ \A i \in 1 .. Len(rows) : rows[i] = all[i]
    BY <1>5, <2>2, <2>3
  <2>5. rows = all  BY <2>1, <2>4, SeqEqual
  <2>6. QED  BY <2>1, <2>5
<1>16. StepInv(c)'  BY <1>13 DEF StepInv, CallInv, After, Names, Kinds, TableNames
<1>17. step'[c] # t /\ step'[c] \in {"chunks"} \cup Past("entries")
  BY <1>13 DEF After, TableNames, Past, Kinds
<1>18. \A u \in TableNames : Written(c, u)' = T[u]
  <2>1. SUFFICES ASSUME NEW u \in TableNames PROVE Written(c, u)' = T[u]  OBVIOUS
  <2>2. Written(c, u)' = S2[u] \o <<>>  BY <1>11 DEF Written
  <2>3. CASE u = t
    <3>1. rows \o <<>> = rows  BY <1>5
    <3>2. QED  BY <1>4, <1>12, <2>2, <2>3, <3>1
  <2>4. CASE u # t
    <3>1. Written(c, u) = S[u] \o <<>>  BY <1>2, <2>4 DEF Written
    <3>2. Written(c, u) = T[u]  BY <1>1 DEF CallInv, TakenInv, TableNames
    <3>3. QED  BY <1>12, <2>2, <2>4, <3>1, <3>2
  <2>5. QED  BY <2>3, <2>4
<1>19. \A u \in TableNames : Len(Stream(c, u)) = 0 => T[u] = Stream(c, u)
  <2>1. SUFFICES ASSUME NEW u \in TableNames, Len(Stream(c, u)) = 0 PROVE T[u] = Stream(c, u)
    OBVIOUS
  <2>2. PICK all \in Seq(Row) : all = Stream(c, u)  BY StreamIs
  <2>3. PICK own \in Seq(Row) : own = T[u]  BY <1>1, TableRows
  <2>4. Len(own) <= Len(all)  BY <1>1, <2>2, <2>3 DEF CallInv, TakenInv, Begins
  <2>5. Len(own) = 0 /\ Len(all) = 0  BY <2>1, <2>2, <2>3, <2>4
  <2>6. QED  BY <2>2, <2>3, <2>5
<1>20. \A u \in TableNames : step'[c] \in Past(u) => T[u] = Stream(c, u)
  <2>1. SUFFICES ASSUME NEW u \in TableNames, step'[c] \in Past(u) PROVE T[u] = Stream(c, u)
    OBVIOUS
  <2>2. CASE u = t  BY <1>4, <1>15, <2>2
  <2>3. CASE u = "documents" /\ t = "chunks"
    <3>1. step[c] \in Past(u)  BY <2>3 DEF Past
    <3>2. QED  BY <1>1, <3>1 DEF CallInv, TakenInv
  <2>4. CASE t = "chunks" /\ u = "entries"
    <3>1. kind = "content"  BY <1>13, <2>4 DEF CallInv, StepInv, Kinds
    <3>2. Stream(c, u) = <<>>  BY <2>4, <3>1, StreamIs
    <3>3. QED  BY <1>19, <3>2
  <2>5. CASE t = "entries" /\ u # t
    <3>1. kind # "content"  BY <2>5 DEF CallInv, StepInv
    <3>2. Stream(c, u) = <<>>  BY <2>5, <3>1, StreamIs DEF TableNames
    <3>3. QED  BY <1>19, <3>2
  <2>6. CASE t = "documents" /\ u # t
    <3>1. step'[c] = "chunks"  BY <2>6 DEF After
    <3>2. QED  BY <2>1, <2>6, <3>1 DEF Past
  <2>7. QED  BY <2>2, <2>3, <2>4, <2>5, <2>6 DEF TableNames
<1>21. TakenInv(c)'
  <2>1. step'[c] \notin {"idle", "create", "prepare", "entries", "returned", "dead"}
    BY <1>17 DEF Past
  <2>2. <<>> \in Seq(Row) /\ Len(<<>>) = 0 /\ 0 < BatchSize  BY EmptySeq, SizeAssumption
  <2>3. \A u \in TableNames : Begins(T[u], Stream(c, u))  BY <1>1 DEF CallInv, TakenInv
  <2>4. identity'[c] \in Tables  BY DEF CallInv, TakenInv
  <2>5. QED
    BY <1>1, <1>11, <1>12, <1>13, <1>14, <1>18, <1>20, <2>1, <2>2, <2>3, <2>4 DEF TakenInv
<1>22. kind # "content" => input[c].expected >= 1 /\ t = "entries"
  <2>1. SUFFICES ASSUME kind # "content" PROVE input[c].expected >= 1 /\ t = "entries"
    OBVIOUS
  <2>2. step[c] \notin {"idle", "returned", "dead"}  BY DEF TableNames
  <2>3. input[c].expected >= 1  BY <2>1, <2>2 DEF CallInv, ReadyInv
  <2>4. t \notin {"documents", "chunks"}  BY <1>13, <2>1 DEF CallInv, StepInv, Kinds
  <2>5. QED  BY <2>3, <2>4 DEF TableNames
<1>23. kind # "content" => Filled(T)
  <2>1. SUFFICES ASSUME kind # "content" PROVE T.entries # <<>>  BY DEF Filled
  <2>2. Len(T.entries) >= 1  BY <1>1, <1>22, <2>1
  <2>3. QED  BY <2>2
<1>24. ReadyInv(c)'
  <2>1. step'[c] \notin {"stat", "rename"} /\ (step'[c] = "close" => kind = "vector")
    <3>1. step'[c] = IF t = "documents" THEN "chunks"
                     ELSE IF t = "chunks" \/ kind = "lexical" THEN "identity" ELSE "close"
      BY DEF After, TableNames
    <3>2. kind = "content" => t # "entries"  BY DEF CallInv, StepInv
    <3>3. QED  BY <1>13, <3>1, <3>2 DEF TableNames, Kinds
  <2>2. QED  BY <1>1, <1>13, <1>14, <1>22, <1>23, <2>1 DEF ReadyInv
<1>25. QED  BY <1>16, <1>21, <1>24 DEF CallInv

-----------------------------------------------------------------------------
(* What a step leaves of the stores and of the publications.               *)

\* What a step of one call leaves of the others.
LEMMA CallsKeep ==
  ASSUME InputInv, \A d \in Calls : CallInv(d), NEW c \in Calls, input' = input, CallInv(c)',
         \A d \in Calls \ {c} : /\ step'[d] = step[d] /\ taken'[d] = taken[d]
                                /\ pending'[d] = pending[d] /\ stored'[d] = stored[d]
                                /\ identity'[d] = identity[d]
  PROVE  InputInv' /\ \A d \in Calls : CallInv(d)'
<1>1. InputInv'  BY InputFrame
<1>2. \A d \in Calls \ {c} : CallInv(d)'  BY CallFrame
<1>3. QED  BY <1>1, <1>2

\* A store of a call that takes no step.
LEMMA StoreFrame ==
  ASSUME input' = input, NEW d \in Calls, StoreInv(d), step'[d] = step[d], outcome'[d] = outcome[d],
         (d \in temporary' <=> d \in temporary), (d \in handles' <=> d \in handles),
         lingering \subseteq lingering'
  PROVE  StoreInv(d)'
<1>1. kind' = kind  BY InputFrame
<1>2. QED  BY <1>1 DEF StoreInv

\* A step that publishes nothing leaves the publications what they are.
LEMMA PublishedFrame ==
  ASSUME PublishedInv, input' = input, published' = published,
         \A d \in Calls :
           /\ step'[d] = "rename" => step[d] = "rename" \/ published = <<>>
           /\ step'[d] \in {"sync", "open"} \/ outcome'[d] = "ok" =>
                step[d] \in {"sync", "open"} \/ outcome[d] = "ok"
  PROVE  PublishedInv'
<1>1. kind' = kind  BY InputFrame
<1>2. \A p : PublicationInv(p)' <=> PublicationInv(p)  BY InputFrame
<1>3. published' \in Seq(PublicationType)  BY DEF PublishedInv
<1>4. PublicationType' = PublicationType  BY DEF PublicationType
<1>5. \A n \in DOMAIN published : PublicationInv(published[n])'  BY <1>2 DEF PublishedInv
<1>6. QED  BY <1>1, <1>3, <1>4, <1>5 DEF PublishedInv

\* An inspection that takes no step.
LEMMA ReaderFrame ==
  ASSUME ReaderInv, input' = input, reader' = reader
  PROVE  ReaderInv'
<1>1. kind' = kind  BY InputFrame
<1>2. \A p : (PublicationInv(p)' <=> PublicationInv(p)) /\ (Readable(p)' <=> Readable(p))
  BY InputFrame
<1>3. CASE reader = Idle  BY <1>3 DEF ReaderInv
<1>4. CASE reader # Idle
  <2>1. PublicationInv(reader.index)' <=> PublicationInv(reader.index)  BY <1>2
  <2>2. Readable(reader.index)' <=> Readable(reader.index)  BY <1>2
  <2>3. QED  BY <1>1, <1>4, <2>1, <2>2 DEF ReaderInv
<1>5. QED  BY <1>3, <1>4

\* One more temporary may linger when something more has gone wrong.
LEMMA OneMoreLingers ==
  ASSUME IsFiniteSet(lingering), NEW n \in Nat, Cardinality(lingering) <= n, NEW c
  PROVE  /\ IsFiniteSet(lingering \cup {c}) /\ Cardinality(lingering \cup {c}) <= n + 1
         /\ Cardinality(lingering) \in Nat
<1>1. Cardinality(lingering) \in Nat  BY FS_CardinalityType
<1>2. CASE c \in lingering
  <2>1. lingering \cup {c} = lingering  BY <1>2
  <2>2. QED  BY <1>1, <2>1
<1>3. CASE c \notin lingering
  <2>1. /\ IsFiniteSet(lingering \cup {c})
        /\ Cardinality(lingering \cup {c}) = Cardinality(lingering) + 1
    BY <1>3, FS_AddElement
  <2>2. QED  BY <1>1, <2>1
<1>4. QED  BY <1>2, <1>3

\* The stores after a call has gone on.
LEMMA MovesStores ==
  ASSUME BuildInv, NEW c \in Calls, step[c] \notin {"idle", "returned", "dead"},
         input' = input, lingering' = lingering, bounds' = bounds,
         step' = [step EXCEPT ![c] = After(step[c])],
         outcome' = IF After(step[c]) = "returned" THEN [outcome EXCEPT ![c] = "ok"] ELSE outcome,
         temporary' = IF step[c] = "create" THEN temporary \cup {c}
                      ELSE IF step[c] = "rename" THEN temporary \ {c} ELSE temporary,
         handles' = IF step[c] \in {"prepare", "open"} THEN handles \cup {c}
                    ELSE IF step[c] = "close" THEN handles \ {c} ELSE handles
  PROVE  StoresInv'
<1>1. kind' = kind /\ kind \in Kinds  BY InputFrame DEF BuildInv, InputInv, Input
<1>2. BoundsInv /\ StoreInv(c) /\ StepInv(c)  BY DEF BuildInv, StoresInv, CallInv
<1>3. outcome' \in [Calls -> {"none", "ok", "error"}]
  <2>1. outcome \in [Calls -> {"none", "ok", "error"}]  BY <1>2 DEF BoundsInv
  <2>2. QED  BY <2>1
<1>4. temporary' \subseteq Calls /\ handles' \subseteq Calls  BY <1>2 DEF BoundsInv
<1>5. BoundsInv'  BY <1>2, <1>3, <1>4 DEF BoundsInv, bounds
<1>6. \A d \in Calls \ {c} : StoreInv(d)'
  <2>1. SUFFICES ASSUME NEW d \in Calls \ {c} PROVE StoreInv(d)'  OBVIOUS
  <2>2. step'[d] = step[d]  BY DEF BuildInv, MapsInv
  <2>3. outcome'[d] = outcome[d]  BY <1>2 DEF BoundsInv
  <2>4. (d \in temporary' <=> d \in temporary) /\ (d \in handles' <=> d \in handles)  OBVIOUS
  <2>5. QED  BY <2>2, <2>3, <2>4, StoreFrame DEF BuildInv, StoresInv
<1>7. StoreInv(c)'
  <2>1. step'[c] = After(step[c])  BY DEF BuildInv, MapsInv
  <2>2. outcome'[c] = IF After(step[c]) = "returned" THEN "ok" ELSE outcome[c]
    BY <1>2 DEF BoundsInv
  <2>3. CASE step[c] = "create"
    BY <1>1, <1>2, <2>1, <2>3 DEF StoreInv, After, Filling
  <2>4. CASE step[c] = "prepare"
    BY <1>1, <1>2, <2>1, <2>4 DEF StoreInv, After, Filling
  <2>5. CASE step[c] \in {"documents", "chunks", "entries", "identity"}
    BY <1>1, <1>2, <2>1, <2>5 DEF StoreInv, After, Filling
  <2>6. CASE step[c] \in {"close", "stat"}
    BY <1>1, <1>2, <2>1, <2>6 DEF StoreInv, After, Filling
  <2>7. CASE step[c] \in {"rename", "sync", "open"}
    BY <1>1, <1>2, <2>1, <2>2, <2>7 DEF StoreInv, After, Filling, StepInv
  <2>8. QED  BY <1>2, <2>3, <2>4, <2>5, <2>6, <2>7 DEF StepInv, Names
<1>8. QED  BY <1>5, <1>6, <1>7 DEF StoresInv

\* What a call is about to publish is all it was given, and the identity of that.
LEMMA AboutToPublish ==
  ASSUME InputInv, NEW c \in Calls, CallInv(c), step[c] \in {"stat", "rename"}
  PROVE  /\ taken[c] = Whole(c) /\ stored[c] = Whole(c) /\ WellFormed(Whole(c)) /\ Filled(Whole(c))
         /\ Whole(c) \in Tables /\ identity[c] \in Tables
         /\ kind # "vector" => identity[c] = Whole(c)
<1>1. PICK T \in Tables : T = taken[c]  BY DEF CallInv, TakenInv
<1>2. PICK S \in Tables : S = stored[c]  BY DEF CallInv, TakenInv
<1>3. PICK W \in Tables : W = Whole(c) /\ \A t \in TableNames : W[t] = Stream(c, t)  BY StreamIs
<1>4. \A t \in TableNames : T[t] = W[t]
  <2>1. \A t \in TableNames : step[c] \in Past(t)  BY DEF Past
  <2>2. QED  BY <1>1, <1>3, <2>1 DEF CallInv, TakenInv
<1>5. T = W  BY <1>4, SameTables
<1>6. \A t \in TableNames : S[t] = T[t]
  <2>1. SUFFICES ASSUME NEW t \in TableNames PROVE S[t] = T[t]  OBVIOUS
  <2>2. step[c] # t  BY DEF TableNames
  <2>3. Written(c, t) = S[t] \o <<>>  BY <1>2, <2>2 DEF Written
  <2>4. Written(c, t) = T[t]  BY <1>1 DEF CallInv, TakenInv
  <2>5. S[t] \in Seq(Row)  BY TableRows
  <2>6. QED  BY <2>3, <2>4, <2>5
<1>7. S = T  BY <1>6, SameTables
<1>8. WellFormed(T)  BY <1>1 DEF CallInv, TakenInv
<1>9. Filled(T) /\ (kind # "vector" => identity[c] = T)  BY <1>1 DEF CallInv, ReadyInv
<1>10. identity[c] \in Tables  BY DEF CallInv, TakenInv
<1>11. QED  BY <1>1, <1>2, <1>3, <1>5, <1>7, <1>8, <1>9, <1>10

\* So is its publication.
LEMMA PublishesWhole ==
  ASSUME InputInv, NEW c \in Calls, CallInv(c), step[c] = "rename"
  PROVE  /\ PublicationInv(Publication(c)) /\ Publication(c) \in PublicationType
         /\ Publication(c).by = c
         /\ \A d \in Calls \ {c} : step[d] = "rename" => d \in Publication(c).beside
<1>1. PICK p : p = Publication(c)  OBVIOUS
<1>2. PICK set : set = {d \in Calls \ {c} : step[d] = "rename"}  OBVIOUS
<1>3. p = [by |-> c, tables |-> stored[c], identity |-> identity[c], intact |-> TRUE, beside |-> set]
  BY <1>1, <1>2 DEF Publication
<1>4. set \in SUBSET Calls  BY <1>2
<1>5. stored[c] \in Tables /\ identity[c] \in Tables  BY AboutToPublish
<1>6. p \in PublicationType
  <2>1. PICK all : all = Tables  OBVIOUS
  <2>2. QED  BY <1>3, <1>4, <1>5 DEF PublicationType
<1>7. p.by = c /\ p.tables = stored[c] /\ p.identity = identity[c] /\ p.intact /\ p.beside = set
  BY <1>3
<1>8. PublicationInv(p)  BY <1>6, <1>7, AboutToPublish DEF PublicationInv
<1>9. QED  BY <1>1, <1>2, <1>6, <1>7, <1>8

\* A rename publishes; it replaces only what the call had not yet found.
LEMMA RenamePublishes ==
  ASSUME InputInv, PublishedInv, MapsInv, BoundsInv, \A d \in Calls : CallInv(d),
         NEW c \in Calls, step[c] = "rename",
         Renames, input' = input, published' = Append(published, Publication(c)),
         step' = [step EXCEPT ![c] = After(step[c])], outcome' = outcome
  PROVE  PublishedInv'
<1>1. kind' = kind /\ kind \in Kinds  BY InputFrame DEF InputInv, Input
<1>2. \A p : PublicationInv(p)' <=> PublicationInv(p)  BY InputFrame
<1>3. PICK p : p = Publication(c)  OBVIOUS
<1>4. /\ PublicationInv(p) /\ p \in PublicationType /\ p.by = c
      /\ \A d \in Calls \ {c} : step[d] = "rename" => d \in p.beside
  BY <1>3, PublishesWhole
<1>5. PICK old \in Seq(PublicationType) : old = published  BY DEF PublishedInv
<1>6. PICK n \in Nat : n = Len(old) /\ DOMAIN old = 1 .. n  BY <1>5
<1>7. PICK new : new = published'  OBVIOUS
<1>8. /\ new \in Seq(PublicationType) /\ Len(new) = n + 1 /\ DOMAIN new = 1 .. n + 1
      /\ (\A i \in 1 .. n : new[i] = old[i]) /\ new[n + 1] = p
  BY <1>3, <1>4, <1>5, <1>6, <1>7, Appended
<1>9. PublicationType' = PublicationType  BY DEF PublicationType
<1>10. \A i \in DOMAIN new : PublicationInv(new[i])'
  <2>1. \A i \in 1 .. n : PublicationInv(old[i])  BY <1>5, <1>6 DEF PublishedInv
  <2>2. \A i \in DOMAIN new : PublicationInv(new[i])  BY <1>4, <1>8, <2>1
  <2>3. QED  BY <1>2, <2>2
<1>11. \A i \in 2 .. n + 1 : kind # "lexical" /\ \E m \in 1 .. i - 1 : new[i].by \in new[m].beside
  <2>1. SUFFICES ASSUME NEW i \in 2 .. n + 1
                 PROVE  kind # "lexical" /\ \E m \in 1 .. i - 1 : new[i].by \in new[m].beside
    OBVIOUS
  <2>2. CASE i \in 2 .. n
    <3>1. kind # "lexical"  BY <1>5, <1>6, <2>2 DEF PublishedInv
    <3>2. PICK m \in 1 .. i - 1 : old[i].by \in old[m].beside
      BY <1>5, <1>6, <2>2 DEF PublishedInv
    <3>3. m \in 1 .. n /\ i \in 1 .. n  BY <2>2
    <3>4. QED  BY <1>8, <3>1, <3>2, <3>3
  <2>3. CASE i = n + 1
    <3>1. n >= 1 /\ old # <<>>  BY <1>5, <1>6, <2>3
    <3>2. kind # "lexical"  BY <1>5, <3>1 DEF Renames, Absent
    <3>3. PICK m \in 1 .. n : c \in old[m].beside
      BY <1>5, <1>6, <3>1 DEF PublishedInv
    <3>4. new[i].by = c /\ new[m] = old[m] /\ m \in 1 .. i - 1  BY <1>4, <1>8, <2>3
    <3>5. QED  BY <3>2, <3>3, <3>4
  <2>4. QED  BY <2>2, <2>3
<1>12. ASSUME NEW d \in Calls, step'[d] = "rename"
       PROVE  \E m \in DOMAIN new : d \in new[m].beside
  <2>1. step'[c] # "rename"  BY DEF MapsInv, After
  <2>2. d # c /\ step[d] = "rename"  BY <1>12, <2>1 DEF MapsInv
  <2>3. d \in new[n + 1].beside /\ n + 1 \in DOMAIN new  BY <1>4, <1>8, <2>2
  <2>4. QED  BY <2>3
<1>13. ASSUME NEW d \in Calls, step'[d] \in {"sync", "open"} \/ outcome'[d] = "ok"
       PROVE  \E m \in DOMAIN new : new[m].by = d
  <2>1. CASE d = c
    <3>1. new[n + 1].by = d /\ n + 1 \in DOMAIN new  BY <1>4, <1>8, <2>1
    <3>2. QED  BY <3>1
  <2>2. CASE d # c
    <3>1. step[d] \in {"sync", "open"} \/ outcome[d] = "ok"  BY <1>13, <2>2 DEF MapsInv
    <3>2. PICK m \in 1 .. n : old[m].by = d  BY <1>5, <1>6, <3>1 DEF PublishedInv
    <3>3. m \in DOMAIN new /\ new[m].by = d  BY <1>8, <3>2
    <3>4. QED  BY <3>3
  <2>3. QED  BY <2>1, <2>2
<1>14. QED
  BY <1>1, <1>7, <1>8, <1>9, <1>10, <1>11, <1>12, <1>13 DEF PublishedInv

\* A call that goes on.
LEMMA MovesOn ==
  ASSUME BuildInv, NEW c \in Calls, step[c] \notin {"idle", "returned", "dead"},
         input' = input, lingering' = lingering, bounds' = bounds, reader' = reader,
         step' = [step EXCEPT ![c] = After(step[c])],
         outcome' = IF After(step[c]) = "returned" THEN [outcome EXCEPT ![c] = "ok"] ELSE outcome,
         temporary' = IF step[c] = "create" THEN temporary \cup {c}
                      ELSE IF step[c] = "rename" THEN temporary \ {c} ELSE temporary,
         handles' = IF step[c] \in {"prepare", "open"} THEN handles \cup {c}
                    ELSE IF step[c] = "close" THEN handles \ {c} ELSE handles,
         IF step[c] = "rename" THEN Renames /\ published' = Append(published, Publication(c))
         ELSE published' = published,
         step[c] = "stat" => Absent,
         MapsInv', CallInv(c)',
         \A d \in Calls \ {c} : /\ taken'[d] = taken[d] /\ pending'[d] = pending[d]
                                /\ stored'[d] = stored[d] /\ identity'[d] = identity[d]
  PROVE  BuildInv'
<1>1. StoresInv'  BY MovesStores
<1>2. \A d \in Calls \ {c} : step'[d] = step[d]  BY DEF BuildInv, MapsInv
<1>3. InputInv' /\ \A d \in Calls : CallInv(d)'  BY <1>2, CallsKeep DEF BuildInv
<1>4. ReaderInv'  BY ReaderFrame DEF BuildInv
<1>5. step'[c] = After(step[c])  BY DEF BuildInv, MapsInv
<1>6. BoundsInv /\ StepInv(c)  BY DEF BuildInv, StoresInv, CallInv
<1>7. PublishedInv'
  <2>1. CASE step[c] = "rename"
    <3>1. After(step[c]) # "returned"  BY <2>1 DEF After
    <3>2. outcome' = outcome  BY <3>1
    <3>3. QED  BY <1>6, <2>1, <3>2, RenamePublishes DEF BuildInv
  <2>2. CASE step[c] # "rename"
    <3>1. step'[c] = "rename" => step[c] = "stat"
      BY <1>5, <1>6 DEF StepInv, Names, After
    <3>2. step'[c] \in {"sync", "open", "returned"} => step[c] \in {"sync", "open"}
      BY <1>5, <1>6, <2>2 DEF StepInv, Names, After
    <3>3. \A d \in Calls : step'[d] = "rename" => step[d] = "rename" \/ published = <<>>
      BY <1>2, <3>1 DEF Absent
    <3>4. \A d \in Calls : outcome'[d] = "ok" => outcome[d] = "ok" \/ (d = c /\ After(step[c]) = "returned")
      BY <1>6 DEF BoundsInv
    <3>5. \A d \in Calls : step'[d] \in {"sync", "open"} \/ outcome'[d] = "ok" =>
             step[d] \in {"sync", "open"} \/ outcome[d] = "ok"
      BY <1>2, <1>5, <3>2, <3>4
    <3>6. QED  BY <2>2, <3>3, <3>5, PublishedFrame DEF BuildInv
  <2>3. QED  BY <2>1, <2>2
<1>8. QED  BY <1>1, <1>3, <1>4, <1>7 DEF BuildInv

\* A call that returns an error, or whose process dies, leaves its rows where they are.
LEMMA Halts ==
  ASSUME BuildInv, NEW c \in Calls, step[c] # "idle",
         input' = input, published' = published, reader' = reader,
         taken' = taken, stored' = stored, identity' = identity, handles' = handles \ {c},
         NEW s \in {"returned", "dead"}, step' = [step EXCEPT ![c] = s],
         pending' = IF s = "dead" THEN pending ELSE [pending EXCEPT ![c] = <<>>],
         \/ outcome' = outcome
         \/ outcome' = [outcome EXCEPT ![c] = "error"],
         \/ temporary' = temporary \ {c} /\ lingering' = lingering
         \/ temporary' = temporary /\ lingering' = lingering \cup ({c} \cap temporary),
         faults' \in 0 .. MaxFaults, accidents' \in 0 .. MaxAccidents,
         faults <= faults', accidents <= accidents',
         lingering' # lingering => faults' + accidents' >= faults + accidents + 1
  PROVE  BuildInv'
<1>1. kind' = kind  BY InputFrame
<1>2. BoundsInv /\ StoreInv(c)  BY DEF BuildInv, StoresInv
<1>3. step'[c] = s /\ \A d \in Calls \ {c} : step'[d] = step[d]  BY DEF BuildInv, MapsInv
<1>4. /\ pending'[c] = IF s = "dead" THEN pending[c] ELSE <<>>
      /\ \A d \in Calls \ {c} : pending'[d] = pending[d]
  BY DEF BuildInv, MapsInv
<1>5. MapsInv'
  <2>1. step' = [d \in Calls |-> step'[d]]  BY DEF BuildInv, MapsInv
  <2>2. pending' = [d \in Calls |-> pending'[d]]  BY DEF BuildInv, MapsInv
  <2>3. QED  BY <2>1, <2>2 DEF BuildInv, MapsInv
<1>6. InputInv' /\ \A d \in Calls : CallInv(d)'
  <2>1. CallInv(c)'  BY <1>3, <1>4, HaltLeaves DEF BuildInv
  <2>2. QED  BY <1>3, <1>4, <2>1, CallsKeep DEF BuildInv
<1>7. outcome \in [Calls -> {"none", "ok", "error"}]  BY <1>2 DEF BoundsInv
<1>8. /\ outcome' \in [Calls -> {"none", "ok", "error"}]
      /\ \A d \in Calls \ {c} : outcome'[d] = outcome[d]
      /\ outcome'[c] = "ok" => outcome[c] = "ok"
  BY <1>7
<1>9. PublishedInv'
  <2>1. \A d \in Calls : step'[d] = "rename" => step[d] = "rename"  BY <1>3
  <2>2. \A d \in Calls : step'[d] \in {"sync", "open"} => step[d] \in {"sync", "open"}  BY <1>3
  <2>3. \A d \in Calls : outcome'[d] = "ok" => outcome[d] = "ok"  BY <1>8
  <2>4. QED  BY <2>1, <2>2, <2>3, PublishedFrame DEF BuildInv
<1>10. ReaderInv'  BY ReaderFrame DEF BuildInv
<1>11. \A d \in Calls : StoreInv(d)'
  <2>1. lingering \subseteq lingering'  OBVIOUS
  <2>2. \A d \in Calls \ {c} : StoreInv(d)'
    <3>1. \A d \in Calls \ {c} : (d \in temporary' <=> d \in temporary) /\ (d \in handles' <=> d \in handles)
      OBVIOUS
    <3>2. QED  BY <1>3, <1>8, <2>1, <3>1, StoreFrame DEF BuildInv, StoresInv
  <2>3. c \in temporary' => c \in lingering'  OBVIOUS
  <2>4. StoreInv(c)'  BY <1>3, <2>3 DEF StoreInv, Filling
  <2>5. QED  BY <2>2, <2>4
<1>12. BoundsInv'
  <2>1. /\ IsFiniteSet(lingering') /\ Cardinality(lingering') <= faults' + accidents'
    <3>1. PICK a \in Nat, b \in Nat : a = faults /\ b = accidents
      BY <1>2, BoundAssumption DEF BoundsInv
    <3>2. PICK a2 \in Nat, b2 \in Nat : a2 = faults' /\ b2 = accidents'  BY BoundAssumption
    <3>3. IsFiniteSet(lingering) /\ Cardinality(lingering) <= a + b  BY <1>2, <3>1 DEF BoundsInv
    <3>4. Cardinality(lingering) \in Nat  BY <3>3, FS_CardinalityType
    <3>5. CASE lingering' = lingering  BY <3>1, <3>2, <3>3, <3>4, <3>5
    <3>6. CASE lingering' # lingering
      <4>1. lingering' = lingering \cup {c}  BY <3>6
      <4>2. a + b \in Nat  OBVIOUS
      <4>3. IsFiniteSet(lingering \cup {c}) /\ Cardinality(lingering \cup {c}) <= a + b + 1
        BY <3>3, <4>2, OneMoreLingers
      <4>4. PICK m \in Nat : m = Cardinality(lingering \cup {c})  BY <4>3, FS_CardinalityType
      <4>5. a2 + b2 >= a + b + 1  BY <3>1, <3>2, <3>6
      <4>6. m <= a + b + 1  BY <4>3, <4>4
      <4>7. m <= a2 + b2
        <5>1. PICK x \in Nat, y \in Nat : x = a + b + 1 /\ y = a2 + b2  OBVIOUS
        <5>2. m <= x /\ x <= y  BY <4>5, <4>6, <5>1
        <5>3. QED  BY <5>1, <5>2
      <4>8. IsFiniteSet(lingering') /\ Cardinality(lingering') = m  BY <4>1, <4>3, <4>4
      <4>9. QED  BY <3>2, <4>7, <4>8
    <3>7. QED  BY <3>5, <3>6
  <2>2. temporary' \subseteq Calls /\ handles' \subseteq Calls /\ lingering' \subseteq Calls
    BY <1>2 DEF BoundsInv
  <2>3. QED  BY <1>8, <2>1, <2>2 DEF BoundsInv
<1>13. QED  BY <1>5, <1>6, <1>9, <1>10, <1>11, <1>12 DEF BuildInv, StoresInv

\* A call that returns an error.
LEMMA ReturnKeeps ==
  ASSUME BuildInv, NEW c \in Calls, step[c] # "idle", NEW failed \in {0, 1},
         faults + failed <= MaxFaults, Return(c, failed)
  PROVE  BuildInv'
<1>1. PICK a \in Nat, b \in Nat : a = faults /\ b = accidents /\ b <= MaxAccidents /\ a <= MaxFaults
  BY BoundAssumption DEF BuildInv, StoresInv, BoundsInv
<1>2. /\ step' = [step EXCEPT ![c] = "returned"] /\ outcome' = [outcome EXCEPT ![c] = "error"]
      /\ pending' = [pending EXCEPT ![c] = <<>>] /\ handles' = handles \ {c}
      /\ input' = input /\ taken' = taken /\ stored' = stored /\ identity' = identity
      /\ published' = published /\ reader' = reader /\ accidents' = b
  BY <1>1 DEF Return
<1>3. \/ temporary' = temporary \ {c} /\ lingering' = lingering /\ faults' = a + failed
      \/ /\ temporary' = temporary /\ lingering' = lingering \cup {c} /\ c \in temporary
         /\ faults' = a + failed + 1 /\ a + failed < MaxFaults
  BY <1>1 DEF Return
<1>4. /\ faults' \in 0 .. MaxFaults /\ accidents' \in 0 .. MaxAccidents
      /\ faults <= faults' /\ accidents <= accidents'
      /\ lingering' # lingering => faults' + accidents' >= faults + accidents + 1
  BY <1>1, <1>2, <1>3, BoundAssumption
<1>5. \/ temporary' = temporary \ {c} /\ lingering' = lingering
      \/ temporary' = temporary /\ lingering' = lingering \cup ({c} \cap temporary)
  BY <1>3
<1>6. PICK s \in {"returned", "dead"} : s = "returned"  OBVIOUS
<1>7. QED  BY <1>2, <1>4, <1>5, <1>6, Halts

\* A call that is refused.
LEMMA RefuseKeeps ==
  ASSUME BuildInv, NEW c \in Calls, step[c] # "idle", Refuse(c)
  PROVE  BuildInv'
<1>1. faults + 0 <= MaxFaults  BY BoundAssumption DEF BuildInv, StoresInv, BoundsInv
<1>2. QED  BY <1>1, ReturnKeeps DEF Refuse

\* A call of which an operation fails.
LEMMA FailKeeps ==
  ASSUME BuildInv, NEW c \in Calls, Fail(c)
  PROVE  BuildInv'
<1>1. step[c] # "idle" /\ faults + 1 <= MaxFaults /\ Return(c, 1)
  BY BoundAssumption DEF Fail, Running, BuildInv, StoresInv, BoundsInv
<1>2. QED  BY <1>1, ReturnKeeps

\* The process of a call dies.
LEMMA CrashKeeps ==
  ASSUME BuildInv, NEW c \in Calls, Crash(c)
  PROVE  BuildInv'
<1>1. PICK a \in Nat, b \in Nat : a = faults /\ b = accidents /\ a <= MaxFaults
  BY BoundAssumption DEF BuildInv, StoresInv, BoundsInv
<1>2. /\ step' = [step EXCEPT ![c] = "dead"] /\ outcome' = outcome
      /\ pending' = pending /\ handles' = handles \ {c}
      /\ input' = input /\ taken' = taken /\ stored' = stored /\ identity' = identity
      /\ published' = published /\ reader' = reader
      /\ temporary' = temporary /\ lingering' = lingering \cup ({c} \cap temporary)
      /\ faults' = a /\ accidents' = b + 1 /\ b < MaxAccidents /\ step[c] # "idle"
  BY <1>1 DEF Crash, filling, Running
<1>3. /\ faults' \in 0 .. MaxFaults /\ accidents' \in 0 .. MaxAccidents
      /\ faults <= faults' /\ accidents <= accidents'
      /\ lingering' # lingering => faults' + accidents' >= faults + accidents + 1
  BY <1>1, <1>2, BoundAssumption
<1>4. PICK s \in {"returned", "dead"} : s = "dead"  OBVIOUS
<1>5. QED  BY <1>2, <1>3, <1>4, Halts

-----------------------------------------------------------------------------
(* The steps of a call.                                                    *)

\* The variables of the calls stay functions when they change for one.
LEMMA MapsKept ==
  ASSUME MapsInv, NEW c \in Calls,
         step' = step \/ \E s : step' = [step EXCEPT ![c] = s],
         taken' = taken \/ \E v : taken' = [taken EXCEPT ![c] = v],
         pending' = pending \/ \E v : pending' = [pending EXCEPT ![c] = v],
         stored' = stored \/ \E v : stored' = [stored EXCEPT ![c] = v],
         identity' = identity \/ \E v : identity' = [identity EXCEPT ![c] = v]
  PROVE  MapsInv' /\ \A d \in Calls \ {c} : /\ step'[d] = step[d] /\ taken'[d] = taken[d]
                                            /\ pending'[d] = pending[d] /\ stored'[d] = stored[d]
                                            /\ identity'[d] = identity[d]
<1>1. step' = [d \in Calls |-> step'[d]] /\ \A d \in Calls \ {c} : step'[d] = step[d]
  BY DEF MapsInv
<1>2. taken' = [d \in Calls |-> taken'[d]] /\ \A d \in Calls \ {c} : taken'[d] = taken[d]
  BY DEF MapsInv
<1>3. pending' = [d \in Calls |-> pending'[d]] /\ \A d \in Calls \ {c} : pending'[d] = pending[d]
  BY DEF MapsInv
<1>4. stored' = [d \in Calls |-> stored'[d]] /\ \A d \in Calls \ {c} : stored'[d] = stored[d]
  BY DEF MapsInv
<1>5. identity' = [d \in Calls |-> identity'[d]] /\ \A d \in Calls \ {c} : identity'[d] = identity[d]
  BY DEF MapsInv
<1>6. QED  BY <1>1, <1>2, <1>3, <1>4, <1>5 DEF MapsInv

\* A call is accepted or refused.
LEMMA StartKeeps ==
  ASSUME BuildInv, NEW c \in Calls, Start(c)
  PROVE  BuildInv'
<1>1. /\ step[c] = "idle" /\ input' = input /\ taken' = taken /\ pending' = pending
      /\ stored' = stored /\ identity' = identity /\ temporary' = temporary /\ handles' = handles
      /\ published' = published /\ lingering' = lingering /\ reader' = reader /\ bounds' = bounds
  BY DEF Start, filling
<1>2. PICK s : /\ step' = [step EXCEPT ![c] = s] /\ (s = "returned" \/ (Startable(c) /\ s = Steps[1]))
               /\ (outcome' = outcome \/ outcome' = [outcome EXCEPT ![c] = "error"])
  BY DEF Start
<1>3. kind' = kind /\ kind \in Kinds  BY <1>1, InputFrame DEF BuildInv, InputInv, Input
<1>4. s \in {"returned", "create"}  BY <1>2, <1>3 DEF Steps, Kinds
<1>5. MapsInv' /\ \A d \in Calls \ {c} : step'[d] = step[d]
  BY <1>1, <1>2, MapsKept DEF BuildInv
<1>6. step'[c] = s  BY <1>2 DEF BuildInv, MapsInv
<1>7. InputInv' /\ \A d \in Calls : CallInv(d)'
  <2>1. CallInv(c)'  BY <1>1, <1>2, <1>6, StartLeaves DEF BuildInv
  <2>2. QED  BY <1>1, <1>5, <2>1, CallsKeep DEF BuildInv
<1>8. BoundsInv /\ StoreInv(c)  BY DEF BuildInv, StoresInv
<1>9. outcome \in [Calls -> {"none", "ok", "error"}]  BY <1>8 DEF BoundsInv
<1>10. /\ outcome' \in [Calls -> {"none", "ok", "error"}]
       /\ \A d \in Calls \ {c} : outcome'[d] = outcome[d]
       /\ outcome'[c] = "ok" => outcome[c] = "ok"
  BY <1>2, <1>9
<1>11. PublishedInv'
  <2>1. \A d \in Calls : step'[d] = "rename" => step[d] = "rename"  BY <1>4, <1>5, <1>6
  <2>2. \A d \in Calls : step'[d] \in {"sync", "open"} => step[d] \in {"sync", "open"}
    BY <1>4, <1>5, <1>6
  <2>3. \A d \in Calls : outcome'[d] = "ok" => outcome[d] = "ok"  BY <1>10
  <2>4. QED  BY <1>1, <2>1, <2>2, <2>3, PublishedFrame DEF BuildInv
<1>12. ReaderInv'  BY <1>1, ReaderFrame DEF BuildInv
<1>13. \A d \in Calls : StoreInv(d)'
  <2>1. \A d \in Calls \ {c} : StoreInv(d)'
    BY <1>1, <1>5, <1>10, StoreFrame DEF BuildInv, StoresInv
  <2>2. StoreInv(c)'
    <3>1. c \notin handles  BY <1>1, <1>8 DEF StoreInv, Filling
    <3>2. c \in temporary => c \in lingering  BY <1>1, <1>8 DEF StoreInv, Filling
    <3>3. QED  BY <1>1, <1>4, <1>6, <3>1, <3>2 DEF StoreInv, Filling
  <2>3. QED  BY <2>1, <2>2
<1>14. BoundsInv'  BY <1>1, <1>8, <1>10 DEF BoundsInv, bounds
<1>15. QED  BY <1>5, <1>7, <1>11, <1>12, <1>13, <1>14 DEF BuildInv, StoresInv

\* A call goes on and its rows are left alone.
LEMMA StepsOn ==
  ASSUME BuildInv, NEW c \in Calls, Continue(c),
         step[c] \in {"create", "prepare", "close", "stat", "rename", "sync", "open"},
         input' = input, filling' = filling, lingering' = lingering, bounds' = bounds,
         reader' = reader,
         temporary' = IF step[c] = "create" THEN temporary \cup {c}
                      ELSE IF step[c] = "rename" THEN temporary \ {c} ELSE temporary,
         handles' = IF step[c] \in {"prepare", "open"} THEN handles \cup {c}
                    ELSE IF step[c] = "close" THEN handles \ {c} ELSE handles,
         IF step[c] = "rename" THEN Renames /\ published' = Append(published, Publication(c))
         ELSE published' = published,
         step[c] = "stat" => Absent
  PROVE  BuildInv'
<1>1. /\ taken' = taken /\ pending' = pending /\ stored' = stored /\ identity' = identity
  BY DEF filling
<1>2. step[c] \notin {"idle", "returned", "dead"}  OBVIOUS
<1>3. StepInv(c) /\ kind \in Kinds  BY DEF BuildInv, CallInv, InputInv, Input
<1>4. /\ step' = [step EXCEPT ![c] = After(step[c])]
      /\ outcome' = IF After(step[c]) = "returned" THEN [outcome EXCEPT ![c] = "ok"] ELSE outcome
  BY <1>2, <1>3, ContinueMoves
<1>5. MapsInv'  BY <1>1, <1>4, MapsKept DEF BuildInv
<1>6. step'[c] = After(step[c])  BY <1>4 DEF BuildInv, MapsInv
<1>7. CallInv(c)'  BY <1>1, <1>6, MoveLeaves DEF BuildInv
<1>8. QED  BY <1>1, <1>2, <1>4, <1>5, <1>7, MovesOn

\* The steps before and after the filling.
LEMMA CreateKeeps ==
  ASSUME BuildInv, NEW c \in Calls, Create(c) PROVE BuildInv'
<1>1. Continue(c) /\ step[c] = "create"  BY DEF Create
<1>2. QED  BY <1>1, StepsOn DEF Create

\* The temporary store is opened.
LEMMA PrepareKeeps ==
  ASSUME BuildInv, NEW c \in Calls, Prepare(c) PROVE BuildInv'
<1>1. Continue(c) /\ step[c] = "prepare"  BY DEF Prepare
<1>2. QED  BY <1>1, StepsOn DEF Prepare

\* The store is closed before the rename.
LEMMA CloseKeeps ==
  ASSUME BuildInv, NEW c \in Calls, CloseStore(c) PROVE BuildInv'
<1>1. Continue(c) /\ step[c] = "close"  BY DEF CloseStore
<1>2. QED  BY <1>1, StepsOn DEF CloseStore

\* The directory of the destination is synced.
LEMMA SyncKeeps ==
  ASSUME BuildInv, NEW c \in Calls, Sync(c) PROVE BuildInv'
<1>1. Continue(c) /\ step[c] = "sync"  BY DEF Sync
<1>2. QED  BY <1>1, StepsOn DEF Sync

\* The destination is free, or the call is refused.
LEMMA StatKeeps ==
  ASSUME BuildInv, NEW c \in Calls, Stat(c) PROVE BuildInv'
<1>1. step[c] = "stat"  BY DEF Stat
<1>2. CASE Absent
  <2>1. Continue(c)  BY <1>2 DEF Stat
  <2>2. QED  BY <1>1, <1>2, <2>1, StepsOn DEF Stat
<1>3. CASE ~Absent
  <2>1. Refuse(c)  BY <1>3 DEF Stat
  <2>2. QED  BY <1>1, <2>1, RefuseKeeps
<1>4. QED  BY <1>2, <1>3

\* The temporary store becomes the one at the destination.
LEMMA RenameKeeps ==
  ASSUME BuildInv, NEW c \in Calls, Rename(c) PROVE BuildInv'
<1>1. step[c] = "rename"  BY DEF Rename
<1>2. CASE Renames
  <2>1. Continue(c)  BY <1>2 DEF Rename
  <2>2. QED  BY <1>1, <1>2, <2>1, StepsOn DEF Rename
<1>3. CASE ~Renames
  <2>1. Refuse(c)  BY <1>3 DEF Rename
  <2>2. QED  BY <1>1, <2>1, RefuseKeeps
<1>4. QED  BY <1>2, <1>3

\* The store at the destination is opened for the caller.
LEMMA OpenKeeps ==
  ASSUME BuildInv, NEW c \in Calls, Open(c) PROVE BuildInv'
<1>1. step[c] = "open"  BY DEF Open
<1>2. CASE Refuse(c)  BY <1>1, <1>2, RefuseKeeps
<1>3. CASE ~Refuse(c)
  <2>1. /\ Continue(c) /\ handles' = handles \cup {c}
        /\ UNCHANGED <<input, filling, temporary, published, lingering, reader, bounds>>
    BY <1>3 DEF Open
  <2>2. QED  BY <1>1, <2>1, StepsOn
<1>4. QED  BY <1>2, <1>3

\* A row is taken.
LEMMA TakeKeeps ==
  ASSUME BuildInv, NEW c \in Calls, Take(c) PROVE BuildInv'
<1>1. PICK t \in TableNames : t = step[c]  BY DEF Take
<1>2. step[c] # "idle"  BY <1>1 DEF TableNames
<1>3. CASE Refuse(c)  BY <1>2, <1>3, RefuseKeeps
<1>4. CASE ~Refuse(c)
  <2>1. PICK row : row = Stream(c, t)[Len(taken[c][t]) + 1]  OBVIOUS
  <2>2. PICK batch : batch = Commit(pending[c], <<row>>)  OBVIOUS
  <2>3. /\ Len(taken[c][t]) < Len(Stream(c, t)) /\ Admissible(c, t, row)
        /\ taken' = [taken EXCEPT ![c][t] = Append(taken[c][t], row)]
        /\ input' = input /\ step' = step /\ identity' = identity /\ temporary' = temporary
        /\ handles' = handles /\ outcome' = outcome /\ published' = published
        /\ lingering' = lingering /\ reader' = reader /\ bounds' = bounds
    BY <1>1, <1>4, <2>1 DEF Take
  <2>4. IF BatchFull(c, Len(taken[c][t]) + 1)
        THEN /\ stored' = [stored EXCEPT ![c][t] = Commit(stored[c][t], batch)]
             /\ pending' = [pending EXCEPT ![c] = <<>>]
        ELSE pending' = [pending EXCEPT ![c] = batch] /\ stored' = stored
    BY <1>1, <1>4, <2>1, <2>2, <2>3 DEF Take
  <2>5. PICK T : T = [taken[c] EXCEPT ![t] = Append(taken[c][t], row)]  OBVIOUS
  <2>6. PICK S : S = [stored[c] EXCEPT ![t] = Commit(stored[c][t], batch)]  OBVIOUS
  <2>7. taken' = [taken EXCEPT ![c] = T]  BY <2>3, <2>5
  <2>8. BatchFull(c, Len(taken[c][t]) + 1) => stored' = [stored EXCEPT ![c] = S]
    BY <2>4, <2>6
  <2>9. MapsInv' /\ \A d \in Calls \ {c} : /\ step'[d] = step[d] /\ taken'[d] = taken[d]
                                           /\ pending'[d] = pending[d] /\ stored'[d] = stored[d]
                                           /\ identity'[d] = identity[d]
    BY <2>3, <2>4, <2>7, <2>8, MapsKept DEF BuildInv
  <2>10. taken'[c] = T  BY <2>7 DEF BuildInv, MapsInv
  <2>11. IF BatchFull(c, Len(taken[c][t]) + 1)
         THEN stored'[c] = S /\ pending'[c] = <<>>
         ELSE pending'[c] = batch /\ stored'[c] = stored[c]
    BY <2>4, <2>8 DEF BuildInv, MapsInv
  <2>12. CallInv(c)'
    <3>1. step[c] = t /\ step'[c] = t /\ identity'[c] = identity[c]  BY <1>1, <2>3
    <3>2. /\ taken'[c] = [taken[c] EXCEPT ![t] = Append(taken[c][t], row)]
          /\ BatchFull(c, Len(taken[c][t]) + 1) =>
               /\ stored'[c] = [stored[c] EXCEPT ![t] = Commit(stored[c][t], batch)]
               /\ pending'[c] = <<>>
          /\ ~BatchFull(c, Len(taken[c][t]) + 1) =>
               pending'[c] = batch /\ stored'[c] = stored[c]
      BY <2>5, <2>6, <2>10, <2>11
    <3>3. input' = input /\ Len(taken[c][t]) < Len(Stream(c, t)) /\ Admissible(c, t, row)
      BY <2>3
    <3>4. Takes(c, t, row, batch)  BY <2>1, <2>2, <3>1, <3>2, <3>3, Zenon DEF Takes
    <3>5. QED  BY <1>1, <3>4, TakeLeaves DEF BuildInv
  <2>13. InputInv' /\ \A d \in Calls : CallInv(d)'
    BY <2>3, <2>9, <2>12, CallsKeep DEF BuildInv
  <2>14. PublishedInv'  BY <2>3, PublishedFrame DEF BuildInv
  <2>15. ReaderInv'  BY <2>3, ReaderFrame DEF BuildInv
  <2>16. StoresInv'
    <3>1. \A d \in Calls : StoreInv(d)'  BY <2>3, StoreFrame DEF BuildInv, StoresInv
    <3>2. BoundsInv'  BY <2>3 DEF BuildInv, StoresInv, BoundsInv, bounds
    <3>3. QED  BY <3>1, <3>2 DEF StoresInv
  <2>17. QED  BY <2>9, <2>13, <2>14, <2>15, <2>16 DEF BuildInv
<1>5. QED  BY <1>3, <1>4

\* A table is complete.
LEMMA CompleteKeeps ==
  ASSUME BuildInv, NEW c \in Calls, Complete(c) PROVE BuildInv'
<1>1. PICK t \in TableNames : t = step[c]  BY DEF Complete
<1>2. step[c] \notin {"idle", "returned", "dead", "create", "prepare", "open", "close", "rename", "stat"}
  BY <1>1 DEF TableNames
<1>3. CASE Refuse(c)  BY <1>2, <1>3, RefuseKeeps
<1>4. CASE ~Refuse(c)
  <2>1. PICK S : S = [stored[c] EXCEPT ![t] = Commit(stored[c][t], pending[c])]  OBVIOUS
  <2>2. /\ Len(taken[c][t]) = Len(Stream(c, t))
        /\ t = "entries" => Len(taken[c].entries) = input[c].expected
        /\ Continue(c) /\ pending' = [pending EXCEPT ![c] = <<>>]
        /\ stored' = [stored EXCEPT ![c][t] = Commit(stored[c][t], pending[c])]
        /\ input' = input /\ taken' = taken /\ identity' = identity /\ temporary' = temporary
        /\ handles' = handles /\ published' = published
        /\ lingering' = lingering /\ reader' = reader /\ bounds' = bounds
    BY <1>1, <1>4 DEF Complete, Committed
  <2>3. stored' = [stored EXCEPT ![c] = S]  BY <2>1, <2>2
  <2>4. StepInv(c) /\ kind \in Kinds  BY DEF BuildInv, CallInv, InputInv, Input
  <2>5. /\ step' = [step EXCEPT ![c] = After(step[c])]
        /\ outcome' = IF After(step[c]) = "returned" THEN [outcome EXCEPT ![c] = "ok"] ELSE outcome
    BY <1>2, <2>2, <2>4, ContinueMoves
  <2>6. MapsInv' /\ \A d \in Calls \ {c} : /\ step'[d] = step[d] /\ taken'[d] = taken[d]
                                           /\ pending'[d] = pending[d] /\ stored'[d] = stored[d]
                                           /\ identity'[d] = identity[d]
    BY <2>2, <2>3, <2>5, MapsKept DEF BuildInv
  <2>7. step'[c] = After(t) /\ pending'[c] = <<>> /\ stored'[c] = S
    BY <1>1, <2>2, <2>3, <2>5 DEF BuildInv, MapsInv
  <2>8. CallInv(c)'
    <3>1. InputInv /\ CallInv(c) /\ step[c] = t  BY <1>1 DEF BuildInv
    <3>2. taken'[c] = taken[c] /\ identity'[c] = identity[c]  BY <2>2
    <3>3. QED  BY <2>1, <2>2, <2>7, <3>1, <3>2, CompleteLeaves
  <2>9. QED  BY <1>2, <2>2, <2>5, <2>6, <2>8, MovesOn
<1>5. QED  BY <1>3, <1>4

\* The identity is written.
LEMMA IdentityKeeps ==
  ASSUME BuildInv, NEW c \in Calls, WriteIdentity(c) PROVE BuildInv'
<1>1. step[c] = "identity"  BY DEF WriteIdentity
<1>2. CASE Refuse(c)  BY <1>1, <1>2, RefuseKeeps
<1>3. CASE ~Refuse(c)
  <2>1. /\ ~(kind = "content" /\ (taken[c].documents = <<>> \/ taken[c].chunks = <<>>))
        /\ Continue(c) /\ identity' = [identity EXCEPT ![c] = taken[c]]
        /\ input' = input /\ taken' = taken /\ pending' = pending /\ stored' = stored
        /\ temporary' = temporary /\ handles' = handles /\ published' = published
        /\ lingering' = lingering /\ reader' = reader /\ bounds' = bounds
    BY <1>3 DEF WriteIdentity
  <2>2. StepInv(c) /\ kind \in Kinds  BY DEF BuildInv, CallInv, InputInv, Input
  <2>3. /\ step' = [step EXCEPT ![c] = After(step[c])]
        /\ outcome' = IF After(step[c]) = "returned" THEN [outcome EXCEPT ![c] = "ok"] ELSE outcome
    BY <1>1, <2>1, <2>2, ContinueMoves
  <2>4. MapsInv' /\ \A d \in Calls \ {c} : /\ step'[d] = step[d] /\ taken'[d] = taken[d]
                                           /\ pending'[d] = pending[d] /\ stored'[d] = stored[d]
                                           /\ identity'[d] = identity[d]
    BY <2>1, <2>3, MapsKept DEF BuildInv
  <2>5. step'[c] = "close" /\ identity'[c] = taken[c]
    BY <1>1, <2>1, <2>3 DEF BuildInv, MapsInv, After
  <2>6. CallInv(c)'  BY <1>1, <2>1, <2>5, IdentityLeaves DEF BuildInv
  <2>7. QED  BY <1>1, <2>1, <2>3, <2>4, <2>6, MovesOn
<1>4. QED  BY <1>2, <1>3

-----------------------------------------------------------------------------
(* What inspections list.                                                  *)

\* List w has the rows of three lists.
HasAll(w, A, K, B) ==
  /\ \A n \in DOMAIN A : \E i \in DOMAIN w : w[i] = A[n]
  /\ \A n \in DOMAIN K : \E i \in DOMAIN w : w[i] = K[n]
  /\ \A n \in DOMAIN B : \E i \in DOMAIN w : w[i] = B[n]
  /\ \A i \in DOMAIN w : \/ \E n \in DOMAIN A : w[i] = A[n]
                         \/ \E n \in DOMAIN K : w[i] = K[n]
                         \/ \E n \in DOMAIN B : w[i] = B[n]

\* Three lists one after the other.
LEMMA Joined ==
  ASSUME NEW A \in Seq(Row), NEW K \in Seq(Row), NEW B \in Seq(Row)
  PROVE  /\ A \o K \o B \in Seq(Row) /\ Len(A \o K \o B) = Len(A) + Len(K) + Len(B)
         /\ HasAll(A \o K \o B, A, K, B)
<1>0. PICK w : w = A \o K \o B  OBVIOUS
<1>1. PICK a \in Nat : a = Len(A) /\ DOMAIN A = 1 .. a  OBVIOUS
<1>2. PICK k \in Nat : k = Len(K) /\ DOMAIN K = 1 .. k  OBVIOUS
<1>3. PICK b \in Nat : b = Len(B) /\ DOMAIN B = 1 .. b  OBVIOUS
<1>4. PICK v \in Seq(Row) : v = A \o K  BY Concatenated
<1>5. /\ Len(v) = a + k /\ \A i \in 1 .. a : v[i] = A[i]
      /\ \A i \in 1 .. k : v[a + i] = K[i]
  BY <1>1, <1>2, <1>4, Concatenated
<1>6. /\ w \in Seq(Row) /\ Len(w) = a + k + b /\ \A i \in 1 .. a + k : w[i] = v[i]
      /\ \A i \in 1 .. b : w[a + k + i] = B[i]
  <2>1. w = v \o B /\ w \in Seq(Row)  BY <1>0, <1>4, Concatenated
  <2>2. /\ Len(w) = Len(v) + b /\ \A i \in 1 .. Len(v) : w[i] = v[i]
        /\ \A i \in 1 .. b : w[Len(v) + i] = B[i]
    BY <1>3, <1>4, <2>1, Concatenated
  <2>3. QED  BY <1>5, <2>1, <2>2
<1>7. DOMAIN w = 1 .. a + k + b  BY <1>6
<1>8. \A n \in 1 .. a : n \in DOMAIN w /\ w[n] = A[n]
  <2>1. \A n \in 1 .. a : n \in 1 .. a + k /\ n \in 1 .. a + k + b  OBVIOUS
  <2>2. QED  BY <1>5, <1>6, <1>7, <2>1
<1>9. \A n \in 1 .. k : a + n \in DOMAIN w /\ w[a + n] = K[n]
  <2>1. \A n \in 1 .. k : a + n \in 1 .. a + k /\ a + n \in 1 .. a + k + b  OBVIOUS
  <2>2. QED  BY <1>5, <1>6, <1>7, <2>1
<1>10. \A n \in 1 .. b : a + k + n \in DOMAIN w /\ w[a + k + n] = B[n]
  <2>1. \A n \in 1 .. b : a + k + n \in 1 .. a + k + b  OBVIOUS
  <2>2. QED  BY <1>6, <1>7, <2>1
<1>11. ASSUME NEW i \in DOMAIN w
       PROVE  \/ \E n \in DOMAIN A : w[i] = A[n]
              \/ \E n \in DOMAIN K : w[i] = K[n]
              \/ \E n \in DOMAIN B : w[i] = B[n]
  <2>1. CASE i \in 1 .. a  BY <1>1, <1>8, <2>1
  <2>2. CASE i \in a + 1 .. a + k
    <3>1. PICK n \in 1 .. k : i = a + n
      <4>1. i - a \in 1 .. k /\ i = a + (i - a)  BY <2>2
      <4>2. QED  BY <4>1
    <3>2. QED  BY <1>2, <1>9, <3>1
  <2>3. CASE i \in a + k + 1 .. a + k + b
    <3>1. PICK n \in 1 .. b : i = a + k + n
      <4>1. i - (a + k) \in 1 .. b /\ i = a + k + (i - (a + k))  BY <2>3
      <4>2. QED  BY <4>1
    <3>2. QED  BY <1>3, <1>10, <3>1
  <2>4. QED  BY <1>7, <2>1, <2>2, <2>3
<1>12. \A n \in DOMAIN A : \E i \in DOMAIN w : w[i] = A[n]  BY <1>1, <1>8
<1>13. \A n \in DOMAIN K : \E i \in DOMAIN w : w[i] = K[n]  BY <1>2, <1>9
<1>14. \A n \in DOMAIN B : \E i \in DOMAIN w : w[i] = B[n]  BY <1>3, <1>10
<1>15. HasAll(w, A, K, B)  BY <1>11, <1>12, <1>13, <1>14 DEF HasAll
<1>16. QED  BY <1>0, <1>1, <1>2, <1>3, <1>6, <1>15

\* The places of the chunks whose document is there.
Placed(T) == {n \in DOMAIN T.chunks : HasDocument(T.documents, T.chunks[n])}

\* An inspection lists the documents, the chunks that have one, and the entries.
LEMMA CanonicalRows ==
  ASSUME NEW T \in Tables
  PROVE  /\ Canonical(T) \in Seq(Row)
         /\ Len(Canonical(T)) = Len(T.documents) + Cardinality(Placed(T)) + Len(T.entries)
         /\ Cardinality(Placed(T)) \in Nat /\ Cardinality(Placed(T)) <= Len(T.chunks)
         /\ \A n \in DOMAIN T.documents : \E i \in DOMAIN Canonical(T) : Canonical(T)[i] = T.documents[n]
         /\ \A n \in Placed(T) : \E i \in DOMAIN Canonical(T) : Canonical(T)[i] = T.chunks[n]
         /\ \A n \in DOMAIN T.entries : \E i \in DOMAIN Canonical(T) : Canonical(T)[i] = T.entries[n]
         /\ \A i \in DOMAIN Canonical(T) :
              \E t \in TableNames : \E n \in DOMAIN T[t] : Canonical(T)[i] = T[t][n]
<1>1. PICK A : A = T.documents  OBVIOUS
<1>2. PICK C : C = T.chunks  OBVIOUS
<1>3. PICK E : E = T.entries  OBVIOUS
<1>4. /\ T["documents"] = A /\ T["chunks"] = C /\ T["entries"] = E
      /\ {"documents", "chunks", "entries"} = TableNames
  BY <1>1, <1>2, <1>3 DEF TableNames
<1>5. A \in Seq(Row) /\ C \in Seq(Row) /\ E \in Seq(Row)  BY <1>4, TableRows
<1>6. PICK P : P = Placed(T)  OBVIOUS
<1>7. P \in SUBSET DOMAIN C  BY <1>2, <1>6 DEF Placed
<1>8. PICK K : K = Kept(C, Ascending(P))  OBVIOUS
<1>9. /\ K \in Seq(Row) /\ Len(K) = Cardinality(P) /\ Cardinality(P) \in Nat
      /\ \A n \in P : \E i \in DOMAIN K : K[i] = C[n]
      /\ \A i \in DOMAIN K : \E n \in DOMAIN C : K[i] = C[n]
  <2>1. K \in Seq(Row) /\ Len(K) = Cardinality(P) /\ Cardinality(P) \in Nat /\ Picks(K, C, P)
    BY <1>5, <1>7, <1>8, KeptRows
  <2>2. \A n \in P : \E i \in DOMAIN K : K[i] = C[n]  BY <2>1 DEF Picks
  <2>3. \A i \in DOMAIN K : \E n \in DOMAIN C : K[i] = C[n]  BY <1>7, <2>1 DEF Picks
  <2>4. QED  BY <2>1, <2>2, <2>3
<1>10. PICK B : B = ById(E)  OBVIOUS
<1>11. /\ B \in Seq(Row) /\ Len(B) = Len(E)
       /\ \A n \in DOMAIN E : \E i \in DOMAIN B : B[i] = E[n]
       /\ \A i \in DOMAIN B : \E n \in DOMAIN E : B[i] = E[n]
  BY <1>5, <1>10, RowsIdentified, ByIdRows
<1>12. PICK w : w = A \o K \o B  OBVIOUS
<1>13. Canonical(T) = w
  BY <1>1, <1>2, <1>3, <1>6, <1>8, <1>10, <1>12 DEF Canonical, Placed
<1>14. w \in Seq(Row) /\ Len(w) = Len(A) + Len(K) + Len(B) /\ HasAll(w, A, K, B)
  BY <1>5, <1>9, <1>11, <1>12, Joined
<1>15. Cardinality(P) <= Len(C)
  <2>1. PICK n \in Nat : n = Len(C) /\ DOMAIN C = 1 .. n  BY <1>5
  <2>2. IsFiniteSet(1 .. n) /\ Cardinality(1 .. n) = n  BY FS_Interval
  <2>3. P \subseteq 1 .. n  BY <1>7, <2>1
  <2>4. Cardinality(P) <= Cardinality(1 .. n)  BY <2>2, <2>3, FS_Subset
  <2>5. QED  BY <2>1, <2>2, <2>4
<1>16. \A n \in P : \E i \in DOMAIN w : w[i] = C[n]
  BY <1>9, <1>14 DEF HasAll
<1>17. \A n \in DOMAIN E : \E i \in DOMAIN w : w[i] = E[n]
  BY <1>11, <1>14 DEF HasAll
<1>18. \A i \in DOMAIN w : \E t \in TableNames : \E n \in DOMAIN T[t] : w[i] = T[t][n]
  <2>1. SUFFICES ASSUME NEW i \in DOMAIN w
                 PROVE  \E t \in TableNames : \E n \in DOMAIN T[t] : w[i] = T[t][n]
    OBVIOUS
  <2>2. CASE \E n \in DOMAIN A : w[i] = A[n]  BY <1>4, <2>2
  <2>3. CASE \E n \in DOMAIN K : w[i] = K[n]
    <3>1. \E n \in DOMAIN C : w[i] = C[n]  BY <1>9, <2>3
    <3>2. QED  BY <1>4, <3>1
  <2>4. CASE \E n \in DOMAIN B : w[i] = B[n]
    <3>1. \E n \in DOMAIN E : w[i] = E[n]  BY <1>11, <2>4
    <3>2. QED  BY <1>4, <3>1
  <2>5. QED  BY <1>14, <2>2, <2>3, <2>4 DEF HasAll
<1>19. \A n \in DOMAIN A : \E i \in DOMAIN w : w[i] = A[n]  BY <1>14 DEF HasAll
<1>20. Len(w) = Len(A) + Cardinality(P) + Len(E)  BY <1>9, <1>11, <1>14
<1>21. w \in Seq(Row) /\ Cardinality(P) \in Nat  BY <1>9, <1>14
<1>22. QED
  BY <1>1, <1>2, <1>3, <1>6, <1>13, <1>15, <1>16, <1>17, <1>18, <1>19, <1>20, <1>21, Zenon

\* Of well-formed tables it lists all rows in their order.
LEMMA CanonicalWhole ==
  ASSUME NEW T \in Tables, WellFormed(T)
  PROVE  /\ Placed(T) = DOMAIN T.chunks /\ Cardinality(Placed(T)) = Len(T.chunks)
         /\ ById(T.entries) = T.entries
<1>1. PICK C : C = T.chunks  OBVIOUS
<1>2. PICK E : E = T.entries  OBVIOUS
<1>3. /\ T["chunks"] = C /\ T["entries"] = E /\ "chunks" \in TableNames /\ "entries" \in TableNames
  BY <1>1, <1>2 DEF TableNames
<1>4. C \in Seq(Row) /\ E \in Seq(Row)  BY <1>3, TableRows
<1>5. PICK n \in Nat : n = Len(C) /\ DOMAIN C = 1 .. n  BY <1>4
<1>6. Placed(T) = DOMAIN C  BY <1>1 DEF Placed, WellFormed
<1>7. Cardinality(1 .. n) = n  BY FS_Interval
<1>8. Increasing(E)  BY <1>2 DEF WellFormed
<1>9. ById(E) = E  BY <1>4, <1>8, RowsIdentified, ByIdSorted
<1>10. QED  BY <1>1, <1>2, <1>5, <1>6, <1>7, <1>9

\* What was planned of a call's input is what is listed of all that it takes.
LEMMA PlannedIsCanonical ==
  ASSUME InputInv, NEW c \in Calls, WellFormed(Whole(c))
  PROVE  Planned(c) = Canonical(Whole(c))
<1>1. PICK W \in Tables : W = Whole(c) /\ \A t \in TableNames : W[t] = Stream(c, t)  BY StreamIs
<1>2. PICK T : T = input[c].produced  OBVIOUS
<1>3. W.documents = T.documents /\ W.chunks = T.chunks
  BY <1>1, <1>2, StreamIs DEF TableNames
<1>4. W.entries = IF input[c].whole THEN ById(T.entries) ELSE T.entries
  BY <1>1, <1>2, StreamIs DEF TableNames
<1>5. ById(W.entries) = W.entries  BY <1>1, CanonicalWhole
<1>6. ById(W.entries) = ById(T.entries)  BY <1>4, <1>5
<1>7. QED  BY <1>1, <1>2, <1>3, <1>6 DEF Planned, Canonical

\* The rows of Tables are of RowOf, whose identifier may be set.
LEMMA IdSet ==
  ASSUME NEW t \in TableNames, NEW row \in RowOf(t)
  PROVE  /\ [row EXCEPT !.id = 0] \in RowOf(t) /\ [row EXCEPT !.id = 0].id = 0
         /\ t = "chunks" => [row EXCEPT !.id = 0].document = row.document
<1>1. CASE t = "documents"
  BY <1>1 DEF RowOf, Document
<1>2. CASE t = "chunks"
  BY <1>2 DEF RowOf, Chunk
<1>3. CASE t = "entries"
  BY <1>3 DEF RowOf, Entry
<1>4. QED  BY <1>1, <1>2, <1>3 DEF TableNames

\* A table that has lost its last row or had it altered.
LEMMA AlteredRows ==
  ASSUME NEW t \in TableNames, NEW s \in Seq(RowOf(t)), NEW r, LastAltered(s, r)
  PROVE  /\ r \in Seq(RowOf(t)) /\ Len(s) \in DOMAIN s /\ DOMAIN r \subseteq DOMAIN s
         /\ \A i \in DOMAIN r : i # Len(s) => r[i] = s[i]
         /\ \/ Len(r) = Len(s) - 1 /\ Len(s) \notin DOMAIN r
            \/ /\ Len(r) = Len(s) /\ Len(s) \in DOMAIN r
               /\ r[Len(s)] = [s[Len(s)] EXCEPT !.id = 0]
<1>0. s # <<>> /\ r \in {SubSeq(s, 1, Len(s) - 1), [s EXCEPT ![Len(s)].id = 0]}
  BY DEF LastAltered
<1>1. PICK R : R = RowOf(t)  OBVIOUS
<1>2. PICK n \in Nat \ {0} : n = Len(s) /\ DOMAIN s = 1 .. n
  <2>1. Len(s) \in Nat /\ Len(s) # 0 /\ DOMAIN s = 1 .. Len(s)  BY <1>0
  <2>2. QED  BY <2>1
<1>3. s \in Seq(R) /\ \A i \in 1 .. n : s[i] \in R  BY <1>1, <1>2
<1>4. CASE r = SubSeq(s, 1, n - 1)
  <2>1. r \in Seq(R) /\ Len(r) = n - 1  BY <1>2, <1>3, <1>4, SubSeqProperties
  <2>2. \A i \in 1 .. n - 1 : r[i] = s[i]  BY <1>2, <1>3, <1>4, SubSeqProperties
  <2>3. DOMAIN r = 1 .. n - 1  BY <2>1
  <2>4. QED  BY <1>1, <1>2, <2>1, <2>2, <2>3
<1>5. CASE r = [s EXCEPT ![n].id = 0]
  <2>1. PICK v : v = [s[n] EXCEPT !.id = 0]  OBVIOUS
  <2>2. v \in R  BY <1>1, <1>2, <1>3, <2>1, IdSet
  <2>3. r = [s EXCEPT ![n] = v]  BY <1>5, <2>1
  <2>4. r \in Seq(R) /\ Len(r) = n /\ DOMAIN r = 1 .. n
    BY <1>2, <1>3, <2>2, <2>3, ExceptSeq
  <2>5. r[n] = v /\ \A i \in 1 .. n \ {n} : r[i] = s[i]  BY <1>2, <2>3
  <2>6. QED  BY <1>1, <1>2, <2>1, <2>4, <2>5
<1>6. QED  BY <1>0, <1>2, <1>4, <1>5

\* The last row is missing or has the identifier 0, and the others are what they were.
LEMMA AlteredAt ==
  ASSUME NEW t \in TableNames, NEW s \in Seq(RowOf(t)), NEW r, LastAltered(s, r)
  PROVE  \E last \in DOMAIN s :
           /\ DOMAIN r \subseteq DOMAIN s
           /\ \A i \in DOMAIN r : i # last => r[i] = s[i]
           /\ last \in DOMAIN r => r[last].id = 0
<1>1. PICK last \in Nat : last = Len(s)  OBVIOUS
<1>2. /\ last \in DOMAIN s /\ DOMAIN r \subseteq DOMAIN s
      /\ \A i \in DOMAIN r : i # last => r[i] = s[i]
  BY <1>1, AlteredRows
<1>3. s[last] \in RowOf(t)  BY <1>2
<1>4. [s[last] EXCEPT !.id = 0].id = 0  BY <1>3, IdSet
<1>5. last \in DOMAIN r => r[last] = [s[last] EXCEPT !.id = 0]
  <2>1. \/ Len(r) = Len(s) - 1 /\ Len(s) \notin DOMAIN r
        \/ r[Len(s)] = [s[Len(s)] EXCEPT !.id = 0]
    BY AlteredRows
  <2>2. QED  BY <1>1, <2>1
<1>6. QED  BY <1>2, <1>4, <1>5

\* An inspection of altered tables lists something else.
LEMMA AlterationShows ==
  ASSUME NEW T \in Tables, NEW W \in Tables, WellFormed(W), NEW t \in TableNames,
         AlteredIn(T, W, t),
         \A u \in TableNames : \A n \in DOMAIN W[u] : W[u][n].id # 0
  PROVE  Canonical(T) # Canonical(W)
<1>1. PICK s : s = W[t]  OBVIOUS
<1>2. PICK r : r = T[t]  OBVIOUS
<1>3. s \in Seq(RowOf(t)) /\ LastAltered(s, r)  BY <1>1, <1>2, TableRows DEF AlteredIn
<1>4. PICK n \in Nat : n = Len(s)  BY <1>3
<1>5. /\ r \in Seq(RowOf(t)) /\ n \in DOMAIN s /\ DOMAIN r \subseteq DOMAIN s
      /\ \A i \in DOMAIN r : i # n => r[i] = s[i]
      /\ \/ Len(r) = n - 1 /\ n \notin DOMAIN r
         \/ Len(r) = n /\ n \in DOMAIN r /\ r[n] = [s[n] EXCEPT !.id = 0]
  BY <1>3, <1>4, AlteredRows
<1>6. s[n] \in RowOf(t)  BY <1>3, <1>5
<1>7. \A u \in TableNames \ {t} : T[u] = W[u]  BY DEF AlteredIn
<1>8. /\ T.documents = T["documents"] /\ T.chunks = T["chunks"] /\ T.entries = T["entries"]
      /\ W.documents = W["documents"] /\ W.chunks = W["chunks"] /\ W.entries = W["entries"]
      /\ TableNames = {"documents", "chunks", "entries"}
  BY DEF TableNames
<1>9. PICK f : f = [u \in TableNames |-> Len(T[u])]  OBVIOUS
<1>10. PICK g : g = [u \in TableNames |-> Len(W[u])]  OBVIOUS
<1>11. \A u \in TableNames : f[u] \in Nat /\ g[u] \in Nat /\ f[u] = Len(T[u]) /\ g[u] = Len(W[u])
  <2>1. SUFFICES ASSUME NEW u \in TableNames
                 PROVE  f[u] \in Nat /\ g[u] \in Nat /\ f[u] = Len(T[u]) /\ g[u] = Len(W[u])
    OBVIOUS
  <2>2. T[u] \in Seq(Row) /\ W[u] \in Seq(Row)  BY TableRows
  <2>3. QED  BY <1>9, <1>10, <2>2
<1>12. PICK k \in Nat : k = Cardinality(Placed(T)) /\ k <= f["chunks"]
  BY <1>8, <1>11, CanonicalRows
<1>13. Len(Canonical(T)) = f["documents"] + k + f["entries"]
  BY <1>8, <1>11, <1>12, CanonicalRows
<1>14. Len(Canonical(W)) = g["documents"] + g["chunks"] + g["entries"]
  BY <1>8, <1>11, CanonicalRows, CanonicalWhole
<1>15. CASE Len(r) = n - 1 /\ n \notin DOMAIN r
  <2>1. f[t] = g[t] - 1 /\ \A u \in TableNames \ {t} : f[u] = g[u]
    BY <1>1, <1>2, <1>4, <1>7, <1>11, <1>15
  <2>2. f["documents"] + k + f["entries"] < g["documents"] + g["chunks"] + g["entries"]
    <3>1. PICK d \in Nat, e \in Nat : d = f["documents"] /\ e = f["entries"]  BY <1>8, <1>11
    <3>2. PICK l \in Nat, x \in Nat, y \in Nat, z \in Nat :
            l = f["chunks"] /\ x = g["documents"] /\ y = g["chunks"] /\ z = g["entries"]
      BY <1>8, <1>11
    <3>3. CASE t = "documents"
      <4>1. d = x - 1 /\ l = y /\ e = z  BY <1>8, <2>1, <3>1, <3>2, <3>3
      <4>2. QED  BY <1>12, <3>1, <3>2, <4>1
    <3>4. CASE t = "chunks"
      <4>1. d = x /\ l = y - 1 /\ e = z  BY <1>8, <2>1, <3>1, <3>2, <3>4
      <4>2. QED  BY <1>12, <3>1, <3>2, <4>1
    <3>5. CASE t = "entries"
      <4>1. d = x /\ l = y /\ e = z - 1  BY <1>8, <2>1, <3>1, <3>2, <3>5
      <4>2. QED  BY <1>12, <3>1, <3>2, <4>1
    <3>6. QED  BY <1>8, <3>3, <3>4, <3>5
  <2>3. QED  BY <1>8, <1>11, <1>12, <1>13, <1>14, <2>2
<1>16. CASE Len(r) = n /\ n \in DOMAIN r /\ r[n] = [s[n] EXCEPT !.id = 0]
  <2>1. r[n].id = 0 /\ (t = "chunks" => r[n].document = s[n].document)
    BY <1>6, <1>16, IdSet
  <2>2. t = "chunks" => n \in Placed(T)
    <3>1. SUFFICES ASSUME t = "chunks" PROVE n \in Placed(T)  OBVIOUS
    <3>2. T.documents = W.documents  BY <1>7, <1>8, <3>1
    <3>3. HasDocument(W.documents, s[n])  BY <1>1, <1>5, <1>8, <3>1 DEF WellFormed
    <3>4. HasDocument(T.documents, r[n])  BY <2>1, <3>1, <3>2, <3>3 DEF HasDocument
    <3>5. QED  BY <1>2, <1>8, <1>16, <3>1, <3>4 DEF Placed
  <2>3. \E i \in DOMAIN Canonical(T) : Canonical(T)[i] = r[n]
    <3>1. CASE t = "documents"  BY <1>2, <1>8, <1>16, <3>1, CanonicalRows
    <3>2. CASE t = "chunks"  BY <1>2, <1>8, <2>2, <3>2, CanonicalRows
    <3>3. CASE t = "entries"  BY <1>2, <1>8, <1>16, <3>3, CanonicalRows
    <3>4. QED  BY <1>8, <3>1, <3>2, <3>3
  <2>4. \A i \in DOMAIN Canonical(W) : Canonical(W)[i].id # 0
    <3>1. SUFFICES ASSUME NEW i \in DOMAIN Canonical(W) PROVE Canonical(W)[i].id # 0
      OBVIOUS
    <3>2. PICK u \in TableNames : \E m \in DOMAIN W[u] : Canonical(W)[i] = W[u][m]
      BY CanonicalRows
    <3>3. QED  BY <3>2
  <2>5. QED  BY <2>1, <2>3, <2>4
<1>17. QED  BY <1>5, <1>15, <1>16

\* The digests are those that were planned just when nothing was altered.
LEMMA DigestDecides ==
  ASSUME InputInv, NEW p, PublicationInv(p)
  PROVE  /\ p.intact \in BOOLEAN /\ p.tables \in Tables
         /\ Canonical(p.tables) = Planned(p.by) <=> p.intact
<1>1. /\ p.by \in Calls /\ p.tables \in Tables /\ p.intact \in BOOLEAN
  <2>1. PICK all : all = Tables  OBVIOUS
  <2>2. QED  BY <2>1 DEF PublicationInv, PublicationType
<1>2. PICK W \in Tables : W = Whole(p.by) /\ WellFormed(W)  BY DEF PublicationInv
<1>3. Planned(p.by) = Canonical(W)  BY <1>1, <1>2, PlannedIsCanonical
<1>4. p.intact => Canonical(p.tables) = Canonical(W)  BY <1>2 DEF PublicationInv
<1>5. ~p.intact => Canonical(p.tables) # Canonical(W)
  <2>1. SUFFICES ASSUME ~p.intact PROVE Canonical(p.tables) # Canonical(W)  OBVIOUS
  <2>2. PICK t \in TableNames : AlteredIn(p.tables, W, t)  BY <1>2, <2>1 DEF PublicationInv
  <2>3. \A u \in TableNames : \A n \in DOMAIN W[u] : W[u][n].id # 0
    <3>1. \A u \in TableNames : W[u] = Stream(p.by, u)  BY <1>1, <1>2, StreamIs
    <3>2. \A u \in TableNames : \A n \in DOMAIN Stream(p.by, u) : Stream(p.by, u)[n].id # 0
      BY <1>1, StreamIs
    <3>3. QED  BY <3>1, <3>2
  <2>4. QED  BY <1>1, <1>2, <2>2, <2>3, AlterationShows
<1>6. QED  BY <1>1, <1>3, <1>4, <1>5

\* What was not altered can be inspected.
LEMMA IntactReadable ==
  ASSUME InputInv, NEW p, PublicationInv(p), p.intact
  PROVE  Readable(p)
<1>1. PICK W \in Tables : W = Whole(p.by) /\ WellFormed(W) /\ Filled(W)  BY DEF PublicationInv
<1>2. p.tables = W /\ (kind # "vector" => p.identity = W)  BY <1>1 DEF PublicationInv
<1>3. /\ W.documents = W["documents"] /\ W.chunks = W["chunks"] /\ W.entries = W["entries"]
      /\ TableNames = {"documents", "chunks", "entries"}
  BY DEF TableNames
<1>4. W.documents \in Seq(Row) /\ W.chunks \in Seq(Row) /\ W.entries \in Seq(Row)
  BY <1>3, TableRows
<1>5. CASE kind = "content"
  <2>1. Len(W.documents) > 0 /\ Len(W.chunks) > 0
    <3>1. W.documents # <<>> /\ W.chunks # <<>>  BY <1>1, <1>5 DEF Filled
    <3>2. QED  BY <1>4, <3>1
  <2>2. PICK d \in Nat : d = Len(W.documents)  BY <1>4
  <2>3. PICK k \in Nat : k = Len(W.chunks)  BY <1>4
  <2>4. PICK e \in Nat : e = Len(W.entries)  BY <1>4
  <2>5. Len(Canonical(W)) = d + k + e
    <3>1. Cardinality(Placed(W)) = k  BY <1>1, <2>3, CanonicalWhole
    <3>2. Len(Canonical(W)) = Len(W.documents) + Cardinality(Placed(W)) + Len(W.entries)
      BY <1>1, CanonicalRows
    <3>3. QED  BY <2>2, <2>4, <3>1, <3>2
  <2>6. Len(W.documents) > 0 /\ Len(Canonical(W)) > Len(W.documents)
    <3>1. d > 0 /\ k > 0  BY <2>1, <2>2, <2>3
    <3>2. d \in Nat /\ k \in Nat /\ e \in Nat  OBVIOUS
    <3>3. d + k + e > d  BY <3>1, <3>2
    <3>4. QED  BY <2>2, <2>5, <3>1, <3>3
  <2>7. QED  BY <1>2, <1>5, <2>6 DEF Readable
<1>6. CASE kind = "vector"
  <2>1. PICK E \in Seq(Row) : E = W.entries  BY <1>4
  <2>2. E # <<>>  BY <1>1, <1>6, <2>1 DEF Filled
  <2>3. 1 \in DOMAIN E  BY <2>1, <2>2
  <2>4. \A n \in DOMAIN E : E[n].width = E[1].width  BY <1>1, <1>6, <2>1, <2>3 DEF WellFormed
  <2>5. PICK v : v = E[1].width  OBVIOUS
  <2>6. {E[n].width : n \in DOMAIN E} = {v}  BY <2>3, <2>4, <2>5
  <2>7. Cardinality({v}) = 1  BY FS_Singleton
  <2>8. OneWidth(W)  BY <2>1, <2>6, <2>7 DEF OneWidth
  <2>9. QED  BY <1>2, <1>6, <2>8 DEF Readable
<1>7. CASE kind = "lexical"  BY <1>2, <1>7 DEF Readable
<1>8. kind \in Kinds
  <2>1. p.by \in Calls
    <3>1. PICK all : all = Tables  OBVIOUS
    <3>2. QED  BY <3>1 DEF PublicationInv, PublicationType
  <2>2. QED  BY <2>1 DEF InputInv, Input
<1>9. QED  BY <1>5, <1>6, <1>7, <1>8 DEF Kinds

\* The entries of a publication have identifiers of their own, also once altered.
LEMMA EntriesDistinct ==
  ASSUME InputInv, NEW p, PublicationInv(p)
  PROVE  p.tables.entries \in Seq(Entry) /\ Unique(p.tables.entries)
<1>1. /\ p.by \in Calls /\ p.tables \in Tables /\ p.intact \in BOOLEAN
  <2>1. PICK all : all = Tables  OBVIOUS
  <2>2. QED  BY <2>1 DEF PublicationInv, PublicationType
<1>2. PICK W \in Tables : W = Whole(p.by) /\ WellFormed(W)  BY DEF PublicationInv
<1>3. PICK r : r = p.tables.entries  OBVIOUS
<1>4. PICK s : s = W.entries  OBVIOUS
<1>5. /\ p.tables["entries"] = r /\ W["entries"] = s /\ "entries" \in TableNames
      /\ RowOf("entries") = Entry
  BY <1>3, <1>4 DEF TableNames, RowOf
<1>6. r \in Seq(Entry) /\ s \in Seq(Entry)  BY <1>1, <1>2, <1>5, TableRows
<1>7. Increasing(s) /\ Unique(s)
  <2>1. Increasing(s)  BY <1>2, <1>4 DEF WellFormed
  <2>2. QED  BY <1>6, <2>1, RowsIdentified, IncreasingUnique
<1>8. \A n \in DOMAIN s : s[n].id # 0
  <2>1. s = Stream(p.by, "entries")  BY <1>1, <1>2, <1>5, StreamIs
  <2>2. QED  BY <1>1, <1>5, <2>1, StreamIs
<1>9. r = s \/ LastAltered(s, r)
  <2>1. CASE p.intact  BY <1>2, <1>3, <1>4, <2>1 DEF PublicationInv
  <2>2. CASE ~p.intact
    <3>1. PICK t \in TableNames : AlteredIn(p.tables, W, t)
      BY <1>2, <2>2 DEF PublicationInv
    <3>2. CASE t = "entries"  BY <1>5, <3>1, <3>2 DEF AlteredIn
    <3>3. CASE t # "entries"  BY <1>5, <3>1, <3>3 DEF AlteredIn
    <3>4. QED  BY <3>2, <3>3
  <2>3. QED  BY <1>1, <2>1, <2>2
<1>10. CASE r = s  BY <1>3, <1>6, <1>7, <1>10
<1>11. CASE LastAltered(s, r)
  <2>1. "entries" \in TableNames /\ s \in Seq(RowOf("entries"))  BY <1>5, <1>6
  <2>2. PICK n \in DOMAIN s : /\ DOMAIN r \subseteq DOMAIN s
                              /\ \A i \in DOMAIN r : i # n => r[i] = s[i]
                              /\ n \in DOMAIN r => r[n].id = 0
    BY <1>11, <2>1, AlteredAt
  <2>3. Unique(r)
    <3>1. SUFFICES ASSUME NEW i \in DOMAIN r, NEW j \in DOMAIN r, r[i].id = r[j].id PROVE i = j
      BY DEF Unique
    <3>2. i \in DOMAIN s /\ j \in DOMAIN s  BY <2>2
    <3>3. CASE i # n /\ j # n
      <4>1. s[i].id = s[j].id  BY <2>2, <3>1, <3>3
      <4>2. QED  BY <1>7, <3>2, <4>1 DEF Unique
    <3>4. CASE i = n /\ j # n
      <4>1. s[j].id = 0  BY <2>2, <3>1, <3>4
      <4>2. QED  BY <1>8, <3>2, <4>1
    <3>5. CASE j = n /\ i # n
      <4>1. s[i].id = 0  BY <2>2, <3>1, <3>5
      <4>2. QED  BY <1>8, <3>2, <4>1
    <3>6. QED  BY <3>3, <3>4, <3>5
  <2>4. QED  BY <1>3, <1>6, <2>3
<1>12. QED  BY <1>9, <1>10, <1>11

-----------------------------------------------------------------------------
(* What alterations and inspections leave.                                 *)

\* Publication p with another list as table t.
AlteredTo(p, t, left) == [p EXCEPT !.tables = [p.tables EXCEPT ![t] = left], !.intact = FALSE]

\* What the last publication becomes when a table of it is altered.
LEMMA AlteredPublication ==
  ASSUME InputInv, NEW p, PublicationInv(p), p.intact, NEW t \in TableNames,
         NEW left, LastAltered(p.tables[t], left)
  PROVE  /\ PublicationInv(AlteredTo(p, t, left)) /\ AlteredTo(p, t, left) \in PublicationType
         /\ AlteredTo(p, t, left).by = p.by /\ AlteredTo(p, t, left).beside = p.beside
<1>0. PICK q : q = AlteredTo(p, t, left)  OBVIOUS
<1>1. PICK all : all = Tables  OBVIOUS
<1>2. p \in [by : Calls, tables : all, identity : all, intact : BOOLEAN, beside : SUBSET Calls]
  BY <1>1 DEF PublicationInv, PublicationType
<1>3. PICK T \in Tables : T = p.tables  BY <1>1, <1>2
<1>4. PICK U : U = [T EXCEPT ![t] = left]  OBVIOUS
<1>5. T[t] \in Seq(RowOf(t))  BY TableRows
<1>6. left \in Seq(RowOf(t))  BY <1>3, <1>5, AlteredRows
<1>7. U \in Tables /\ U[t] = left /\ \A u \in TableNames \ {t} : U[u] = T[u]
  BY <1>3, <1>4, <1>6, TableRows
<1>8. q = [p EXCEPT !.tables = U, !.intact = FALSE]  BY <1>0, <1>3, <1>4 DEF AlteredTo
<1>9. q \in [by : Calls, tables : all, identity : all, intact : BOOLEAN, beside : SUBSET Calls]
  BY <1>1, <1>2, <1>7, <1>8
<1>10. q.by = p.by /\ q.beside = p.beside /\ q.tables = U /\ ~q.intact  BY <1>2, <1>8
<1>11. T = Whole(p.by)  BY <1>3 DEF PublicationInv
<1>12. AlteredIn(U, T, t)  BY <1>3, <1>7 DEF AlteredIn
<1>13. q \in PublicationType  BY <1>1, <1>9 DEF PublicationType
<1>14. Whole(q.by) \in Tables /\ WellFormed(Whole(q.by)) /\ Filled(Whole(q.by))
  BY <1>10 DEF PublicationInv
<1>15. \E u \in TableNames : AlteredIn(q.tables, Whole(q.by), u)  BY <1>10, <1>11, <1>12
<1>16. PublicationInv(q)  BY <1>10, <1>13, <1>14, <1>15 DEF PublicationInv
<1>17. QED  BY <1>0, <1>10, <1>13, <1>16

\* What is published is altered.
LEMMA AlterKeeps ==
  ASSUME BuildInv, NEW t \in TableNames, Alter(t)
  PROVE  BuildInv'
<1>1. /\ input' = input /\ step' = step /\ taken' = taken /\ pending' = pending /\ stored' = stored
      /\ identity' = identity /\ temporary' = temporary /\ handles' = handles /\ outcome' = outcome
      /\ lingering' = lingering /\ reader' = reader /\ faults' = faults /\ accidents' = accidents + 1
      /\ accidents < MaxAccidents /\ published # <<>>
  BY DEF Alter, filling, Absent
<1>2. PICK old \in Seq(PublicationType) : old = published  BY DEF BuildInv, PublishedInv
<1>3. PICK n \in Nat : n = Len(old) /\ DOMAIN old = 1 .. n /\ n \in 1 .. n  BY <1>1, <1>2
<1>4. PICK p : p = old[n]  OBVIOUS
<1>5. PICK left : /\ LastAltered(p.tables[t], left) /\ p.intact
                  /\ published' = [old EXCEPT ![n].tables[t] = left, ![n].intact = FALSE]
  BY <1>2, <1>3, <1>4 DEF Alter, Destination, LastAltered
<1>6. PICK q : q = AlteredTo(p, t, left)  OBVIOUS
<1>7. published' = [old EXCEPT ![n] = q]  BY <1>3, <1>4, <1>5, <1>6 DEF AlteredTo
<1>8. p \in PublicationType /\ PublicationInv(p)
  BY <1>2, <1>3, <1>4 DEF BuildInv, PublishedInv
<1>9. PublicationInv(q) /\ q \in PublicationType /\ q.by = p.by /\ q.beside = p.beside
  BY <1>5, <1>6, <1>8, AlteredPublication DEF BuildInv
<1>10. PICK new : new = published'  OBVIOUS
<1>11. new \in Seq(PublicationType) /\ Len(new) = n /\ DOMAIN new = 1 .. n
  BY <1>2, <1>3, <1>7, <1>9, <1>10, ExceptSeq
<1>12. new[n] = q /\ \A i \in 1 .. n : i # n => new[i] = old[i]  BY <1>3, <1>7, <1>10
<1>13. \A i \in 1 .. n : new[i].by = old[i].by /\ new[i].beside = old[i].beside
  BY <1>4, <1>9, <1>12
<1>14. \A i \in 1 .. n : PublicationInv(new[i])
  BY <1>2, <1>3, <1>9, <1>12 DEF BuildInv, PublishedInv
<1>15. kind' = kind /\ \A x : PublicationInv(x)' <=> PublicationInv(x)  BY <1>1, InputFrame
<1>16. PublishedInv'
  <2>1. PublicationType' = PublicationType  BY DEF PublicationType
  <2>2. \A i \in DOMAIN new : PublicationInv(new[i])'  BY <1>11, <1>14, <1>15
  <2>3. \A i \in 2 .. n : kind # "lexical" /\ \E m \in 1 .. i - 1 : new[i].by \in new[m].beside
    <3>1. SUFFICES ASSUME NEW i \in 2 .. n
                   PROVE  kind # "lexical" /\ \E m \in 1 .. i - 1 : new[i].by \in new[m].beside
      OBVIOUS
    <3>2. kind # "lexical"  BY <1>2, <1>3 DEF BuildInv, PublishedInv
    <3>3. PICK m \in 1 .. i - 1 : old[i].by \in old[m].beside
      BY <1>2, <1>3 DEF BuildInv, PublishedInv
    <3>4. i \in 1 .. n /\ m \in 1 .. n  OBVIOUS
    <3>5. QED  BY <1>13, <3>2, <3>3, <3>4
  <2>4. \A c \in Calls : step'[c] = "rename" => \E m \in DOMAIN new : c \in new[m].beside
    <3>1. \A c \in Calls : step[c] = "rename" => \E m \in DOMAIN old : c \in old[m].beside
      BY <1>1, <1>2 DEF BuildInv, PublishedInv
    <3>2. QED  BY <1>1, <1>3, <1>11, <1>13, <3>1
  <2>5. \A c \in Calls : step'[c] \in {"sync", "open"} \/ outcome'[c] = "ok" =>
          \E m \in DOMAIN new : new[m].by = c
    <3>1. \A c \in Calls : step[c] \in {"sync", "open"} \/ outcome[c] = "ok" =>
            \E m \in DOMAIN old : old[m].by = c
      BY <1>2 DEF BuildInv, PublishedInv
    <3>2. QED  BY <1>1, <1>3, <1>11, <1>13, <3>1
  <2>6. QED  BY <1>10, <1>11, <1>15, <2>1, <2>2, <2>3, <2>4, <2>5 DEF PublishedInv
<1>17. InputInv' /\ \A c \in Calls : CallInv(c)'
  <2>1. InputInv'  BY <1>1, InputFrame DEF BuildInv
  <2>2. \A c \in Calls : CallInv(c)'  BY <1>1, CallFrame DEF BuildInv
  <2>3. QED  BY <2>1, <2>2
<1>18. MapsInv'  BY <1>1 DEF BuildInv, MapsInv
<1>19. ReaderInv'  BY <1>1, ReaderFrame DEF BuildInv
<1>20. StoresInv'
  <2>1. \A c \in Calls : StoreInv(c)'  BY <1>1, StoreFrame DEF BuildInv, StoresInv
  <2>2. BoundsInv  BY DEF BuildInv, StoresInv
  <2>3. PICK a \in Nat, b \in Nat : a = faults /\ b = accidents  BY <2>2, BoundAssumption DEF BoundsInv
  <2>4. Cardinality(lingering) \in Nat  BY <2>2, FS_CardinalityType DEF BoundsInv
  <2>5. Cardinality(lingering) <= a + (b + 1)  BY <2>2, <2>3, <2>4 DEF BoundsInv
  <2>6. accidents' \in 0 .. MaxAccidents  BY <1>1, <2>2, BoundAssumption DEF BoundsInv
  <2>7. BoundsInv'  BY <1>1, <2>2, <2>3, <2>5, <2>6 DEF BoundsInv
  <2>8. QED  BY <2>1, <2>7 DEF StoresInv
<1>21. QED  BY <1>16, <1>17, <1>18, <1>19, <1>20 DEF BuildInv

\* An inspection takes no part in the building.
LEMMA InspectionLeaves ==
  ASSUME BuildInv, ReaderInv', input' = input, step' = step, filling' = filling,
         temporary' = temporary, handles' = handles, outcome' = outcome, published' = published,
         lingering' = lingering, bounds' = bounds
  PROVE  BuildInv'
<1>1. /\ taken' = taken /\ pending' = pending /\ stored' = stored /\ identity' = identity
      /\ faults' = faults /\ accidents' = accidents
  BY DEF filling, bounds
<1>2. InputInv'  BY InputFrame DEF BuildInv
<1>3. \A c \in Calls : CallInv(c)'  BY <1>1, CallFrame DEF BuildInv
<1>4. MapsInv'  BY <1>1 DEF BuildInv, MapsInv
<1>5. PublishedInv'  BY PublishedFrame DEF BuildInv
<1>6. \A c \in Calls : StoreInv(c)'  BY StoreFrame DEF BuildInv, StoresInv
<1>7. BoundsInv'  BY <1>1 DEF BuildInv, StoresInv, BoundsInv
<1>8. QED  BY <1>2, <1>3, <1>4, <1>5, <1>6, <1>7 DEF BuildInv, StoresInv

\* An inspection begins at what is published.
LEMMA BeginKeeps ==
  ASSUME BuildInv, BeginInspection
  PROVE  BuildInv'
<1>1. /\ input' = input /\ published # <<>>
      /\ reader' = [state |-> "reading", index |-> Destination, rows |-> <<>>]
  BY DEF BeginInspection, Absent
<1>2. PICK old \in Seq(PublicationType) : old = published  BY DEF BuildInv, PublishedInv
<1>3. Len(old) \in DOMAIN old  BY <1>1, <1>2
<1>4. PICK p : p = Destination  OBVIOUS
<1>5. PublicationInv(p)
  BY <1>2, <1>3, <1>4 DEF BuildInv, PublishedInv, Destination
<1>6. PublicationInv(p)'  BY <1>1, <1>5, InputFrame
<1>7. PICK all \in Seq(Row) : all = Canonical(p.tables)
  BY <1>5, DigestDecides, CanonicalRows DEF BuildInv
<1>8. Begins(<<>>, all)  BY DEF Begins
<1>9. reader'.state = "reading" /\ reader'.index = p /\ reader'.rows = <<>>  BY <1>1, <1>4
<1>10. <<>> \in Seq(Row)  BY EmptySeq
<1>11. ReaderInv'  BY <1>1, <1>6, <1>7, <1>8, <1>9, <1>10 DEF ReaderInv
<1>12. QED  BY <1>11, InspectionLeaves DEF BeginInspection

\* Pages go on where the one before them ended.
LEMMA PageContinues ==
  ASSUME NEW all \in Seq(Row), NEW rows \in Seq(Row), Begins(rows, all),
         NEW m \in Nat, m = IF Len(rows) + PageSize < Len(all) THEN Len(rows) + PageSize ELSE Len(all)
  PROVE  /\ rows \o SubSeq(all, Len(rows) + 1, m) \in Seq(Row)
         /\ Len(rows \o SubSeq(all, Len(rows) + 1, m)) = m
         /\ Begins(rows \o SubSeq(all, Len(rows) + 1, m), all)
<1>1. PICK n \in Nat : n = Len(all) /\ DOMAIN all = 1 .. n  OBVIOUS
<1>2. PICK l \in Nat : l = Len(rows) /\ DOMAIN rows = 1 .. l  OBVIOUS
<1>3. l <= n /\ \A i \in 1 .. l : rows[i] = all[i]  BY <1>1, <1>2 DEF Begins
<1>4. m <= n /\ l <= m  BY <1>1, <1>2, <1>3, SizeAssumption
<1>5. PICK page : page = SubSeq(all, l + 1, m)  OBVIOUS
<1>6. \A i \in l + 1 .. m : all[i] \in Row  BY <1>1, <1>4
<1>7. page \in Seq(Row) /\ Len(page) = m - l /\ \A i \in 1 .. m - l : page[i] = all[l + i]
  <2>1. l + 1 \in Int /\ m \in Int  OBVIOUS
  <2>2. page \in Seq(Row)  BY <1>5, <1>6, <2>1, SubSeqProperties
  <2>3. Len(page) = m - l
    <3>1. Len(page) = IF l + 1 <= m THEN m - (l + 1) + 1 ELSE 0
      BY <1>5, <1>6, <2>1, SubSeqProperties
    <3>2. QED  BY <1>4, <3>1
  <2>4. \A i \in 1 .. m - (l + 1) + 1 : page[i] = all[l + 1 + i - 1]
    BY <1>5, <1>6, <2>1, SubSeqProperties
  <2>5. \A i \in 1 .. m - l : i \in 1 .. m - (l + 1) + 1 /\ l + 1 + i - 1 = l + i  BY <1>4
  <2>6. QED  BY <2>2, <2>3, <2>4, <2>5
<1>8. PICK w \in Seq(Row) : w = rows \o page  BY <1>7, Concatenated
<1>9. /\ Len(w) = m /\ \A i \in 1 .. l : w[i] = rows[i]
      /\ \A i \in 1 .. m - l : w[l + i] = page[i]
  <2>1. Len(w) = Len(rows) + Len(page) /\ \A i \in 1 .. Len(rows) : w[i] = rows[i]
    BY <1>7, <1>8, Concatenated
  <2>2. \A i \in 1 .. Len(page) : w[Len(rows) + i] = page[i]  BY <1>7, <1>8, Concatenated
  <2>3. Len(page) = m - l  BY <1>7
  <2>4. QED  BY <1>2, <1>4, <2>1, <2>2, <2>3
<1>10. ASSUME NEW i \in 1 .. m PROVE w[i] = all[i]
  <2>1. CASE i <= l
    <3>1. i \in 1 .. l  BY <2>1
    <3>2. QED  BY <1>3, <1>9, <3>1
  <2>2. CASE i > l
    <3>1. PICK j \in 1 .. m - l : i = l + j
      <4>1. i - l \in 1 .. m - l /\ i = l + (i - l)  BY <2>2
      <4>2. QED  BY <4>1
    <3>2. QED  BY <1>7, <1>9, <3>1
  <2>3. QED  BY <2>1, <2>2
<1>11. Begins(w, all)  BY <1>1, <1>4, <1>8, <1>9, <1>10 DEF Begins
<1>12. QED  BY <1>2, <1>5, <1>8, <1>9, <1>11

\* A page is read.
LEMMA PageKeeps ==
  ASSUME BuildInv, ReadPage
  PROVE  BuildInv'
<1>1. input' = input /\ reader.state = "reading"  BY DEF ReadPage
<1>2. reader # Idle  BY <1>1 DEF Idle
<1>3. PICK p : p = reader.index  OBVIOUS
<1>4. PICK all : all = Canonical(p.tables)  OBVIOUS
<1>5. PICK rows : rows = reader.rows  OBVIOUS
<1>6. /\ reader = [state |-> "reading", index |-> p, rows |-> rows] /\ PublicationInv(p)
      /\ Begins(rows, all) /\ rows \in Seq(Row) /\ (kind # "lexical" => rows = <<>>)
  BY <1>1, <1>2, <1>3, <1>4, <1>5 DEF BuildInv, ReaderInv
<1>7. all \in Seq(Row)  BY <1>4, <1>6, DigestDecides, CanonicalRows DEF BuildInv
<1>8. kind' = kind /\ PublicationInv(p)' /\ (Readable(p)' <=> Readable(p))
  BY <1>1, <1>6, InputFrame
<1>9. CASE ~Readable(p)
  <2>1. reader' = [reader EXCEPT !.state = "failed"]  BY <1>3, <1>9 DEF ReadPage
  <2>2. reader' = [state |-> "failed", index |-> p, rows |-> rows]  BY <1>6, <2>1
  <2>3. reader'.state = "failed" /\ reader'.index = p /\ reader'.rows = rows  BY <2>2
  <2>4. ReaderInv'  BY <1>4, <1>6, <1>8, <1>9, <2>2, <2>3 DEF ReaderInv
  <2>5. QED  BY <2>4, InspectionLeaves DEF ReadPage
<1>10. CASE Readable(p)
  <2>1. PICK w : w = rows \o Page(p, Len(rows))  OBVIOUS
  <2>2. PICK s : s = IF Len(w) < Len(all) THEN "reading" ELSE "inspected"  OBVIOUS
  <2>3. reader' = [reader EXCEPT !.rows = w, !.state = s]
    BY <1>3, <1>4, <1>5, <1>10, <2>1, <2>2 DEF ReadPage
  <2>4. reader' = [state |-> s, index |-> p, rows |-> w]  BY <1>6, <2>3
  <2>5. reader'.state = s /\ reader'.index = p /\ reader'.rows = w  BY <2>4
  <2>6. w \in Seq(Row) /\ Begins(w, all) /\ (kind # "lexical" => s = "inspected")
    <3>1. CASE kind # "lexical"
      <4>1. w = <<>> \o all  BY <1>4, <1>6, <2>1, <3>1 DEF Page
      <4>2. w = all  BY <1>7, <4>1
      <4>3. ~(Len(w) < Len(all))  BY <1>7, <4>2
      <4>4. Begins(w, all)  BY <1>7, <4>2 DEF Begins
      <4>5. QED  BY <1>7, <2>2, <4>2, <4>3, <4>4
    <3>2. CASE kind = "lexical"
      <4>1. PICK m \in Nat :
              m = IF Len(rows) + PageSize < Len(all) THEN Len(rows) + PageSize ELSE Len(all)
        BY <1>6, <1>7, SizeAssumption
      <4>2. w = rows \o SubSeq(all, Len(rows) + 1, m)
        BY <1>4, <2>1, <3>2, <4>1 DEF Page
      <4>3. QED  BY <1>6, <1>7, <3>2, <4>1, <4>2, PageContinues
    <3>3. QED  BY <3>1, <3>2
  <2>7. s = "inspected" => w = all
    <3>1. SUFFICES ASSUME s = "inspected" PROVE w = all  OBVIOUS
    <3>2. PICK n \in Nat : n = Len(all) /\ DOMAIN all = 1 .. n  BY <1>7
    <3>3. PICK k \in Nat : k = Len(w) /\ DOMAIN w = 1 .. k  BY <2>6
    <3>4. k = n  BY <2>2, <2>6, <3>1, <3>2, <3>3 DEF Begins
    <3>5. \A i \in 1 .. n : w[i] = all[i]  BY <2>6, <3>3, <3>4 DEF Begins
    <3>6. QED  BY <1>7, <2>6, <3>2, <3>3, <3>4, <3>5, SeqEqual
  <2>8. s \in {"reading", "inspected"}  BY <2>2
  <2>9. ReaderInv'  BY <1>4, <1>8, <2>4, <2>5, <2>6, <2>7, <2>8 DEF ReaderInv
  <2>10. QED  BY <2>9, InspectionLeaves DEF ReadPage
<1>11. QED  BY <1>9, <1>10

-----------------------------------------------------------------------------
(* The stores of a bundle, built by any number of calls.                   *)

\* The calls are given what they may be given.
LEMMA InputsGiven ==
  ASSUME Init
  PROVE  InputInv
<1>1. \A c \in Calls : input[c] \in InputsOf[c] /\ input[c] \in Input
  BY InputAssumption DEF Init
<1>2. input = [c \in Calls |-> input[c]]  BY DEF Init
<1>3. input \in [Calls -> Input]  BY <1>1, <1>2
<1>4. ASSUME NEW c \in Calls
      PROVE  /\ input[c].kind = kind
             /\ input[c].whole => input[c].expected = Len(input[c].produced.entries)
             /\ \A t \in TableNames :
                  /\ input[c].produced[t] # <<>> => (kind = "content" <=> t # "entries")
                  /\ \A n \in DOMAIN input[c].produced[t] : input[c].produced[t][n].id # 0
  <2>1. PICK i \in InputsOf[c] : i = input[c]  BY <1>1
  <2>2. (CHOOSE d \in Calls : TRUE) \in Calls  OBVIOUS
  <2>3. i.kind = kind  BY <2>1, <2>2 DEF kind, Init
  <2>4. /\ i.whole => i.expected = Len(i.produced.entries)
        /\ \A t \in TableNames : i.produced[t] # <<>> => (i.kind = "content" <=> t # "entries")
        /\ \A t \in TableNames : \A n \in DOMAIN i.produced[t] : i.produced[t][n].id # 0
    BY <2>1, InputAssumption
  <2>5. QED  BY <2>1, <2>3, <2>4
<1>5. QED  BY <1>3, <1>4 DEF InputInv

\* At first nothing is taken, stored or published.
LEMMA BuildBegins ==
  ASSUME Init
  PROVE  BuildInv
<1>1. InputInv  BY InputsGiven
<1>2. MapsInv  BY DEF Init, MapsInv
<1>3. ASSUME NEW c \in Calls PROVE CallInv(c)
  <2>1. /\ step[c] = "idle" /\ taken[c] = NoRows /\ stored[c] = NoRows /\ identity[c] = NoRows
        /\ pending[c] = <<>>
    BY DEF Init
  <2>2. StepInv(c)  BY <2>1 DEF StepInv, Names
  <2>3. PICK T \in Tables : T = NoRows /\ \A t \in TableNames : T[t] = <<>>  BY NoRowsTables
  <2>4. T.documents = <<>> /\ T.chunks = <<>> /\ T.entries = <<>>  BY <2>3 DEF TableNames
  <2>5. WellFormed(T)  BY <2>4 DEF WellFormed, Unique, Increasing
  <2>6. \A t \in TableNames : Begins(T[t], Stream(c, t))
    <3>1. SUFFICES ASSUME NEW t \in TableNames PROVE Begins(<<>>, Stream(c, t))  BY <2>3
    <3>2. PICK all \in Seq(Row) : all = Stream(c, t)  BY <1>1, StreamIs
    <3>3. Begins(<<>>, all)  BY DEF Begins
    <3>4. QED  BY <3>2, <3>3
  <2>7. \A t \in TableNames : Written(c, t) = <<>>
    BY <2>1, <2>3 DEF Written, TableNames
  <2>8. <<>> \in Seq(Row) /\ Len(<<>>) = 0 /\ 0 < BatchSize  BY EmptySeq, SizeAssumption
  <2>9. \A t \in TableNames : step[c] \notin Past(t)  BY <2>1 DEF Past
  <2>10. TakenInv(c)
    BY <2>1, <2>3, <2>5, <2>6, <2>7, <2>8, <2>9 DEF TakenInv
  <2>11. ReadyInv(c)  BY <2>1 DEF ReadyInv, Past
  <2>12. QED  BY <2>2, <2>10, <2>11 DEF CallInv
<1>4. StoresInv
  <2>1. IsFiniteSet({}) /\ Cardinality({}) = 0  BY FS_EmptySet
  <2>2. BoundsInv  BY <2>1, BoundAssumption DEF Init, BoundsInv
  <2>3. QED  BY <2>2 DEF Init, StoresInv, StoreInv, Filling
<1>5. PublishedInv
  <2>1. <<>> \in Seq(PublicationType)  BY EmptySeq
  <2>2. QED  BY <2>1 DEF Init, PublishedInv
<1>6. ReaderInv  BY DEF Init, ReaderInv
<1>7. QED  BY <1>1, <1>2, <1>3, <1>4, <1>5, <1>6 DEF BuildInv

\* Every step keeps the invariant.
LEMMA BuildKeeps ==
  ASSUME BuildInv, Next
  PROVE  BuildInv'
<1>1. CASE \E c \in Calls :
             \/ Start(c) \/ Create(c) \/ Prepare(c) \/ Take(c) \/ Complete(c) \/ WriteIdentity(c)
             \/ CloseStore(c) \/ Stat(c) \/ Rename(c) \/ Sync(c) \/ Open(c)
             \/ Fail(c) \/ Crash(c)
  BY <1>1, StartKeeps, CreateKeeps, PrepareKeeps, TakeKeeps, CompleteKeeps, IdentityKeeps,
     CloseKeeps, StatKeeps, RenameKeeps, SyncKeeps, OpenKeeps, FailKeeps, CrashKeeps
<1>2. CASE \E t \in TableNames : Alter(t)  BY <1>2, AlterKeeps
<1>3. CASE BeginInspection  BY <1>3, BeginKeeps
<1>4. CASE ReadPage  BY <1>4, PageKeeps
<1>5. QED  BY <1>1, <1>2, <1>3, <1>4 DEF Next

\* So does a step of something else.
LEMMA BuildStutters ==
  ASSUME BuildInv, UNCHANGED vars
  PROVE  BuildInv'
<1>1. ReaderInv'  BY ReaderFrame DEF BuildInv, vars
<1>2. QED  BY <1>1, InspectionLeaves DEF vars

\* The stores that are built, published, altered and searched side by side keep to
\* the invariant.
LEMMA BuildInvariant == ServedSpec => []BuildInv
<1>1. SearchInit => BuildInv  BY BuildBegins DEF SearchInit
<1>2. BuildInv /\ [ServedNext]_<<vars, searchVars>> => BuildInv'
  <2>1. ASSUME BuildInv, ServedNext PROVE BuildInv'
    BY <2>1, BuildKeeps, BuildStutters DEF ServedNext
  <2>2. ASSUME BuildInv, UNCHANGED <<vars, searchVars>> PROVE BuildInv'
    BY <2>2, BuildStutters
  <2>3. QED  BY <2>1, <2>2
<1>3. QED  BY <1>1, <1>2, PTL DEF ServedSpec

\* The variables have their types, and rows are open in a transaction or in a batch
\* that is not full only while a table is filled (insertDocuments, BuildRecords).
THEOREM BuildTyped == ServedSpec => []TypeOK
<1>1. ASSUME BuildInv PROVE TypeOK
  <2>1. input \in [Calls -> Input]  BY <1>1 DEF BuildInv, InputInv
  <2>2. taken \in [Calls -> Tables]
    BY <1>1 DEF BuildInv, MapsInv, CallInv, TakenInv
  <2>3. stored \in [Calls -> Tables]
    BY <1>1 DEF BuildInv, MapsInv, CallInv, TakenInv
  <2>4. step \in [Calls -> Names]  BY <1>1 DEF BuildInv, MapsInv, CallInv, StepInv
  <2>5. \A c \in Calls : /\ pending[c] # <<>> => step[c] \in TableNames \cup {"dead"}
                         /\ kind = "lexical" => Len(pending[c]) < BatchSize
    BY <1>1 DEF BuildInv, CallInv, TakenInv
  <2>6. BoundsInv  BY <1>1 DEF BuildInv, StoresInv
  <2>7. QED  BY <2>1, <2>2, <2>3, <2>4, <2>5, <2>6 DEF TypeOK, BoundsInv, Names
<1>2. QED  BY <1>1, BuildInvariant, PTL

\* What is published is all that one call was given, each row once and each chunk with
\* its document, under the identity of just that, and a call that has succeeded has
\* published; a publication is replaced only where both calls had found the
\* destination free (os.Stat before os.Rename) and never for a Bleve index.
THEOREM StoresPublishedWhole == ServedSpec => []PublishedWhole
<1>1. ASSUME BuildInv PROVE PublishedWhole
  <2>1. InputInv /\ PublishedInv  BY <1>1 DEF BuildInv
  <2>2. ASSUME NEW n \in DOMAIN published, published[n].intact
        PROVE  /\ Canonical(published[n].tables) = Planned(published[n].by)
               /\ kind # "vector" => Canonical(published[n].identity) = Planned(published[n].by)
               /\ \A table \in TableNames : Unique(published[n].tables[table])
               /\ \A r \in RowsOf(published[n].tables.chunks) :
                    \E d \in RowsOf(published[n].tables.documents) : d.id = r.document
    <3>1. PICK p : p = published[n]  OBVIOUS
    <3>2. PublicationInv(p) /\ p.intact  BY <2>1, <2>2, <3>1 DEF PublishedInv
    <3>3. PICK W \in Tables : W = Whole(p.by) /\ WellFormed(W)  BY <3>2 DEF PublicationInv
    <3>4. p.tables = W /\ (kind # "vector" => p.identity = W)
      BY <3>2, <3>3 DEF PublicationInv
    <3>5. Canonical(p.tables) = Planned(p.by)  BY <2>1, <3>2, DigestDecides
    <3>6. kind # "vector" => Canonical(p.identity) = Planned(p.by)  BY <3>4, <3>5
    <3>7. /\ W["documents"] = W.documents /\ W["chunks"] = W.chunks /\ W["entries"] = W.entries
          /\ TableNames = {"documents", "chunks", "entries"}
      BY DEF TableNames
    <3>8. Unique(W.entries)
      <4>1. W.entries \in Seq(Row)  BY <3>3, <3>7, TableRows
      <4>2. Increasing(W.entries)  BY <3>3 DEF WellFormed
      <4>3. QED  BY <4>1, <4>2, RowsIdentified, IncreasingUnique
    <3>9. \A t \in TableNames : Unique(W[t])  BY <3>3, <3>7, <3>8 DEF WellFormed
    <3>10. \A r \in RowsOf(W.chunks) : \E d \in RowsOf(W.documents) : d.id = r.document
      <4>1. SUFFICES ASSUME NEW m \in DOMAIN W.chunks
                     PROVE  \E d \in RowsOf(W.documents) : d.id = W.chunks[m].document
        BY DEF RowsOf
      <4>2. HasDocument(W.documents, W.chunks[m])  BY <3>3 DEF WellFormed
      <4>3. QED  BY <4>2 DEF HasDocument
    <3>11. QED  BY <3>1, <3>4, <3>5, <3>6, <3>9, <3>10
  <2>3. \A n \in 2 .. Len(published) :
          kind # "lexical" /\ \E m \in 1 .. n - 1 : published[n].by \in published[m].beside
    BY <2>1 DEF PublishedInv
  <2>4. \A c \in Calls : outcome[c] = "ok" => \E n \in DOMAIN published : published[n].by = c
    BY <2>1 DEF PublishedInv
  <2>5. QED  BY <2>2, <2>3, <2>4, Zenon DEF PublishedWhole
<1>2. QED  BY <1>1, BuildInvariant, PTL

\* Only a crash or a failing removal leaves a temporary behind, only a running call or a
\* caller holds a store, and no store is renamed while it is open.
THEOREM BuildTemporariesAccounted == ServedSpec => []TemporariesAccounted
<1>1. ASSUME BuildInv PROVE TemporariesAccounted
  <2>1. BoundsInv /\ \A c \in Calls : StoreInv(c)  BY <1>1 DEF BuildInv, StoresInv
  <2>2. \A c \in temporary \ lingering : Running(c)
    BY <2>1 DEF BoundsInv, StoreInv, Filling, Running
  <2>3. \A c \in handles :
          IF step[c] = "returned" THEN outcome[c] = "ok" /\ kind # "content"
          ELSE Running(c) /\ c \in temporary /\ step[c] \notin {"stat", "rename"}
    BY <2>1 DEF BoundsInv, StoreInv, Filling, Running
  <2>4. QED  BY <2>1, <2>2, <2>3 DEF TemporariesAccounted, BoundsInv
<1>2. QED  BY <1>1, BuildInvariant, PTL

\* An inspection computes the planned digest just when nothing was altered since,
\* wherever the boundaries of its pages fall (inspectDB, InspectIndex).
THEOREM StoresInspectionDecides == ServedSpec => []InspectionDecides
<1>1. ASSUME BuildInv PROVE InspectionDecides
  <2>1. InputInv /\ ReaderInv  BY <1>1 DEF BuildInv
  <2>2. CASE reader = Idle  BY <2>2 DEF InspectionDecides, Idle
  <2>3. CASE reader # Idle
    <3>1. PublicationInv(reader.index)  BY <2>1, <2>3 DEF ReaderInv
    <3>2. reader.state = "inspected" => reader.rows = Canonical(reader.index.tables)
      BY <2>1, <2>3 DEF ReaderInv
    <3>3. reader.state = "failed" => ~Readable(reader.index)  BY <2>1, <2>3 DEF ReaderInv
    <3>4. Canonical(reader.index.tables) = Planned(reader.index.by) <=> reader.index.intact
      BY <2>1, <3>1, DigestDecides
    <3>5. reader.index.intact => Readable(reader.index)  BY <2>1, <3>1, IntactReadable
    <3>6. QED  BY <3>2, <3>3, <3>4, <3>5 DEF InspectionDecides
  <2>4. QED  BY <2>2, <2>3
<1>2. QED  BY <1>1, BuildInvariant, PTL

-----------------------------------------------------------------------------
(* The order of the hits.                                                  *)

\* What Hit yields.
HitType == [id : Nat, chunk : Nat, document : Nat, kind : STRING, score : Nat]

\* Each hit has an identifier of its own.
OneEach(S) == \A g, h \in S : g.id = h.id => g = h

\* The pairs of hits of which the first ranks before the second.
RankOrder(S) == {p \in S \X S : HitRanksBefore(p[1], p[2])}

\* The hits have no ties.
LEMMA HitsRank ==
  ASSUME NEW S \in SUBSET HitType, OneEach(S)
  PROVE  /\ \A g \in S : ~HitRanksBefore(g, g)
         /\ \A g, h \in S : g # h => HitRanksBefore(g, h) \/ HitRanksBefore(h, g)
         /\ \A f, g, h \in S : HitRanksBefore(f, g) /\ HitRanksBefore(g, h) => HitRanksBefore(f, h)
<1>1. \A g \in S : g.id \in Nat /\ g.chunk \in Nat /\ g.document \in Nat /\ g.score \in Nat
  BY DEF HitType
<1>2. \A g, h \in S : g # h => g.id # h.id  BY DEF OneEach
<1>3. \A g \in S : ~HitRanksBefore(g, g)  BY <1>1 DEF HitRanksBefore
<1>4. \A g, h \in S : g # h => HitRanksBefore(g, h) \/ HitRanksBefore(h, g)
  BY <1>1, <1>2 DEF HitRanksBefore
<1>5. \A f, g, h \in S : HitRanksBefore(f, g) /\ HitRanksBefore(g, h) => HitRanksBefore(f, h)
  BY <1>1 DEF HitRanksBefore
<1>6. QED  BY <1>3, <1>4, <1>5

\* One is before another, as a pair.
LEMMA InRankOrder ==
  ASSUME NEW S, NEW g \in S, NEW h \in S
  PROVE  <<g, h>> \in RankOrder(S) <=> HitRanksBefore(g, h)
<1>1. <<g, h>>[1] = g /\ <<g, h>>[2] = h /\ <<g, h>> \in S \X S  OBVIOUS
<1>2. QED  BY <1>1 DEF RankOrder

\* So their order is strict and total.
LEMMA HitsOrder ==
  ASSUME NEW S \in SUBSET HitType, OneEach(S)
  PROVE  Orders(RankOrder(S), S) /\ Ranked(S) = InOrder(S, RankOrder(S))
<1>1. \A g, h \in S : <<g, h>> \in RankOrder(S) <=> HitRanksBefore(g, h)  BY InRankOrder
<1>2. \A g \in S : <<g, g>> \notin RankOrder(S)  BY <1>1, HitsRank
<1>3. \A g, h \in S : g # h => <<g, h>> \in RankOrder(S) \/ <<h, g>> \in RankOrder(S)
  BY <1>1, HitsRank
<1>4. ASSUME NEW f \in S, NEW g \in S, NEW h \in S,
             <<f, g>> \in RankOrder(S), <<g, h>> \in RankOrder(S)
      PROVE  <<f, h>> \in RankOrder(S)
  <2>1. HitRanksBefore(f, g) /\ HitRanksBefore(g, h)  BY <1>1, <1>4
  <2>2. HitRanksBefore(f, h)  BY <2>1, HitsRank
  <2>3. QED  BY <1>1, <2>2
<1>5. Ranked(S) = InOrder(S, RankOrder(S))  BY DEF Ranked, RankOrder
<1>6. QED  BY <1>2, <1>3, <1>4, <1>5 DEF Orders

\* Ranked lists the hits, the better before the worse.
LEMMA RankedLists ==
  ASSUME NEW S \in SUBSET HitType, OneEach(S), IsFiniteSet(S)
  PROVE  /\ Ranked(S) \in Seq(S) /\ Len(Ranked(S)) = Cardinality(S)
         /\ \A h \in S : \E n \in DOMAIN Ranked(S) : Ranked(S)[n] = h
         /\ \A i, j \in DOMAIN Ranked(S) : i < j => HitRanksBefore(Ranked(S)[i], Ranked(S)[j])
<1>1. PICK q : q = InOrder(S, RankOrder(S))  OBVIOUS
<1>2. Orders(RankOrder(S), S) /\ Ranked(S) = q  BY <1>1, HitsOrder
<1>3. Lists(q, S, RankOrder(S)) /\ ToSet(q) = S /\ q \in Seq(S) /\ Len(q) = Cardinality(S)
  BY <1>1, <1>2, InOrderLists
<1>4. \A h \in S : \E n \in DOMAIN q : q[n] = h  BY <1>3 DEF ToSet
<1>5. \A i, j \in DOMAIN q : i < j => HitRanksBefore(q[i], q[j])
  <2>1. SUFFICES ASSUME NEW i \in DOMAIN q, NEW j \in DOMAIN q, i < j
                 PROVE  HitRanksBefore(q[i], q[j])
    OBVIOUS
  <2>2. <<q[i], q[j]>> \in RankOrder(S) /\ q[i] \in S /\ q[j] \in S  BY <1>3, <2>1 DEF Lists
  <2>3. QED  BY <2>2, InRankOrder
<1>6. QED  BY <1>2, <1>3, <1>4, <1>5

\* The root of the heap is the worst of it.
LEMMA WorstIsLast ==
  ASSUME heap \in SUBSET HitType, OneEach(heap), IsFiniteSet(heap), heap # {}
  PROVE  Worst \in heap /\ \A g \in heap \ {Worst} : HitRanksBefore(g, Worst)
<1>1. \A g, h \in heap : <<g, h>> \in RankOrder(heap) <=> HitRanksBefore(g, h)  BY InRankOrder
<1>2. \E h \in heap : \A g \in heap \ {h} : <<g, h>> \in RankOrder(heap)
  BY HitsOrder, LastExists
<1>3. \E h \in heap : \A g \in heap \ {h} : HitRanksBefore(g, h)  BY <1>1, <1>2
<1>4. QED  BY <1>3 DEF Worst

-----------------------------------------------------------------------------
(* The hits of an index.                                                   *)

\* One for each row of the index.
AllHits == {Hit(row) : row \in Entries(asked.index)}

\* The rows of a list are finitely many.
LEMMA RowsFinite ==
  ASSUME NEW T, NEW s \in Seq(T)
  PROVE  IsFiniteSet(RowsOf(s))
<1>1. s \in Surjection(1 .. Len(s), RowsOf(s))  BY DEF Surjection, RowsOf
<1>2. QED  BY <1>1, FS_Interval, FS_Surjection

\* The identifiers of what is published are those of inputs, or 0.
LEMMA EntryIds ==
  ASSUME InputInv, GivenInv, NEW p, PublicationInv(p), NEW row \in Entries(p)
  PROVE  row.id \in Ids
<1>1. p.by \in Calls /\ p.tables \in Tables /\ p.intact \in BOOLEAN
  <2>1. PICK all : all = Tables  OBVIOUS
  <2>2. QED  BY <2>1 DEF PublicationInv, PublicationType
<1>2. PICK given : given = input[p.by].produced.entries  OBVIOUS
<1>3. given \in Seq(Entry)
  <2>1. PICK i \in Input : i = input[p.by]  BY <1>1 DEF InputInv
  <2>2. PICK T \in Tables : T = i.produced  BY DEF Input
  <2>3. QED  BY <1>2, <2>1, <2>2 DEF Tables
<1>4. \A n \in DOMAIN given : given[n].id \in Ids
  <2>1. SUFFICES ASSUME NEW n \in DOMAIN given PROVE given[n].id \in Ids  OBVIOUS
  <2>2. PICK i : i = input[p.by]  OBVIOUS
  <2>3. i \in UNION {InputsOf[c] : c \in Calls}  BY <1>1, <2>2 DEF GivenInv
  <2>4. given[n] \in RowsOf(i.produced.entries)  BY <1>2, <2>2 DEF RowsOf
  <2>5. given[n].id \in {e.id : e \in RowsOf(i.produced.entries)}  BY <2>4
  <2>6. QED  BY <2>3, <2>5 DEF Ids
<1>5. PICK W \in Tables : W = Whole(p.by)  BY DEF PublicationInv
<1>6. PICK r, s : r = p.tables.entries /\ s = W.entries  OBVIOUS
<1>7. /\ p.tables["entries"] = r /\ W["entries"] = s /\ "entries" \in TableNames
      /\ RowOf("entries") = Entry
  BY <1>6 DEF TableNames, RowOf
<1>8. r \in Seq(Entry) /\ s \in Seq(Entry)  BY <1>1, <1>5, <1>7, TableRows
<1>9. \A n \in DOMAIN s : s[n].id \in Ids
  <2>1. s = Stream(p.by, "entries")  BY <1>1, <1>5, <1>7, StreamIs
  <2>2. s = IF input[p.by].whole THEN ById(given) ELSE given  BY <1>1, <1>2, <2>1, StreamIs
  <2>3. \A i \in DOMAIN s : \E n \in DOMAIN given : s[i] = given[n]
    BY <1>3, <2>2, ByIdRows, RowsIdentified
  <2>4. QED  BY <1>4, <2>3
<1>10. r = s \/ LastAltered(s, r)
  <2>1. CASE p.intact  BY <1>5, <1>6, <2>1 DEF PublicationInv
  <2>2. CASE ~p.intact
    <3>1. PICK t \in TableNames : AlteredIn(p.tables, W, t)
      BY <1>5, <2>2 DEF PublicationInv
    <3>2. CASE t = "entries"  BY <1>7, <3>1, <3>2 DEF AlteredIn
    <3>3. CASE t # "entries"  BY <1>7, <3>1, <3>3 DEF AlteredIn
    <3>4. QED  BY <3>2, <3>3
  <2>3. QED  BY <1>1, <2>1, <2>2
<1>11. PICK n \in DOMAIN r : row = r[n]  BY <1>6 DEF Entries, RowsOf
<1>12. CASE r = s  BY <1>9, <1>11, <1>12
<1>13. CASE LastAltered(s, r)
  <2>1. "entries" \in TableNames /\ s \in Seq(RowOf("entries"))  BY <1>7, <1>8
  <2>2. PICK last \in DOMAIN s : /\ DOMAIN r \subseteq DOMAIN s
                                 /\ \A i \in DOMAIN r : i # last => r[i] = s[i]
                                 /\ last \in DOMAIN r => r[last].id = 0
    BY <1>13, <2>1, AlteredAt
  <2>3. CASE n # last
    <3>1. r[n] = s[n] /\ n \in DOMAIN s  BY <1>11, <2>2, <2>3
    <3>2. QED  BY <1>9, <1>11, <3>1
  <2>4. CASE n = last
    <3>1. row.id = 0  BY <1>11, <2>2, <2>4
    <3>2. QED  BY <3>1 DEF Ids
  <2>5. QED  BY <2>3, <2>4
<1>14. QED  BY <1>10, <1>12, <1>13

\* The hits have their type and are as many as the rows.
LEMMA HitsOfIndex ==
  ASSUME InputInv, GivenInv, AskedInv
  PROVE  /\ IsFiniteSet(Entries(asked.index)) /\ IsFiniteSet(AllHits)
         /\ AllHits \in SUBSET HitType /\ OneEach(AllHits)
         /\ \A r, s \in Entries(asked.index) : Hit(r) = Hit(s) => r = s
         /\ Cardinality(AllHits) <= Cardinality(Entries(asked.index))
<1>1. PICK rows : rows = asked.index.tables.entries  OBVIOUS
<1>2. PICK E : E = Entries(asked.index)  OBVIOUS
<1>3. rows \in Seq(Entry) /\ Unique(rows) /\ E = RowsOf(rows)
  BY <1>1, <1>2, EntriesDistinct DEF AskedInv, Entries
<1>4. IsFiniteSet(E)  BY <1>3, RowsFinite
<1>5. \A r \in E : r \in Entry /\ r.id \in Ids
  <2>1. \A r \in E : r \in Entry  BY <1>3 DEF RowsOf
  <2>2. QED  BY <1>2, <2>1, EntryIds DEF AskedInv
<1>6. \A r, s \in E : r.id = s.id => r = s
  BY <1>3 DEF RowsOf, Unique
<1>7. PICK score \in [Ids -> Nat] : score = asked.query.score
  <2>1. asked.query \in Query  BY DEF AskedInv, AskedType
  <2>2. QED  BY <2>1 DEF Query
<1>8. \A r \in E : /\ Hit(r) \in HitType /\ Hit(r).id = r.id
                   /\ score[r.id] \in Nat
  <2>1. SUFFICES ASSUME NEW r \in E PROVE Hit(r) \in HitType /\ Hit(r).id = r.id /\ score[r.id] \in Nat
    OBVIOUS
  <2>2. /\ r.id \in Nat /\ r.chunk \in Nat /\ r.document \in Nat /\ r.kind \in STRING
        /\ score[r.id] \in Nat
    BY <1>5, <1>7 DEF Entry
  <2>3. Hit(r) = [id |-> r.id, chunk |-> r.chunk, document |-> r.document, kind |-> r.kind,
                  score |-> score[r.id]]
    BY <1>7 DEF Hit
  <2>4. QED  BY <2>2, <2>3 DEF HitType
<1>9. \A r, s \in E : Hit(r) = Hit(s) => r = s  BY <1>6, <1>8
<1>10. AllHits = {Hit(r) : r \in E}  BY <1>2 DEF AllHits
<1>11. AllHits \in SUBSET HitType  BY <1>8, <1>10
<1>12. OneEach(AllHits)  BY <1>6, <1>8, <1>10 DEF OneEach
<1>13. IsFiniteSet(AllHits) /\ Cardinality(AllHits) <= Cardinality(E)
  <2> DEFINE f == [r \in E |-> Hit(r)]
  <2>1. f \in Surjection(E, AllHits)  BY <1>10 DEF Surjection
  <2> HIDE DEF f
  <2>2. QED  BY <1>4, <2>1, FS_Surjection
<1>14. QED  BY <1>2, <1>4, <1>9, <1>11, <1>12, <1>13

-----------------------------------------------------------------------------
(* Scanning.                                                               *)

\* What is said of what was asked stays.
LEMMA AskedFrame ==
  ASSUME input' = input, asked' = asked
  PROVE  /\ \A row : Hit(row)' = Hit(row)
         /\ Entries(asked.index)' = Entries(asked.index)
         /\ Depth' = Depth /\ AllHits' = AllHits /\ Matching' = Matching
         /\ (GivenInv => GivenInv') /\ (AskedInv => AskedInv')
         /\ \A h : Eligible(h)' <=> Eligible(h)
         /\ \A h, S : Before(h, S)' = Before(h, S)
<1>1. \A row : Hit(row)' = Hit(row)  BY DEF Hit
<1>2. Entries(asked.index)' = Entries(asked.index)  BY DEF Entries
<1>3. Depth' = Depth  BY DEF Depth, Entries
<1>4. AllHits' = AllHits  BY <1>1, <1>2 DEF AllHits
<1>5. kind' = kind  BY InputFrame
<1>6. Matching' = Matching  BY <1>1, <1>2, <1>5 DEF Matching
<1>7. GivenInv => GivenInv'  BY DEF GivenInv
<1>8. AskedInv => AskedInv'
  <2>1. PublicationInv(asked.index) => PublicationInv(asked.index)'  BY InputFrame
  <2>2. asked \in AskedType => (asked \in AskedType)'
    BY DEF AskedType, PublicationType, Query, Filter
  <2>3. QED  BY <2>1, <2>2 DEF AskedInv
<1>9. \A h : Eligible(h)' <=> Eligible(h)  BY DEF Eligible
<1>10. \A h, S : Before(h, S)' = Before(h, S)  BY DEF Before
<1>11. QED  BY <1>1, <1>2, <1>3, <1>4, <1>6, <1>7, <1>8, <1>9, <1>10

\* How many hits are asked of the index.
LEMMA DepthTyped ==
  ASSUME InputInv, GivenInv, AskedInv
  PROVE  /\ Depth \in Nat /\ Cardinality(Entries(asked.index)) \in Nat
         /\ Entries(asked.index) # {} => Depth >= 1
         /\ asked.limit \in Nat \ {0} /\ asked.filter.by \in {"none", "kind", "role"}
         /\ asked.filter.by = "kind" => Depth = Cardinality(Entries(asked.index))
         /\ asked.filter.by = "role" => Depth = asked.filter.depth
         /\ asked.filter.by = "none" => Depth = asked.limit
<1>1. PICK filter \in Filter : filter = asked.filter  BY DEF AskedInv, AskedType
<1>2. PICK limit \in Nat \ {0} : limit = asked.limit  BY DEF AskedInv, AskedType
<1>3. PICK E : E = Entries(asked.index)  OBVIOUS
<1>4. IsFiniteSet(E)  BY <1>3, HitsOfIndex
<1>5. Cardinality(E) \in Nat /\ (E # {} => Cardinality(E) >= 1)
  BY <1>4, FS_CardinalityType, FS_EmptySet
<1>6. filter.by \in {"none", "kind", "role"} /\ filter.depth \in Nat
  BY DEF Filter
<1>7. filter.by = "role" => filter.depth >= 1  BY <1>1 DEF AskedInv
<1>8. /\ filter.by = "kind" => Depth = Cardinality(E)
      /\ filter.by = "role" => Depth = filter.depth
      /\ filter.by = "none" => Depth = limit
  BY <1>1, <1>2, <1>3 DEF Depth
<1>9. QED  BY <1>1, <1>2, <1>3, <1>5, <1>6, <1>7, <1>8

\* The heap after the next row.
Offered(row) ==
  IF Cardinality(heap) < Depth THEN heap \cup {Hit(row)}
  ELSE IF Displaces(Hit(row)) THEN (heap \ {Worst}) \cup {Hit(row)}
  ELSE heap

\* The heap keeps the best of what was scanned, with ties in any order of the scan.
LEMMA OfferKeeps ==
  ASSUME InputInv, GivenInv, AskedInv, HeapInv, NEW row \in unscanned,
         input' = input, asked' = asked,
         unscanned' = unscanned \ {row}, heap' = Offered(row)
  PROVE  HeapInv'
<1>1. PICK h0 : h0 = Hit(row)  OBVIOUS
<1>2. PICK S : S = Scanned  OBVIOUS
<1>3. PICK E : E = Entries(asked.index)  OBVIOUS
<1>4. PICK d \in Nat : d = Depth  BY DepthTyped
<1>5. row \in E /\ unscanned \subseteq E  BY <1>3 DEF HeapInv
<1>6. d >= 1  BY <1>3, <1>4, <1>5, DepthTyped
<1>7. S = {Hit(r) : r \in E \ unscanned}  BY <1>2, <1>3 DEF Scanned
<1>8. AllHits = {Hit(r) : r \in E}  BY <1>3 DEF AllHits
<1>9. S \subseteq AllHits /\ h0 \in AllHits  BY <1>1, <1>5, <1>7, <1>8
<1>10. h0 \notin S
  <2>1. \A r \in E : Hit(r) = h0 => r = row  BY <1>1, <1>3, <1>5, HitsOfIndex
  <2>2. QED  BY <1>7, <2>1
<1>11. PICK T \in SUBSET HitType : T = S \cup {h0} /\ OneEach(T) /\ IsFiniteSet(T)
  <2>1. S \cup {h0} \in SUBSET HitType  BY <1>9, HitsOfIndex
  <2>2. OneEach(S \cup {h0})  BY <1>9, HitsOfIndex DEF OneEach
  <2>3. IsFiniteSet(S \cup {h0})  BY <1>9, HitsOfIndex, FS_Subset
  <2>4. QED  BY <2>1, <2>2, <2>3
<1>12. heap \subseteq S /\ Cardinality(heap) <= d
       /\ \A h \in S \ heap : Cardinality(heap) = d /\ \A g \in heap : HitRanksBefore(g, h)
  <2>1. heap \subseteq S /\ Cardinality(heap) <= d  BY <1>2, <1>4 DEF HeapInv
  <2>2. \A h \in S \ heap : Cardinality(heap) = d /\ heap \subseteq Before(h, S)
    BY <1>2, <1>4 DEF HeapInv
  <2>3. QED  BY <2>1, <2>2 DEF Before
<1>13. IsFiniteSet(heap) /\ Cardinality(heap) \in Nat
  <2>1. heap \in SUBSET T  BY <1>11, <1>12
  <2>2. QED  BY <1>11, <2>1, FS_Subset, FS_CardinalityType
<1>14. h0 \notin heap  BY <1>10, <1>12
<1>15. PICK next : next = Offered(row)  OBVIOUS
<1>16. /\ next \subseteq T /\ Cardinality(next) <= d
       /\ \A h \in T \ next : Cardinality(next) = d /\ \A g \in next : HitRanksBefore(g, h)
  <2>1. CASE Cardinality(heap) < d
    <3>1. next = heap \cup {h0}  BY <1>1, <1>4, <1>15, <2>1 DEF Offered
    <3>2. Cardinality(next) = Cardinality(heap) + 1  BY <1>13, <1>14, <3>1, FS_AddElement
    <3>3. T \ next = {}
      <4>1. S \subseteq heap  BY <1>4, <1>12, <1>13, <2>1
      <4>2. QED  BY <1>11, <3>1, <4>1
    <3>4. next \subseteq T  BY <1>11, <1>12, <3>1
    <3>5. Cardinality(next) <= d  BY <1>4, <1>13, <2>1, <3>2
    <3>6. QED  BY <3>3, <3>4, <3>5
  <2>2. CASE Cardinality(heap) = d
    <3>1. heap # {}  BY <1>4, <1>6, <2>2, FS_EmptySet
    <3>2. PICK w : w = Worst  OBVIOUS
    <3>3. w \in heap /\ \A g \in heap \ {w} : HitRanksBefore(g, w)
      <4>1. heap \in SUBSET HitType  BY <1>11, <1>12
      <4>2. OneEach(heap)  BY <1>11, <1>12 DEF OneEach
      <4>3. QED  BY <1>13, <3>1, <3>2, <4>1, <4>2, WorstIsLast
    <3>4. w \in T /\ h0 \in T /\ h0 # w /\ heap \subseteq T  BY <1>11, <1>12, <1>14, <3>3
    <3>5. CASE Displaces(Hit(row))
      <4>1. next = (heap \ {w}) \cup {h0}  BY <1>1, <1>4, <1>15, <2>2, <3>2, <3>5 DEF Offered
      <4>2. HitRanksBefore(h0, w)  BY <1>1, <3>2, <3>5 DEF Displaces
      <4>3. Cardinality(next) = d
        <5>1. IsFiniteSet(heap \ {w}) /\ Cardinality(heap \ {w}) = d - 1
          BY <1>13, <2>2, <3>3, FS_RemoveElement
        <5>2. Cardinality((heap \ {w}) \cup {h0}) = (d - 1) + 1
          BY <1>14, <5>1, FS_AddElement
        <5>3. QED  BY <1>4, <4>1, <5>2
      <4>4. \A g \in next : g # w => g \in T /\ HitRanksBefore(g, w)
        BY <3>3, <3>4, <4>1, <4>2
      <4>5. ASSUME NEW h \in T \ next PROVE \A g \in next : HitRanksBefore(g, h)
        <5>1. h = w \/ h \in S \ heap  BY <1>11, <4>1, <4>5
        <5>2. w \notin next  BY <3>4, <4>1
        <5>3. CASE h = w  BY <4>4, <5>2, <5>3
        <5>4. CASE h \in S \ heap
          <6>1. HitRanksBefore(w, h)  BY <1>12, <3>3, <5>4
          <6>2. \A f, g, k \in T : HitRanksBefore(f, g) /\ HitRanksBefore(g, k) => HitRanksBefore(f, k)
            BY <1>11, HitsRank
          <6>3. QED  BY <3>4, <4>4, <5>2, <6>1, <6>2
        <5>5. QED  BY <5>1, <5>3, <5>4
      <4>6. next \subseteq T  BY <3>4, <4>1
      <4>7. QED  BY <1>4, <4>3, <4>5, <4>6
    <3>6. CASE ~Displaces(Hit(row))
      <4>1. next = heap  BY <1>4, <1>15, <2>2, <3>6 DEF Offered
      <4>2. ~HitRanksBefore(h0, w)  BY <1>1, <3>2, <3>6 DEF Displaces
      <4>3. HitRanksBefore(w, h0)  BY <1>11, <3>4, <4>2, HitsRank
      <4>4. \A g \in heap : HitRanksBefore(g, h0)
        <5>1. \A f, g, k \in T : HitRanksBefore(f, g) /\ HitRanksBefore(g, k) => HitRanksBefore(f, k)
          BY <1>11, HitsRank
        <5>2. QED  BY <3>3, <3>4, <4>3, <5>1
      <4>5. \A h \in T \ heap : \A g \in heap : HitRanksBefore(g, h)  BY <1>11, <1>12, <4>4
      <4>6. QED  BY <1>4, <2>2, <3>4, <4>1, <4>5
    <3>7. QED  BY <3>5, <3>6
  <2>3. QED  BY <1>4, <1>12, <1>13, <2>1, <2>2
<1>17. /\ Depth' = d /\ Entries(asked.index)' = E /\ \A r : Hit(r)' = Hit(r)
  BY <1>3, <1>4, AskedFrame
<1>18. Scanned' = T
  <2>1. Scanned' = {Hit(r) : r \in E \ (unscanned \ {row})}  BY <1>17 DEF Scanned
  <2>2. E \ (unscanned \ {row}) = (E \ unscanned) \cup {row}  BY <1>5
  <2>3. {Hit(r) : r \in (E \ unscanned) \cup {row}} = S \cup {h0}  BY <1>1, <1>7
  <2>4. QED  BY <1>11, <2>1, <2>2, <2>3
<1>19. heap' = next /\ unscanned' \subseteq E  BY <1>5, <1>15
<1>20. \A h \in T \ next : Cardinality(next) = d /\ next \subseteq Before(h, T)
  BY <1>16 DEF Before
<1>21. QED
  <2>1. (\A h, S2 : Before(h, S2)' = Before(h, S2))  BY AskedFrame
  <2>2. QED  BY <1>16, <1>17, <1>18, <1>19, <1>20, <2>1 DEF HeapInv

-----------------------------------------------------------------------------
(* What is returned.                                                       *)

\* Of all hits that match, these are the best, and as many as were asked for.
Top(top) ==
  /\ top \subseteq Matching
  /\ \A h \in Matching \ top : Cardinality(top) >= Depth /\ top \subseteq Before(h, Matching)

\* The hits that match have their type, and there are not more than rows.
LEMMA MatchingTyped ==
  ASSUME InputInv, GivenInv, AskedInv
  PROVE  /\ Matching \in SUBSET HitType /\ OneEach(Matching) /\ IsFiniteSet(Matching)
         /\ Cardinality(Matching) \in Nat
         /\ Cardinality(Matching) <= Cardinality(Entries(asked.index))
         /\ Cardinality(Entries(asked.index)) \in Nat
<1>1. Matching \in SUBSET AllHits  BY DEF Matching, AllHits
<1>2. Matching \in SUBSET HitType /\ OneEach(Matching)  BY <1>1, HitsOfIndex DEF OneEach
<1>3. IsFiniteSet(Matching) /\ Cardinality(Matching) <= Cardinality(AllHits)
  BY <1>1, HitsOfIndex, FS_Subset
<1>4. /\ Cardinality(Matching) \in Nat /\ Cardinality(AllHits) \in Nat
      /\ Cardinality(Entries(asked.index)) \in Nat
  BY <1>3, HitsOfIndex, FS_CardinalityType
<1>5. Cardinality(AllHits) <= Cardinality(Entries(asked.index))  BY HitsOfIndex
<1>6. QED  BY <1>2, <1>3, <1>4, <1>5

\* When all is scanned, the heap holds the best.
LEMMA ScannedTop ==
  ASSUME InputInv, GivenInv, AskedInv, HeapInv, unscanned = {}, kind = "vector"
  PROVE  Top(heap)
<1>1. Scanned = Matching  BY DEF Scanned, Matching
<1>2. Depth \in Nat  BY DepthTyped
<1>3. QED  BY <1>1, <1>2 DEF HeapInv, Top

\* The hits that fewer others come before are the best.
LEMMA CutTop ==
  ASSUME InputInv, GivenInv, AskedInv,
         NEW top, top = {h \in Matching : Cardinality(Before(h, Matching)) < Depth}
  PROVE  Top(top)
<1>1. PICK M \in SUBSET HitType : M = Matching /\ OneEach(M) /\ IsFiniteSet(M)
  BY MatchingTyped
<1>2. PICK d \in Nat : d = Depth  BY DepthTyped
<1>3. \A h \in M : /\ IsFiniteSet(Before(h, M)) /\ Cardinality(Before(h, M)) \in Nat
                   /\ \A g \in M : g \in Before(h, M) <=> HitRanksBefore(g, h)
  <2>1. SUFFICES ASSUME NEW h \in M
                 PROVE  /\ IsFiniteSet(Before(h, M)) /\ Cardinality(Before(h, M)) \in Nat
                        /\ \A g \in M : g \in Before(h, M) <=> HitRanksBefore(g, h)
    OBVIOUS
  <2>2. Before(h, M) \in SUBSET M  BY DEF Before
  <2>3. IsFiniteSet(Before(h, M))  BY <1>1, <2>2, FS_Subset
  <2>4. Cardinality(Before(h, M)) \in Nat  BY <2>3, FS_CardinalityType
  <2>5. \A g \in M : g \in Before(h, M) <=> HitRanksBefore(g, h)  BY DEF Before
  <2>6. QED  BY <2>3, <2>4, <2>5
<1>4. top \subseteq M /\ \A h \in M : h \in top <=> Cardinality(Before(h, M)) < d
  BY <1>1, <1>2
<1>5. ASSUME NEW h \in M \ top PROVE top \subseteq Before(h, M)
  <2>1. SUFFICES ASSUME NEW g \in top PROVE g \in Before(h, M)  OBVIOUS
  <2>2. g \in M /\ g # h  BY <1>4, <1>5
  <2>3. SUFFICES ASSUME HitRanksBefore(h, g) PROVE FALSE
    BY <1>1, <1>3, <1>5, <2>2, HitsRank
  <2>4. Before(h, M) \in SUBSET Before(g, M)
    <3>1. \A f \in M : HitRanksBefore(f, h) => HitRanksBefore(f, g)
      BY <1>1, <1>5, <2>2, <2>3, HitsRank
    <3>2. QED  BY <3>1 DEF Before
  <2>5. Cardinality(Before(h, M)) <= Cardinality(Before(g, M))
    BY <1>3, <2>2, <2>4, FS_Subset
  <2>6. Cardinality(Before(g, M)) < d  BY <1>4, <2>1, <2>2
  <2>7. ~(Cardinality(Before(h, M)) < d)  BY <1>4, <1>5
  <2>8. Cardinality(Before(h, M)) \in Nat /\ Cardinality(Before(g, M)) \in Nat
    BY <1>3, <1>5, <2>2
  <2>9. QED  BY <2>5, <2>6, <2>7, <2>8
<1>6. ASSUME M \ top # {} PROVE Cardinality(top) >= d
  <2>1. PICK R : R = {p \in M \X M : HitRanksBefore(p[2], p[1])}  OBVIOUS
  <2>2. \A g, h \in M : <<g, h>> \in R <=> HitRanksBefore(h, g)
    <3>1. SUFFICES ASSUME NEW g \in M, NEW h \in M
                   PROVE  (<<g, h>> \in R <=> HitRanksBefore(h, g))
      OBVIOUS
    <3>2. <<g, h>>[1] = g /\ <<g, h>>[2] = h /\ <<g, h>> \in M \X M  OBVIOUS
    <3>3. QED  BY <2>1, <3>2
  <2>3. Orders(R, M \ top)
    <3>1. \A x \in M \ top : <<x, x>> \notin R  BY <1>1, <2>2, HitsRank
    <3>2. \A x, y \in M \ top : x # y => <<x, y>> \in R \/ <<y, x>> \in R
      BY <1>1, <2>2, HitsRank
    <3>3. ASSUME NEW x \in M \ top, NEW y \in M \ top, NEW z \in M \ top,
                 <<x, y>> \in R, <<y, z>> \in R
          PROVE  <<x, z>> \in R
      <4>1. HitRanksBefore(z, y) /\ HitRanksBefore(y, x)  BY <2>2, <3>3
      <4>2. HitRanksBefore(z, x)  BY <1>1, <4>1, HitsRank
      <4>3. QED  BY <2>2, <4>2
    <3>4. QED  BY <3>1, <3>2, <3>3 DEF Orders
  <2>4. IsFiniteSet(M \ top)  BY <1>1, FS_Subset
  <2>5. PICK m \in M \ top : \A x \in (M \ top) \ {m} : <<x, m>> \in R
    BY <1>6, <2>3, <2>4, LastExists
  <2>6. Before(m, M) \in SUBSET top
    <3>1. SUFFICES ASSUME NEW g \in M, HitRanksBefore(g, m), g \notin top PROVE FALSE
      BY DEF Before
    <3>2. g # m  BY <1>1, <2>5, <3>1, HitsRank
    <3>3. HitRanksBefore(m, g)  BY <2>2, <2>5, <3>1, <3>2
    <3>4. HitRanksBefore(m, m)  BY <1>1, <2>5, <3>1, <3>3, HitsRank
    <3>5. QED  BY <1>1, <2>5, <3>4, HitsRank
  <2>7. IsFiniteSet(top)  BY <1>1, <1>4, FS_Subset
  <2>8. Cardinality(Before(m, M)) <= Cardinality(top)  BY <2>6, <2>7, FS_Subset
  <2>9. ~(Cardinality(Before(m, M)) < d) /\ Cardinality(Before(m, M)) \in Nat
    BY <1>3, <1>4, <2>5
  <2>10. Cardinality(top) \in Nat  BY <2>7, FS_CardinalityType
  <2>11. QED  BY <2>8, <2>9, <2>10
<1>7. QED  BY <1>1, <1>2, <1>4, <1>5, <1>6 DEF Top

\* The best, filtered and cut, are all that could be asked for.
LEMMA TopIsExact ==
  ASSUME InputInv, GivenInv, AskedInv, NEW top, Top(top), NEW found, found = Filtered(Ranked(top))
  PROVE  /\ Len(found) <= asked.limit /\ RowsOf(found) \subseteq {h \in Matching : Eligible(h)}
         /\ \A n \in 2 .. Len(found) : HitRanksBefore(found[n - 1], found[n])
         /\ \A h \in Matching \ RowsOf(found) :
              Eligible(h) =>
                \/ Len(found) = asked.limit /\ RowsOf(found) \subseteq Before(h, Matching)
                \/ /\ asked.filter.by = "role"
                   /\ Cardinality(Before(h, Matching)) >= asked.filter.depth
<1>1. PICK M \in SUBSET HitType : M = Matching /\ OneEach(M) /\ IsFiniteSet(M)
  BY MatchingTyped
<1>2. PICK d \in Nat : d = Depth  BY DepthTyped
<1>3. PICK limit \in Nat \ {0} : limit = asked.limit  BY DepthTyped
<1>4. top \in SUBSET HitType /\ OneEach(top) /\ IsFiniteSet(top) /\ Cardinality(top) \in Nat
  <2>1. top \in SUBSET M  BY <1>1 DEF Top
  <2>2. IsFiniteSet(top)  BY <1>1, <2>1, FS_Subset
  <2>3. OneEach(top)  BY <1>1, <2>1 DEF OneEach
  <2>4. QED  BY <2>1, <2>2, <2>3, FS_CardinalityType
<1>5. PICK q : q = Ranked(top)  OBVIOUS
<1>6. /\ q \in Seq(top) /\ Len(q) = Cardinality(top)
      /\ \A h \in top : \E n \in DOMAIN q : q[n] = h
      /\ \A i, j \in DOMAIN q : i < j => HitRanksBefore(q[i], q[j])
  BY <1>4, <1>5, RankedLists
<1>7. PICK P \in SUBSET DOMAIN q : P = {n \in DOMAIN q : Eligible(q[n])}  OBVIOUS
<1>8. PICK k : k = Kept(q, Ascending(P))  OBVIOUS
<1>9. k \in Seq(top) /\ Len(k) = Cardinality(P) /\ Picks(k, q, P)
  BY <1>6, <1>8, KeptRows
<1>10. PICK m \in Nat : m = IF Len(k) < limit THEN Len(k) ELSE limit  BY <1>9
<1>11. found = SubSeq(k, 1, m)  BY <1>3, <1>5, <1>7, <1>8, <1>10 DEF Filtered
<1>12. m <= Len(k) /\ m <= limit /\ Len(k) \in Nat  BY <1>9, <1>10
<1>13. Len(found) = m /\ DOMAIN found = 1 .. m /\ \A i \in 1 .. m : found[i] = k[i]
  BY <1>9, <1>11, <1>12
<1>14. \A i, j \in DOMAIN k : i < j => HitRanksBefore(k[i], k[j])
  <2>1. PICK f \in [DOMAIN k -> P] : /\ \A i \in DOMAIN f : k[i] = q[f[i]]
                                     /\ \A i, j \in DOMAIN f : i < j => f[i] < f[j]
    BY <1>9 DEF Picks
  <2>2. SUFFICES ASSUME NEW i \in DOMAIN k, NEW j \in DOMAIN k, i < j
                 PROVE  HitRanksBefore(k[i], k[j])
    OBVIOUS
  <2>3. f[i] \in DOMAIN q /\ f[j] \in DOMAIN q /\ f[i] < f[j] /\ k[i] = q[f[i]] /\ k[j] = q[f[j]]
    BY <1>7, <2>1, <2>2
  <2>4. QED  BY <1>6, <2>3
<1>15. \A i \in DOMAIN k : k[i] \in top /\ Eligible(k[i])
  <2>1. \A i \in DOMAIN k : \E n \in P : k[i] = q[n]  BY <1>9 DEF Picks
  <2>2. \A i \in DOMAIN k : k[i] \in top  BY <1>9
  <2>3. QED  BY <1>7, <2>1, <2>2
<1>16. DOMAIN k = 1 .. Len(k)  BY <1>9
<1>17. top \subseteq M  BY <1>1 DEF Top
<1>18. Len(found) <= limit  BY <1>12, <1>13
<1>19. RowsOf(found) \subseteq {h \in M : Eligible(h)}
  <2>1. SUFFICES ASSUME NEW i \in 1 .. m PROVE found[i] \in M /\ Eligible(found[i])
    BY <1>13 DEF RowsOf
  <2>2. i \in DOMAIN k /\ found[i] = k[i]  BY <1>12, <1>13, <1>16
  <2>3. QED  BY <1>15, <1>17, <2>2
<1>20. \A n \in 2 .. Len(found) : HitRanksBefore(found[n - 1], found[n])
  <2>1. SUFFICES ASSUME NEW n \in 2 .. m PROVE HitRanksBefore(found[n - 1], found[n])
    BY <1>13
  <2>2. /\ n - 1 \in DOMAIN k /\ n \in DOMAIN k /\ n - 1 < n
        /\ found[n - 1] = k[n - 1] /\ found[n] = k[n]
    BY <1>12, <1>13, <1>16
  <2>3. QED  BY <1>14, <2>2
<1>21. ASSUME NEW h \in M, h \notin RowsOf(found), Eligible(h)
       PROVE  \/ Len(found) = limit /\ RowsOf(found) \subseteq Before(h, M)
              \/ /\ asked.filter.by = "role"
                 /\ Cardinality(Before(h, M)) >= asked.filter.depth
  <2>1. CASE h \in top
    <3>1. PICK n \in DOMAIN q : q[n] = h  BY <1>6, <2>1
    <3>2. n \in P  BY <1>7, <1>21, <3>1
    <3>3. PICK j \in DOMAIN k : k[j] = h  BY <1>9, <3>1, <3>2 DEF Picks
    <3>4. j \in Nat /\ j <= Len(k) /\ j > m
      <4>1. j \in 1 .. Len(k)  BY <1>16
      <4>2. j \notin 1 .. m
        <5>1. j \in 1 .. m => found[j] = h /\ j \in DOMAIN found  BY <1>13, <3>3
        <5>2. QED  BY <1>21, <5>1 DEF RowsOf
      <4>3. QED  BY <1>12, <4>1, <4>2
    <3>5. Len(found) = limit  BY <1>10, <1>12, <1>13, <3>4
    <3>6. RowsOf(found) \subseteq Before(h, M)
      <4>1. SUFFICES ASSUME NEW i \in 1 .. m PROVE found[i] \in Before(h, M)
        BY <1>13 DEF RowsOf
      <4>2. i \in DOMAIN k /\ i < j /\ found[i] = k[i]  BY <1>12, <1>13, <1>16, <3>4
      <4>3. HitRanksBefore(found[i], h)  BY <1>14, <3>3, <4>2
      <4>4. found[i] \in M  BY <1>15, <1>17, <4>2
      <4>5. QED  BY <4>3, <4>4 DEF Before
    <3>7. QED  BY <3>5, <3>6
  <2>2. CASE h \notin top
    <3>1. Cardinality(top) >= d /\ top \subseteq Before(h, M)
      BY <1>1, <1>2, <1>21, <2>2 DEF Top
    <3>2. RowsOf(found) \subseteq Before(h, M)
      <4>1. SUFFICES ASSUME NEW i \in 1 .. m PROVE found[i] \in top
        BY <1>13, <3>1 DEF RowsOf
      <4>2. i \in DOMAIN k /\ found[i] = k[i]  BY <1>12, <1>13, <1>16
      <4>3. QED  BY <1>15, <4>2
    <3>3. CASE asked.filter.by = "kind"
      <4>1. top \in SUBSET (M \ {h})  BY <1>17, <2>2
      <4>2. IsFiniteSet(M \ {h}) /\ Cardinality(M \ {h}) = Cardinality(M) - 1
        BY <1>1, <1>21, FS_RemoveElement
      <4>3. Cardinality(top) <= Cardinality(M \ {h})  BY <4>1, <4>2, FS_Subset
      <4>4. Cardinality(M) \in Nat /\ Cardinality(M) <= d
        BY <1>1, <1>2, <3>3, MatchingTyped, DepthTyped
      <4>5. QED  BY <1>4, <3>1, <4>2, <4>3, <4>4
    <3>4. CASE asked.filter.by = "role"
      <4>1. Before(h, M) \in SUBSET M  BY DEF Before
      <4>2. IsFiniteSet(Before(h, M))  BY <1>1, <4>1, FS_Subset
      <4>3. Cardinality(top) <= Cardinality(Before(h, M))  BY <3>1, <4>2, FS_Subset
      <4>4. Cardinality(Before(h, M)) \in Nat  BY <4>2, FS_CardinalityType
      <4>5. d = asked.filter.depth  BY <1>2, <3>4, DepthTyped
      <4>6. Cardinality(Before(h, M)) >= d  BY <1>4, <3>1, <4>3, <4>4
      <4>7. QED  BY <3>4, <4>5, <4>6
    <3>5. CASE asked.filter.by = "none"
      <4>1. d = limit  BY <1>2, <1>3, <3>5, DepthTyped
      <4>2. P = DOMAIN q
        <5>1. \A n \in DOMAIN q : Eligible(q[n])  BY <3>5 DEF Eligible
        <5>2. QED  BY <1>7, <5>1
      <4>3. Cardinality(P) = Cardinality(top)
        <5>1. DOMAIN q = 1 .. Cardinality(top)  BY <1>6
        <5>2. Cardinality(1 .. Cardinality(top)) = Cardinality(top)  BY <1>4, FS_Interval
        <5>3. QED  BY <4>2, <5>1, <5>2
      <4>4. Len(found) = limit  BY <1>4, <1>9, <1>10, <1>13, <3>1, <4>1, <4>3
      <4>5. QED  BY <3>2, <4>4
    <3>6. QED  BY <3>3, <3>4, <3>5, DepthTyped
  <2>3. QED  BY <2>1, <2>2
<1>22. QED  BY <1>1, <1>3, <1>18, <1>19, <1>20, <1>21

\* A search keeps while stores are built, published, altered and inspected.
LEMMA SearchFrame ==
  ASSUME input' = input, searchVars' = searchVars, SearchInv
  PROVE  SearchInv'
<1>1. /\ phase' = phase /\ asked' = asked /\ unscanned' = unscanned
      /\ heap' = heap /\ hits' = hits
  BY DEF searchVars
<1>2. GivenInv'  BY AskedFrame, <1>1 DEF SearchInv
<1>3. HeapInv => HeapInv'
  <2>1. /\ Entries(asked.index)' = Entries(asked.index) /\ Depth' = Depth
        /\ \A row : Hit(row)' = Hit(row)
    BY <1>1, AskedFrame
  <2>2. \A h, S : Before(h, S)' = Before(h, S)  BY DEF Before
  <2>3. Scanned' = Scanned  BY <1>1, <2>1 DEF Scanned
  <2>4. QED  BY <1>1, <2>1, <2>2, <2>3 DEF HeapInv
<1>4. AskedInv => AskedInv'  BY <1>1, AskedFrame
<1>5. SearchIsExact'
  <2>1. Matching' = Matching /\ \A h : Eligible(h)' <=> Eligible(h)  BY <1>1, AskedFrame
  <2>2. SearchIsExact  BY DEF SearchInv
  <2>3. QED  BY <1>1, <2>1, <2>2 DEF SearchIsExact
<1>6. QED  BY <1>1, <1>2, <1>3, <1>4, <1>5 DEF SearchInv

\* Also of what is asked next.
LEMMA DepthNext == InputInv' /\ GivenInv' /\ AskedInv' => (Depth \in Nat)'
<1>1. InputInv /\ GivenInv /\ AskedInv => Depth \in Nat  BY DepthTyped
<1>2. QED  BY <1>1, PTL

\* No row of an opened index is scanned yet.
LEMMA BeginSearchKeeps ==
  ASSUME BuildInv, SearchInv, UNCHANGED vars,
         NEW q \in Queries, NEW f \in Filters, NEW n \in Limits, BeginSearch(q, f, n)
  PROVE  SearchInv'
<1>1. /\ input' = input /\ phase = "idle" /\ phase' = "scanning" /\ published # <<>>
      /\ heap' = heap /\ hits' = hits
  BY DEF BeginSearch, Absent, vars
<1>2. PICK p : p = Destination  OBVIOUS
<1>3. asked' = [index |-> p, query |-> q, filter |-> f, limit |-> n] /\ unscanned' = Entries(p)
  BY <1>2 DEF BeginSearch
<1>4. p \in PublicationType /\ PublicationInv(p)
  <2>1. published \in Seq(PublicationType) /\ \A i \in DOMAIN published : PublicationInv(published[i])
    BY DEF BuildInv, PublishedInv
  <2>2. Len(published) \in DOMAIN published  BY <1>1, <2>1
  <2>3. QED  BY <1>2, <2>1, <2>2 DEF Destination
<1>5. q \in Query /\ f \in Filter /\ n \in Nat \ {0} /\ (f.by = "role" => f.depth >= 1)
  BY QueryAssumption, FilterAssumption, LimitAssumption
<1>6. asked' \in AskedType  BY <1>3, <1>4, <1>5 DEF AskedType
<1>7. (asked \in AskedType)'
  <2>1. AskedType' = AskedType  OBVIOUS
  <2>2. QED  BY <1>6, <2>1
<1>8. AskedInv'
  <2>1. asked'.index = p /\ asked'.filter = f  BY <1>3
  <2>2. PublicationInv(p)'  BY <1>1, <1>4, InputFrame
  <2>3. PublicationInv(asked.index)'  BY <2>1, <2>2
  <2>4. QED  BY <1>5, <1>7, <2>1, <2>3 DEF AskedInv
<1>9. GivenInv'  BY <1>1 DEF GivenInv, SearchInv
<1>10. InputInv'  BY <1>1, InputFrame DEF BuildInv
<1>11. heap = {}  BY <1>1 DEF SearchInv
<1>12. HeapInv'
  <2>1. Entries(asked.index)' = Entries(p)  BY <1>3 DEF Entries
  <2>2. Scanned' = {}  BY <1>3, <2>1 DEF Scanned
  <2>3. Depth' \in Nat  BY <1>8, <1>9, <1>10, DepthNext
  <2>4. Cardinality(heap') = 0 /\ heap' = {}  BY <1>1, <1>11, FS_EmptySet
  <2>5. QED  BY <1>3, <2>1, <2>2, <2>3, <2>4 DEF HeapInv
<1>13. SearchIsExact'  BY <1>1 DEF SearchIsExact
<1>14. QED  BY <1>1, <1>8, <1>9, <1>12, <1>13 DEF SearchInv

\* A row is scanned.
LEMMA ScanKeeps ==
  ASSUME BuildInv, SearchInv, UNCHANGED vars, Scan
  PROVE  SearchInv'
<1>1. /\ input' = input /\ phase = "scanning" /\ asked' = asked /\ hits' = hits
  BY DEF Scan, vars
<1>2. InputInv /\ GivenInv /\ AskedInv /\ HeapInv  BY <1>1 DEF SearchInv, BuildInv
<1>3. GivenInv' /\ AskedInv'  BY <1>1, <1>2, AskedFrame
<1>4. PICK row \in unscanned :
        /\ unscanned' = unscanned \ {row}
        /\ \/ phase' = "failed"
           \/ phase' = "scanning" /\ heap' = Offered(row)
  BY <1>1 DEF Scan, Offered
<1>5. SearchIsExact'  BY <1>4 DEF SearchIsExact
<1>6. CASE phase' = "failed"  BY <1>3, <1>5, <1>6 DEF SearchInv
<1>7. CASE phase' = "scanning" /\ heap' = Offered(row)
  <2>1. HeapInv'  BY <1>1, <1>2, <1>4, <1>7, OfferKeeps
  <2>2. QED  BY <1>3, <1>5, <1>7, <2>1 DEF SearchInv
<1>8. QED  BY <1>4, <1>6, <1>7

\* What is returned is exact if the best are ranked and filtered.
LEMMA FoundExact ==
  ASSUME BuildInv, SearchInv, UNCHANGED vars, phase = "scanning", asked' = asked,
         phase' = "found", NEW top, Top(top), hits' = Filtered(Ranked(top))
  PROVE  SearchInv'
<1>1. input' = input  BY DEF vars
<1>2. InputInv /\ GivenInv /\ AskedInv  BY DEF SearchInv, BuildInv
<1>3. GivenInv' /\ Matching' = Matching /\ asked' = asked
      /\ \A h : Eligible(h)' <=> Eligible(h)
  BY <1>1, <1>2, AskedFrame
<1>4. PICK found : found = hits'  OBVIOUS
<1>5. found = Filtered(Ranked(top))  BY <1>4
<1>6. /\ Len(found) <= asked.limit /\ RowsOf(found) \subseteq {h \in Matching : Eligible(h)}
      /\ \A n \in 2 .. Len(found) : HitRanksBefore(found[n - 1], found[n])
      /\ \A h \in Matching \ RowsOf(found) :
           Eligible(h) =>
             \/ Len(found) = asked.limit /\ RowsOf(found) \subseteq Before(h, Matching)
             \/ /\ asked.filter.by = "role"
                /\ Cardinality(Before(h, Matching)) >= asked.filter.depth
  BY <1>2, <1>5, TopIsExact
<1>7. RowsOf(hits)' = RowsOf(found)  BY <1>4 DEF RowsOf
<1>8. SearchIsExact'
  <2>1. \A h, S : Before(h, S)' = Before(h, S)  BY DEF Before
  <2>2. QED  BY <1>3, <1>4, <1>6, <1>7, <2>1 DEF SearchIsExact
<1>9. QED  BY <1>3, <1>8 DEF SearchInv

\* The searches keep to the invariant as long as the stores do.
LEMMA SearchKeeps ==
  ASSUME BuildInv, SearchInv, ServedNext
  PROVE  SearchInv'
<1>1. CASE Next /\ UNCHANGED searchVars
  <2>1. input' = input
    BY <1>1 DEF Next, Start, Create, Prepare, Take, Complete, WriteIdentity, CloseStore, Stat,
      Rename, Sync, Open, Fail, Crash, Alter, BeginInspection, ReadPage, Refuse, Return
  <2>2. QED  BY <1>1, <2>1, SearchFrame
<1>2. CASE SearchNext /\ UNCHANGED vars
  <2>1. CASE \E q \in Queries, f \in Filters, n \in Limits : BeginSearch(q, f, n)
    BY <1>2, <2>1, BeginSearchKeeps
  <2>2. CASE Scan  BY <1>2, <2>2, ScanKeeps
  <2>3. CASE EndScan
    <3>1. /\ phase = "scanning" /\ kind = "vector" /\ unscanned = {} /\ phase' = "found"
          /\ hits' = Filtered(Ranked(heap)) /\ asked' = asked
      BY <2>3 DEF EndScan
    <3>2. InputInv /\ GivenInv /\ AskedInv /\ HeapInv  BY <3>1 DEF SearchInv, BuildInv
    <3>3. Top(heap)  BY <3>1, <3>2, ScannedTop
    <3>4. QED  BY <1>2, <3>1, <3>3, FoundExact
  <2>4. CASE SearchEngine
    <3>1. PICK top : top = {h \in Matching : Cardinality(Before(h, Matching)) < Depth}
      OBVIOUS
    <3>2. phase = "scanning" /\ phase' = "found" /\ asked' = asked /\ heap' = top
      BY <2>4, <3>1 DEF SearchEngine
    <3>3. hits' = Filtered(Ranked(heap')) /\ Filtered(Ranked(heap')) = Filtered(Ranked(top))
      BY <2>4, <3>2 DEF SearchEngine
    <3>4. InputInv /\ GivenInv /\ AskedInv  BY <3>2 DEF SearchInv, BuildInv
    <3>5. Top(top)  BY <3>1, <3>4, CutTop
    <3>6. QED  BY <1>2, <3>2, <3>3, <3>5, FoundExact
  <2>5. QED  BY <1>2, <2>1, <2>2, <2>3, <2>4 DEF SearchNext
<1>3. QED  BY <1>1, <1>2 DEF ServedNext

\* No search returns less than it could: the heap of the vector index, the limit of
\* Bleve and the filters hide no hit that ranks before one that is returned
\* (ExactSearch, Search, filterAllowed).
THEOREM SearchesAreExact == ServedSpec => []SearchIsExact
<1>1. SearchInit => BuildInv /\ SearchInv
  <2>1. SUFFICES ASSUME SearchInit PROVE BuildInv /\ SearchInv  OBVIOUS
  <2>2. BuildInv  BY <2>1, BuildBegins DEF SearchInit
  <2>3. GivenInv  BY <2>1 DEF SearchInit, Init, GivenInv
  <2>4. QED  BY <2>1, <2>2, <2>3 DEF SearchInit, SearchInv, SearchIsExact
<1>2. BuildInv /\ SearchInv /\ [ServedNext]_<<vars, searchVars>> => SearchInv'
  <2>1. ASSUME BuildInv, SearchInv, ServedNext PROVE SearchInv'
    BY <2>1, SearchKeeps
  <2>2. ASSUME BuildInv, SearchInv, UNCHANGED <<vars, searchVars>> PROVE SearchInv'
    BY <2>2, SearchFrame DEF vars
  <2>3. QED  BY <2>1, <2>2
<1>3. SearchInv => SearchIsExact  BY DEF SearchInv
<1>4. QED  BY <1>1, <1>2, <1>3, BuildInvariant, PTL DEF ServedSpec

=============================================================================
