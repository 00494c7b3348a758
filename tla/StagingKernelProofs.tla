------------------------- MODULE StagingKernelProofs -------------------------
(***************************************************************************)
(* Theorems about StagingKernel for every batch size, every set of batches *)
(* and both kinds of build.                                                *)
(*                                                                         *)
(* The counters, the committed rows and the rows of an open transaction    *)
(* are related by one predicate, WellFormed, which holds of the committed  *)
(* rows of a table with its counter (so a rollback may drop the            *)
(* transaction) and of the committed rows together with the pending ones   *)
(* with the counter the commit will leave (so a commit may adopt them).    *)
(***************************************************************************)
EXTENDS StagingKernel, FiniteSetTheorems, FunctionTheorems, TLAPS

\* n rows with ordinals 0 .. n-1 that satisfy the UNIQUE constraints of table t.
WellFormed(t, S, n) ==
  /\ IsFiniteSet(S) /\ Cardinality(S) = n
  /\ t \in Ordered => {r.ordinal : r \in S} = 0 .. (n - 1)
  /\ \A r, s \in S : r = s \/ ~Conflict(t, r, s)

\* The rows of S have their parents in the relation rel.
Parented(rel, t, S) ==
  \A r \in S :
    /\ t # stagingDocuments => \E p \in rel[t - 1] : p.id = r.parent
    /\ t = stagingVectors => r.parent = r.id

TableInv ==
  \A t \in Tables : WellFormed(t, rows[t], count[t]) /\ Parented(rows, t, rows[t])

TxInv ==
  tx.open =>
    LET t == tx.table  staged == rows[t] \cup tx.pending IN
    /\ phase # stagingSealed /\ t >= phase /\ t <= phase + 1
    /\ t > phase => count[phase] > 0
    /\ tx.next <= Len(tx.batch) + 1
    /\ WellFormed(t, staged, count[t] + tx.next - 1)
    /\ Parented(rows, t, staged)

PhaseInv ==
  phase # stagingSealed =>
    \A t \in Tables : t > phase => rows[t] = {}

PlanInv ==
  /\ plan = NoPlan <=> phase # stagingSealed
  /\ plan # NoPlan =>
       /\ plan.relation = rows
       /\ plan.lexical = LexicalRecords
       /\ plan.vector = VectorRecords
       /\ count[stagingRepresentations] > 0
       /\ HasEmbedding => count[stagingVectors] = count[stagingRepresentations]
  /\ payload # <<>> => plan # NoPlan

IInv ==
  /\ TypeOK
  /\ TableInv
  /\ TxInv
  /\ PhaseInv
  /\ PlanInv
  /\ PayloadsMatchPlan

-----------------------------------------------------------------------------
(* Lemmas about well-formed sets of rows.                                  *)

\* An admissible row with the next ordinal extends a well-formed set of rows.
LEMMA AddRow ==
  ASSUME NEW t \in Tables, NEW S, NEW n \in Nat, NEW row,
         WellFormed(t, S, n), row.ordinal = n,
         \A s \in S : ~Conflict(t, row, s)
  PROVE  WellFormed(t, S \cup {row}, n + 1)
<1>1. row \notin S
  BY DEF Conflict
<1>2. /\ IsFiniteSet(S \cup {row})
      /\ Cardinality(S \cup {row}) = n + 1
  BY <1>1, FS_AddElement DEF WellFormed
<1>3. t \in Ordered => {r.ordinal : r \in S \cup {row}} = 0 .. (n + 1 - 1)
  <2>1. {r.ordinal : r \in S \cup {row}} = {r.ordinal : r \in S} \cup {row.ordinal}
    OBVIOUS
  <2>2. 0 .. (n + 1 - 1) = (0 .. (n - 1)) \cup {n}
    OBVIOUS
  <2>3. QED
    BY <2>1, <2>2 DEF WellFormed
<1>4. ASSUME NEW r \in S \cup {row}, NEW s \in S \cup {row}
      PROVE  r = s \/ ~Conflict(t, r, s)
  BY DEF WellFormed, Conflict
<1>5. QED
  BY <1>2, <1>3, <1>4 DEF WellFormed

\* No rows are well-formed with the counter zero.
LEMMA NoRows == \A t \in Tables : WellFormed(t, {}, 0)
<1>1. IsFiniteSet({}) /\ Cardinality({}) = 0
  BY FS_EmptySet
<1>2. {r.ordinal : r \in {}} = 0 .. (0 - 1)
  OBVIOUS
<1>3. QED
  BY <1>1, <1>2 DEF WellFormed

\* Two finite sets of rows of the same size, the identifiers of one without
\* repetition and among those of the other, have the same identifiers.
LEMMA SameIds ==
  ASSUME NEW V, NEW R, IsFiniteSet(R), Cardinality(V) = Cardinality(R),
         \A v \in V : \E r \in R : r.id = v.id,
         \A v, w \in V : v.id = w.id => v = w
  PROVE  {v.id : v \in V} = {r.id : r \in R}
<1> DEFINE f == [v \in V |-> CHOOSE r \in R : r.id = v.id]
<1>1. \A v \in V : f[v] \in R /\ f[v].id = v.id
  OBVIOUS
<1>2. f \in Injection(V, R)
  <2>1. f \in [V -> R]
    BY <1>1
  <2>2. \A v, w \in V : f[v] = f[w] => v = w
    BY <1>1
  <2>3. QED
    BY <2>1, <2>2, Fun_IsInj
<1>3. f \in Surjection(V, R)
  BY <1>2, FS_Injection
<1>4. \A r \in R : \E v \in V : f[v] = r
  BY <1>3 DEF Surjection
<1>5. QED
  BY <1>1, <1>4, SMTT(30)

-----------------------------------------------------------------------------
(* The inductive invariant.                                                *)

\* The kernel opens with empty tables, zero counters and no plan.
LEMMA InitInv == Init => IInv
<1> SUFFICES ASSUME Init PROVE IInv
  OBVIOUS
<1> USE DEF Init, NoTx
<1>1. TypeOK
  <2>1. tx \in TxType
    BY DEF TxType, Tables, stagingDocuments, stagingVectors
  <2>2. payload \in Seq(Payload)
    OBVIOUS
  <2>3. QED
    BY <2>1, <2>2, SMTT(30) DEF TypeOK, Tables, Relation, stagingDocuments, stagingVectors, stagingSealed
<1>2. TableInv
  BY NoRows DEF TableInv, Parented
<1>3. TxInv /\ PhaseInv
  BY DEF TxInv, PhaseInv
<1>4. PlanInv
  BY DEF PlanInv, stagingDocuments, stagingSealed
<1>5. PayloadsMatchPlan
  BY DEF PayloadsMatchPlan
<1>6. QED
  BY <1>1, <1>2, <1>3, <1>4, <1>5 DEF IInv

\* What the payload queries read are sets of rows.
LEMMA ReadType ==
  ASSUME TypeOK, NEW i \in 1 .. Len(PayloadOrder)
  PROVE  [name |-> PayloadOrder[i], read |-> Read(PayloadOrder[i])] \in Payload
<1>1. PayloadOrder[i] \in PayloadNames
  BY EmbeddingAssumption DEF PayloadOrder, PayloadNames
<1>2. \A t \in Tables : rows[t] \in SUBSET Row
  BY DEF TypeOK, Relation
<1>3. LexicalRecords \in SUBSET Row /\ VectorRecords \in SUBSET Row
  BY <1>2 DEF LexicalRecords, VectorRecords, Tables, stagingDocuments, stagingChunks,
         stagingRepresentations, stagingVectors
<1>4. \A S \in SUBSET Row, T \in SUBSET Row :
        <<S>> \in Seq(SUBSET Row) /\ <<S, T>> \in Seq(SUBSET Row)
  OBVIOUS
<1>5. \A t \in {stagingDocuments, stagingChunks, stagingRepresentations} :
        rows[t] \in SUBSET Row
  BY <1>2 DEF Tables, stagingDocuments, stagingChunks, stagingRepresentations, stagingVectors
<1>6. ASSUME NEW name \in PayloadNames
      PROVE  Read(name) \in Seq(SUBSET Row)
  BY <1>3, <1>4, <1>5 DEF Read, PayloadNames
<1>7. QED
  BY <1>1, <1>6 DEF Payload

\* A step that leaves the tables, the phase, the plan and the payloads alone
\* leaves everything said about them alone.
LEMMA FrameInv ==
  ASSUME IInv, UNCHANGED <<phase, count, rows, plan, payload>>
  PROVE  TableInv' /\ PhaseInv' /\ PlanInv' /\ PayloadsMatchPlan'
<1>1. TableInv'
  BY DEF IInv, TableInv
<1>2. PhaseInv'
  BY DEF IInv, PhaseInv
<1>3. PlanInv'
  BY DEF IInv, PlanInv, LexicalRecords, VectorRecords
<1>4. PayloadsMatchPlan'
  BY DEF IInv, PayloadsMatchPlan
<1>5. QED
  BY <1>1, <1>2, <1>3, <1>4

\* Accepting a batch opens a transaction without rows for the current table or
\* the next one.
LEMMA BeginInv ==
  ASSUME IInv, NEW t \in Tables, NEW batch \in Batches[t], BeginBatch(t, batch)
  PROVE  IInv'
<1>1. batch \in Seq(Item)
  BY BatchesAssumption
<1>2. TypeOK'
  BY <1>1 DEF IInv, TypeOK, TxType, BeginBatch
<1>3. TableInv' /\ PhaseInv' /\ PlanInv' /\ PayloadsMatchPlan'
  BY FrameInv DEF BeginBatch
<1>4. TxInv'
  <2>1. /\ tx'.table = t /\ tx'.batch = batch /\ tx'.next = 1 /\ tx'.pending = {}
        /\ rows' = rows /\ count' = count /\ phase' = phase
    BY DEF BeginBatch
  <2>2. rows[t] \cup tx'.pending = rows[t] /\ count[t] + tx'.next - 1 = count[t]
    BY <2>1 DEF IInv, TypeOK
  <2>3. WellFormed(t, rows[t], count[t]) /\ Parented(rows, t, rows[t])
    BY DEF IInv, TableInv
  <2>4. RequireBatch(t, Len(batch)) /\ Len(batch) \in Nat
    BY <1>1 DEF BeginBatch
  <2>5. QED
    BY <2>1, <2>2, <2>3, <2>4 DEF TxInv, RequireBatch
<1>5. QED
  BY <1>2, <1>3, <1>4 DEF IInv

\* Inserting an admissible item extends the rows of the open transaction.
LEMMA InsertInv ==
  ASSUME IInv, InsertRow
  PROVE  IInv'
<1> DEFINE t == tx.table
           item == tx.batch[tx.next]
           row == NextRow(t, item)
           staged == rows[t] \cup tx.pending
<1>1. /\ tx.open /\ tx.next <= Len(tx.batch)
      /\ Admissible(t, item, row, staged)
      /\ UNCHANGED <<phase, count, rows, cancelled, plan, payload, closed>>
  BY DEF InsertRow
<1>2. tx' = [tx EXCEPT !.next = tx.next + 1, !.pending = tx.pending \cup {row}]
  BY DEF InsertRow
<1>3. /\ tx \in TxType /\ t \in Tables /\ count[t] \in Nat /\ item \in Item
      /\ tx.next \in Nat \ {0} /\ tx.pending \in SUBSET Row /\ tx.batch \in Seq(Item)
  BY <1>1 DEF IInv, TypeOK, TxType
<1>4. row \in Row /\ row.ordinal = count[t] + tx.next - 1
          /\ row.parent = item.parent /\ row.id = item.id
  BY <1>3 DEF NextRow, Row, Item
<1> HIDE DEF t, item, row, staged
<1>5. /\ tx'.open = tx.open /\ tx'.table = t /\ tx'.batch = tx.batch
      /\ tx'.next = tx.next + 1 /\ tx'.pending = tx.pending \cup {row}
      /\ tx' \in TxType
  <2> DEFINE pending == tx.pending \cup {row}
             next == tx.next + 1
  <2>1. pending \in SUBSET Row /\ next \in Nat \ {0}
    BY <1>3, <1>4
  <2>2. tx' = [tx EXCEPT !.next = next, !.pending = pending]
    BY <1>2
  <2> HIDE DEF pending, next
  <2>3. tx' \in TxType
    BY <1>3, <2>1, <2>2 DEF TxType
  <2>4. /\ tx'.open = tx.open /\ tx'.table = tx.table /\ tx'.batch = tx.batch
        /\ tx'.next = next /\ tx'.pending = pending
    BY <1>3, <2>2 DEF TxType
  <2>5. QED
    BY <2>3, <2>4 DEF pending, next, t
<1>6. TypeOK'
  BY <1>1, <1>5 DEF IInv, TypeOK
<1>7. TableInv' /\ PhaseInv' /\ PlanInv' /\ PayloadsMatchPlan'
  BY <1>1, FrameInv
<1>8. TxInv'
  <2>1. /\ WellFormed(t, staged, count[t] + tx.next - 1) /\ Parented(rows, t, staged)
        /\ phase # stagingSealed /\ t >= phase /\ t <= phase + 1
        /\ t > phase => count[phase] > 0
    BY <1>1 DEF IInv, TxInv, t, staged
  <2>2. \A s \in staged : ~Conflict(t, row, s)
    BY <1>1 DEF Admissible
  <2>3. WellFormed(t, staged \cup {row}, count[t] + tx.next - 1 + 1)
    BY <1>3, <1>4, <2>1, <2>2, AddRow
  <2>4. Parented(rows, t, staged \cup {row})
    BY <1>1, <1>4, <2>1 DEF Parented, Admissible, ParentStaged
  <2>5. rows'[t] \cup tx'.pending = staged \cup {row}
    BY <1>1, <1>5 DEF staged
  <2>6. count'[t] + tx'.next - 1 = count[t] + tx.next - 1 + 1
    BY <1>1, <1>3, <1>5
  <2>7. tx'.next <= Len(tx'.batch) + 1
    BY <1>1, <1>3, <1>5
  <2>8. QED
    BY <1>1, <1>5, <2>1, <2>3, <2>4, <2>5, <2>6, <2>7 DEF TxInv
<1>9. QED
  BY <1>6, <1>7, <1>8 DEF IInv

\* Dropping the transaction keeps what the counters say of the committed rows.
LEMMA RollbackInv ==
  ASSUME IInv, RollbackBatch
  PROVE  IInv'
<1>1. tx' = NoTx /\ UNCHANGED <<phase, count, rows, cancelled, plan, payload, closed>>
  BY DEF RollbackBatch
<1>2. NoTx \in TxType
  BY DEF NoTx, TxType, Tables, stagingDocuments, stagingVectors
<1>3. TypeOK'
  BY <1>1, <1>2 DEF IInv, TypeOK
<1>4. TableInv' /\ PhaseInv' /\ PlanInv' /\ PayloadsMatchPlan'
  BY <1>1, FrameInv
<1>5. TxInv'
  BY <1>1 DEF TxInv, NoTx
<1>6. QED
  BY <1>3, <1>4, <1>5 DEF IInv

\* The commit adopts the rows, the counter and the phase the transaction prepared.
LEMMA CommitInv ==
  ASSUME IInv, CommitBatch
  PROVE  IInv'
<1> DEFINE t == tx.table
           staged == rows[t] \cup tx.pending
           total == count[t] + Len(tx.batch)
<1>1. /\ tx \in TxType /\ t \in Tables /\ count \in [Tables -> Nat] /\ rows \in Relation
      /\ tx.next \in Nat \ {0} /\ tx.pending \in SUBSET Row /\ Len(tx.batch) \in Nat
  BY DEF IInv, TypeOK, TxType
<1>2. /\ tx.open /\ tx.next > Len(tx.batch) /\ tx' = NoTx
      /\ UNCHANGED <<cancelled, plan, payload, closed>>
  BY DEF CommitBatch
<1>3. rows' = [rows EXCEPT ![t] = staged] /\ count' = [count EXCEPT ![t] = total]
  BY DEF CommitBatch
<1>4. /\ phase # stagingSealed /\ t >= phase /\ t <= phase + 1
      /\ tx.next <= Len(tx.batch) + 1
      /\ WellFormed(t, staged, count[t] + tx.next - 1)
      /\ Parented(rows, t, staged)
  BY <1>2 DEF IInv, TxInv
<1>5. phase' = t
  BY <1>1, <1>4 DEF CommitBatch, IInv, TypeOK, Tables, stagingDocuments, stagingVectors,
         stagingSealed
<1>6. /\ staged \in SUBSET Row /\ total \in Nat /\ total = count[t] + tx.next - 1
      /\ rows[t] \in SUBSET Row /\ rows[t] \subseteq staged
  BY <1>1, <1>2, <1>4 DEF Relation
<1> HIDE DEF t, staged, total
<1>7. /\ rows'[t] = staged /\ count'[t] = total
      /\ \A u \in Tables \ {t} : rows'[u] = rows[u] /\ count'[u] = count[u]
      /\ rows' \in Relation /\ count' \in [Tables -> Nat]
  BY <1>1, <1>3, <1>6 DEF Relation
<1>8. TypeOK'
  <2>1. NoTx \in TxType
    BY DEF NoTx, TxType, Tables, stagingDocuments, stagingVectors
  <2>2. phase' \in stagingDocuments .. stagingSealed
    BY <1>1, <1>5 DEF Tables, stagingDocuments, stagingVectors, stagingSealed
  <2>3. QED
    BY <1>2, <1>7, <2>1, <2>2 DEF IInv, TypeOK
<1>9. plan = NoPlan /\ payload = <<>>
  BY <1>4 DEF IInv, PlanInv
<1>10. TableInv'
  <2>1. \A u \in Tables : rows[u] \subseteq rows'[u]
    BY <1>6, <1>7
  <2>2. ASSUME NEW u \in Tables, NEW S, Parented(rows, u, S)
        PROVE  Parented(rows', u, S)
    <3>1. u # stagingDocuments => u - 1 \in Tables
      BY DEF Tables, stagingDocuments, stagingVectors
    <3>2. QED
      BY <2>1, <2>2, <3>1 DEF Parented
  <2>3. ASSUME NEW u \in Tables
        PROVE  WellFormed(u, rows'[u], count'[u]) /\ Parented(rows', u, rows'[u])
    <3>1. CASE u = t
      BY <1>4, <1>6, <1>7, <2>2, <3>1
    <3>2. CASE u # t
      <4>1. WellFormed(u, rows[u], count[u]) /\ Parented(rows, u, rows[u])
        BY DEF IInv, TableInv
      <4>2. QED
        BY <1>7, <2>2, <3>2, <4>1
    <3>3. QED
      BY <3>1, <3>2
  <2>4. QED
    BY <2>3 DEF TableInv
<1>11. TxInv'
  BY <1>2 DEF TxInv, NoTx
<1>12. PhaseInv'
  <2>1. ASSUME NEW u \in Tables, u > t
        PROVE  rows[u] = {}
    <3>1. u > phase
      BY <1>1, <1>4, <2>1, SMTT(30) DEF IInv, TypeOK, Tables, stagingDocuments, stagingVectors,
             stagingSealed
    <3>2. QED
      BY <1>4, <3>1 DEF IInv, PhaseInv
  <2>2. \A u \in Tables : u > t => u # t
    BY <1>1 DEF Tables, stagingDocuments, stagingVectors
  <2>3. QED
    BY <1>5, <1>7, <2>1, <2>2 DEF PhaseInv
<1>13. PlanInv'
  <2>1. phase' # stagingSealed
    BY <1>1, <1>5 DEF Tables, stagingDocuments, stagingVectors, stagingSealed
  <2>2. QED
    BY <1>2, <1>9, <2>1 DEF PlanInv
<1>14. PayloadsMatchPlan'
  BY <1>2, <1>9 DEF PayloadsMatchPlan
<1>15. QED
  BY <1>8, <1>10, <1>11, <1>12, <1>13, <1>14 DEF IInv

\* Cancelling the context and closing the kernel touch no table and no plan.
LEMMA CancelCloseInv ==
  ASSUME IInv, Cancel \/ Close
  PROVE  IInv'
<1>1. /\ UNCHANGED <<phase, count, rows, tx, plan, payload>>
      /\ cancelled' \in BOOLEAN /\ closed' \in BOOLEAN
  BY DEF Cancel, Close, IInv, TypeOK
<1>2. TypeOK'
  BY <1>1 DEF IInv, TypeOK
<1>3. TableInv' /\ PhaseInv' /\ PlanInv' /\ PayloadsMatchPlan'
  BY <1>1, FrameInv
<1>4. TxInv'
  BY <1>1 DEF IInv, TxInv
<1>5. QED
  BY <1>2, <1>3, <1>4 DEF IInv

\* The joins select rows of the tables.
LEMMA JoinsInRelation ==
  ASSUME TypeOK
  PROVE  LexicalRecords \in SUBSET Row /\ VectorRecords \in SUBSET Row
BY DEF TypeOK, Relation, LexicalRecords, VectorRecords, Tables, stagingDocuments,
   stagingChunks, stagingRepresentations, stagingVectors

\* Sealing plans exactly the committed relation.
LEMMA SealInv ==
  ASSUME IInv, Seal
  PROVE  IInv'
<1>1. /\ ~tx.open /\ plan = NoPlan /\ Sealable
      /\ plan' = [counts |-> count, relation |-> rows,
                  lexical |-> LexicalRecords, vector |-> VectorRecords]
      /\ phase' = stagingSealed
      /\ UNCHANGED <<count, rows, tx, cancelled, payload, closed>>
  BY DEF Seal
<1>2. plan' \in Plan
  <2>1. count \in [Tables -> Nat] /\ rows \in Relation
    BY DEF IInv, TypeOK
  <2>2. LexicalRecords \in SUBSET Row /\ VectorRecords \in SUBSET Row
    BY JoinsInRelation DEF IInv
  <2>3. QED
    BY <1>1, <2>1, <2>2 DEF Plan
<1>3. plan' # NoPlan
  BY <1>2, NoPlanAssumption
<1>4. TypeOK'
  BY <1>1, <1>2 DEF IInv, TypeOK, stagingDocuments, stagingSealed
<1>5. TableInv'
  BY <1>1 DEF IInv, TableInv
<1>6. TxInv'
  BY <1>1 DEF TxInv
<1>7. PhaseInv'
  BY <1>1 DEF PhaseInv
<1>8. PlanInv'
  <2>1. count[stagingRepresentations] > 0
    BY <1>1 DEF Sealable, Ordered, stagingDocuments, stagingRepresentations
  <2>2. HasEmbedding => count[stagingVectors] = count[stagingRepresentations]
    BY <1>1 DEF Sealable
  <2>3. LexicalRecords' = LexicalRecords /\ VectorRecords' = VectorRecords
    BY <1>1 DEF LexicalRecords, VectorRecords
  <2>4. QED
    BY <1>1, <1>3, <2>1, <2>2, <2>3 DEF PlanInv
<1>9. PayloadsMatchPlan'
  <2>1. payload = <<>>
    BY <1>1 DEF IInv, PlanInv
  <2>2. QED
    BY <1>1, <2>1 DEF PayloadsMatchPlan
<1>10. QED
  BY <1>4, <1>5, <1>6, <1>7, <1>8, <1>9 DEF IInv

\* A payload reads the relation that was planned.
LEMMA WriteInv ==
  ASSUME IInv, WritePayload
  PROVE  IInv'
<1> DEFINE name == PayloadOrder[Len(payload) + 1]
           entry == [name |-> name, read |-> Read(name)]
<1>1. /\ phase = stagingSealed /\ Len(payload) < Len(PayloadOrder)
      /\ payload' = Append(payload, entry)
      /\ UNCHANGED <<phase, count, rows, tx, cancelled, plan, closed>>
  BY DEF WritePayload
<1>2. TypeOK /\ payload \in Seq(Payload)
  BY DEF IInv, TypeOK
<1>3. Len(PayloadOrder) \in Nat
  BY DEF PayloadOrder
<1>4. Len(payload) + 1 \in 1 .. Len(PayloadOrder)
  BY <1>1, <1>2, <1>3
<1>5. entry \in Payload
  BY <1>2, <1>4, ReadType
<1>6. plan # NoPlan
  BY <1>1 DEF IInv, PlanInv
<1>7. /\ plan.relation = rows /\ plan.lexical = LexicalRecords
      /\ plan.vector = VectorRecords
  BY <1>6 DEF IInv, PlanInv
<1>8. /\ entry.name = "chunks" => entry.read = <<plan.relation[stagingChunks]>>
      /\ entry.name = "representations" =>
           entry.read = <<plan.relation[stagingRepresentations]>>
      /\ entry.name = "content" =>
           entry.read = <<plan.relation[stagingDocuments], plan.relation[stagingChunks]>>
      /\ entry.name = "lexical" => entry.read = <<plan.lexical>>
      /\ entry.name = "vectors" => entry.read = <<plan.vector>>
  <2> DEFINE n == name
  <2>1. entry.name = n /\ entry.read = Read(n)
    OBVIOUS
  <2> HIDE DEF n, entry
  <2>2. QED
    BY <1>7, <2>1 DEF Read
<1> HIDE DEF entry
<1>9. TypeOK'
  BY <1>1, <1>2, <1>5 DEF TypeOK
<1>10. TableInv' /\ PhaseInv'
  BY <1>1 DEF IInv, TableInv, PhaseInv
<1>11. TxInv'
  BY <1>1 DEF IInv, TxInv
<1>12. PlanInv'
  <2>1. LexicalRecords' = LexicalRecords /\ VectorRecords' = VectorRecords
    BY <1>1 DEF LexicalRecords, VectorRecords
  <2>2. QED
    BY <1>1, <1>6, <2>1 DEF IInv, PlanInv
<1>13. PayloadsMatchPlan'
  <2>1. /\ Len(payload') = Len(payload) + 1 /\ payload'[Len(payload) + 1] = entry
        /\ \A i \in 1 .. Len(payload) : payload'[i] = payload[i]
        /\ Len(payload) \in Nat
    BY <1>1, <1>2, <1>5
  <2>2. \A i \in 1 .. Len(payload') : i \in 1 .. Len(payload) \/ i = Len(payload) + 1
    BY <2>1
  <2>3. QED
    BY <1>1, <1>8, <2>1, <2>2 DEF IInv, PayloadsMatchPlan
<1>14. QED
  BY <1>9, <1>10, <1>11, <1>12, <1>13 DEF IInv

\* Every step of the kernel, its callers and BuildStream keeps the invariant.
LEMMA NextInv == IInv /\ [Next]_vars => IInv'
<1> SUFFICES ASSUME IInv, [Next]_vars PROVE IInv'
  OBVIOUS
<1>1. /\ stagingDocuments \in Tables /\ stagingChunks \in Tables
      /\ stagingRepresentations \in Tables /\ stagingVectors \in Tables
  BY DEF Tables, stagingDocuments, stagingChunks, stagingRepresentations, stagingVectors
<1>2. ASSUME NEW b \in Batches[stagingDocuments], AddDocuments(b) PROVE IInv'
  BY <1>1, <1>2, BeginInv DEF AddDocuments
<1>3. ASSUME NEW b \in Batches[stagingChunks], AddChunks(b) PROVE IInv'
  BY <1>1, <1>3, BeginInv DEF AddChunks
<1>4. ASSUME NEW b \in Batches[stagingRepresentations], AddRepresentations(b) PROVE IInv'
  BY <1>1, <1>4, BeginInv DEF AddRepresentations
<1>5. ASSUME NEW b \in Batches[stagingVectors], AddVectors(b) PROVE IInv'
  BY <1>1, <1>5, BeginInv DEF AddVectors
<1>6. CASE InsertRow
  BY <1>6, InsertInv
<1>7. CASE RollbackBatch
  BY <1>7, RollbackInv
<1>8. CASE CommitBatch
  BY <1>8, CommitInv
<1>9. CASE Cancel \/ Close
  BY <1>9, CancelCloseInv
<1>10. CASE Seal
  BY <1>10, SealInv
<1>11. CASE WritePayload
  BY <1>11, WriteInv
<1>12. CASE UNCHANGED vars
  <2>1. TableInv' /\ PhaseInv' /\ PlanInv' /\ PayloadsMatchPlan'
    BY <1>12, FrameInv DEF vars
  <2>2. TypeOK' /\ TxInv'
    BY <1>12 DEF vars, IInv, TypeOK, TxInv
  <2>3. QED
    BY <2>1, <2>2 DEF IInv
<1>13. QED
  BY <1>2, <1>3, <1>4, <1>5, <1>6, <1>7, <1>8, <1>9, <1>10, <1>11, <1>12 DEF Next

\* The inductive invariant holds in every reachable state.
THEOREM Invariance == Spec => []IInv
BY InitInv, NextInv, PTL DEF Spec

-----------------------------------------------------------------------------
(* What the invariant says of the properties of StagingKernel.             *)

\* The state of the kernel is well typed for every batch size and producer.
THEOREM TypeCorrect == Spec => []TypeOK
<1>1. IInv => TypeOK
  BY DEF IInv
<1>2. QED
  BY <1>1, Invariance, PTL

\* However batches fail or are interrupted, the kernel's counters equal the
\* numbers of committed rows.
THEOREM CountersExact == Spec => []CountsMatchRows
<1>1. IInv => CountsMatchRows
  BY DEF IInv, TableInv, WellFormed, CountsMatchRows
<1>2. QED
  BY <1>1, Invariance, PTL

\* Rolled back batches leave no gap in the ordinals that order the digests.
THEOREM OrdinalsDense == Spec => []DenseOrdinals
<1>1. IInv => DenseOrdinals
  <2> SUFFICES ASSUME IInv PROVE DenseOrdinals
    OBVIOUS
  <2>1. ASSUME NEW t \in Ordered
        PROVE  /\ {r.ordinal : r \in rows[t]} = 0 .. (count[t] - 1)
               /\ \A r, s \in rows[t] : r.ordinal = s.ordinal => r = s
    <3>1. t \in Tables
      BY DEF Ordered, Tables, stagingDocuments, stagingRepresentations, stagingVectors
    <3>2. WellFormed(t, rows[t], count[t])
      BY <3>1 DEF IInv, TableInv
    <3>3. QED
      BY <3>2 DEF WellFormed, Conflict
  <2>2. QED
    BY <2>1 DEF DenseOrdinals
<1>2. QED
  BY <1>1, Invariance, PTL

\* Every stored row has its parent, and no uniqueness constraint is broken.
THEOREM LineageHolds == Spec => []Lineage
<1>1. IInv => Lineage
  BY DEF IInv, TableInv, WellFormed, Parented, Lineage
<1>2. QED
  BY <1>1, Invariance, PTL

\* The comparison of two counters in seal is enough: with foreign keys and
\* primary keys it makes the vectors exactly those of the representations.
THEOREM SealComplete == Spec => []SealedRelationComplete
<1>1. IInv => SealedRelationComplete
  <2> SUFFICES ASSUME IInv, plan # NoPlan
               PROVE  LET reps == plan.relation[stagingRepresentations] IN
                      /\ reps # {}
                      /\ plan.lexical = reps
                      /\ HasEmbedding =>
                           {v.id : v \in plan.vector} = {r.id : r \in reps}
    BY DEF SealedRelationComplete
  <2> DEFINE docs == rows[stagingDocuments]
             chunks == rows[stagingChunks]
             reps == rows[stagingRepresentations]
             vecs == rows[stagingVectors]
  <2>1. /\ plan.relation = rows /\ plan.lexical = LexicalRecords
        /\ plan.vector = VectorRecords
        /\ count[stagingRepresentations] > 0
        /\ HasEmbedding => count[stagingVectors] = count[stagingRepresentations]
    BY DEF IInv, PlanInv
  <2>2. \A t \in Tables : WellFormed(t, rows[t], count[t]) /\ Parented(rows, t, rows[t])
    BY DEF IInv, TableInv
  <2>3. /\ IsFiniteSet(reps) /\ Cardinality(reps) = count[stagingRepresentations]
        /\ Cardinality(vecs) = count[stagingVectors]
        /\ \A v, w \in vecs : v.id = w.id => v = w
    BY <2>2 DEF WellFormed, Conflict, Tables, stagingDocuments, stagingRepresentations,
           stagingVectors
  <2>4. /\ \A c \in chunks : \E d \in docs : d.id = c.parent
        /\ \A r \in reps : \E c \in chunks : c.id = r.parent
        /\ \A v \in vecs : v.parent = v.id /\ \E r \in reps : r.id = v.parent
    BY <2>2 DEF Parented, Tables, stagingDocuments, stagingChunks, stagingRepresentations,
           stagingVectors
  <2>5. LexicalRecords = reps
    BY <2>4 DEF LexicalRecords
  <2>6. VectorRecords = vecs
    BY <2>4 DEF VectorRecords
  <2>7. reps # {}
    BY <2>1, <2>3, FS_EmptySet
  <2>8. ASSUME HasEmbedding
        PROVE  {v.id : v \in vecs} = {r.id : r \in reps}
    <3>1. Cardinality(vecs) = Cardinality(reps)
      BY <2>1, <2>3, <2>8
    <3>2. \A v \in vecs : \E r \in reps : r.id = v.id
      BY <2>4
    <3> HIDE DEF vecs, reps
    <3>3. QED
      BY <2>3, <3>1, <3>2, SameIds
  <2>9. QED
    BY <2>1, <2>5, <2>6, <2>7, <2>8
<1>2. QED
  BY <1>1, Invariance, PTL

\* Whatever the caller does between the payloads, they hold what was digested.
THEOREM PayloadsPlanned == Spec => []PayloadsMatchPlan
<1>1. IInv => PayloadsMatchPlan
  BY DEF IInv
<1>2. QED
  BY <1>1, Invariance, PTL

\* A table changes only while the later ones are empty and the relation is not
\* sealed.
THEOREM TablesFreeze == Spec => EarlierTablesFrozen
<1> DEFINE Frozen ==
             \A t \in Tables :
               rows'[t] # rows[t] =>
                 /\ phase # stagingSealed
                 /\ \A u \in Tables : u > t => rows[u] = {} /\ rows'[u] = {}
<1>1. IInv /\ [Next]_vars => [Frozen]_vars
  <2> SUFFICES ASSUME IInv, Next
               PROVE  Frozen
    OBVIOUS
  <2>1. CASE CommitBatch
    <3>1. /\ tx.open /\ rows' = [rows EXCEPT ![tx.table] = @ \cup tx.pending]
          /\ rows \in Relation /\ tx.table \in Tables
      BY <2>1 DEF CommitBatch, IInv, TypeOK, TxType
    <3>2. phase # stagingSealed /\ tx.table >= phase /\ phase \in Int
      BY <3>1 DEF IInv, TypeOK, TxInv, stagingDocuments, stagingSealed
    <3>3. \A u \in Tables : u > tx.table => rows[u] = {} /\ u # tx.table
      BY <3>1, <3>2 DEF IInv, PhaseInv, Tables, stagingDocuments, stagingVectors
    <3>4. \A u \in Tables : u # tx.table => rows'[u] = rows[u]
      BY <3>1 DEF Relation
    <3>5. QED
      BY <3>2, <3>3, <3>4
  <2>2. CASE ~CommitBatch
    <3>1. rows' = rows
      BY <2>2 DEF Next, AddDocuments, AddChunks, AddRepresentations, AddVectors,
             BeginBatch, InsertRow, RollbackBatch, Cancel, Seal, WritePayload, Close
    <3>2. QED
      BY <3>1
  <2>3. QED
    BY <2>1, <2>2
<1>2. QED
  BY <1>1, Invariance, PTL DEF Spec, EarlierTablesFrozen

=============================================================================
