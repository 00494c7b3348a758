--------------------------- MODULE MCStagingKernel ---------------------------
(* A small instance of StagingKernel for TLC: two documents, chunks,       *)
(* representations and vectors, offered singly, paired, duplicated, with   *)
(* an unknown parent, invalid, in an empty batch and in one that exceeds   *)
(* BatchSize.                                                              *)
EXTENDS StagingKernel

CONSTANTS a, b, ghost

MCIds == {a, b, ghost}

MCItem(id, parent, slot) ==
  [id |-> id, parent |-> parent, slot |-> slot, valid |-> TRUE]

Invalid(item) == [item EXCEPT !.valid = FALSE]

MCItems(t) ==
  CASE t = stagingDocuments       -> {MCItem(a, ghost, 0), MCItem(b, ghost, 0)}
    [] t = stagingChunks          -> {MCItem(a, a, 0), MCItem(b, a, 0),
                                      MCItem(b, a, 1), MCItem(b, ghost, 0)}
    [] t = stagingRepresentations -> {MCItem(a, a, 0), MCItem(b, a, 0), MCItem(b, b, 0)}
    [] t = stagingVectors         -> {MCItem(a, a, 0), MCItem(b, b, 0), MCItem(ghost, ghost, 0)}

MCBatches ==
  [t \in Tables |->
     LET good == MCItems(t) IN
     {<<>>} \cup {<<i>> : i \in good} \cup {<<i, j>> : i, j \in good}
       \cup {<<i, Invalid(MCItem(a, a, 0))>> : i \in good}
       \cup {<<i, i, i>> : i \in good}]

=============================================================================
