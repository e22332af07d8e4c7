------------------------- MODULE MCCheckpointStore -------------------------
(***************************************************************************)
(* CheckpointStore on small instances.  Processes, request ids and goals   *)
(* are interchangeable, which the runs without liveness use.               *)
(***************************************************************************)
EXTENDS CheckpointStore

\* Files without receipts, or with one.
MCImported == {<<>>} \cup {<<r>> : r \in Requests}

Symmetry ==
  Permutations(Procs) \cup Permutations(Requests) \cup Permutations(Goals)
=============================================================================
