-------------------------- MODULE MCFailureLedger --------------------------
(* FailureLedger on small instances.  FailureRefs is Refs, or disjoint.    *)
EXTENDS FailureLedger, TLC

Symmetry ==
  Permutations(Operations) \cup Permutations(Refs) \cup Permutations(Classes)
=============================================================================
