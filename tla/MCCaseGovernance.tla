-------------------------- MODULE MCCaseGovernance --------------------------
(* Instances of CaseGovernance for TLC: request slots are interchangeable.  *)
EXTENDS CaseGovernance, TLC

Symmetry == Permutations(Workers)
=============================================================================
