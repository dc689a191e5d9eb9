---------------------------- MODULE MCObligations ----------------------------
EXTENDS Obligations, TLC

\* Endpoints whose requests meet; each set is a configuration of its own.
MCScenarios ==
  {{"ingestion", "extract", "workflow", "patch", "amendments"},
   {"ingestion", "bulk", "amendments", "workflow"},
   {"ingestion", "policies", "links", "patch"},
   {"policies", "extract", "workflow", "links", "delete"},
   {"policies", "extract", "approve", "patch", "delete"},
   {"generator", "ingestion", "patch", "delete"},
   {"policies", "templates", "review"},
   {"policies", "review", "metadata"}}

WorkerSymmetry == Permutations(Workers)
=============================================================================
