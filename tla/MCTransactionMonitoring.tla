----------------------- MODULE MCTransactionMonitoring -----------------------
EXTENDS TransactionMonitoring

MCKinds ==
  {[hit |-> TRUE, large |-> FALSE, scores |-> {TRUE}],
   [hit |-> FALSE, large |-> TRUE, scores |-> {FALSE}]}

\* Two tasks with a failure of their own, or with an analyst or an officer at work; one task
\* with more failures; the office with a scan that may fail; one task with more of the office.
MCBudgets ==
  {[ingests |-> 2, requests |-> 0, dues |-> 0, closes |-> 0, faults |-> 1, crashes |-> 0],
   [ingests |-> 2, requests |-> 0, dues |-> 0, closes |-> 0, faults |-> 0, crashes |-> 1],
   [ingests |-> 2, requests |-> 0, dues |-> 0, closes |-> 1, faults |-> 0, crashes |-> 0],
   [ingests |-> 2, requests |-> 1, dues |-> 0, closes |-> 0, faults |-> 0, crashes |-> 0],
   [ingests |-> 1, requests |-> 0, dues |-> 0, closes |-> 1, faults |-> 2, crashes |-> 1],
   [ingests |-> 0, requests |-> 2, dues |-> 1, closes |-> 1, faults |-> 1, crashes |-> 0],
   [ingests |-> 1, requests |-> 2, dues |-> 1, closes |-> 0, faults |-> 0, crashes |-> 0]}
=============================================================================
