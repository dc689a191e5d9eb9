-------------------------- MODULE MCDeadlineFindings --------------------------
EXTENDS DeadlineFindings

\* The review is due on the first day, the obligation on the second.
MCDates == {[s \in Sources |-> IF s \in Reviews THEN 0 ELSE 1]}

MCLead == [deadline |-> 1, change |-> 0]

\* Two requests about events, and an obligation that may be linked in between; and one next
\* to a scope or a date that moves, or to a task that fails.  The same for findings.
MCBudgets ==
  {[events |-> 2, findings |-> 0, moves |-> 0, links |-> 1, crashes |-> 0],
   [events |-> 1, findings |-> 0, moves |-> 1, links |-> 0, crashes |-> 0],
   [events |-> 1, findings |-> 0, moves |-> 0, links |-> 0, crashes |-> 1],
   [events |-> 0, findings |-> 2, moves |-> 0, links |-> 0, crashes |-> 0],
   [events |-> 0, findings |-> 1, moves |-> 0, links |-> 0, crashes |-> 1],
   [events |-> 0, findings |-> 1, moves |-> 1, links |-> 0, crashes |-> 0]}
=============================================================================
