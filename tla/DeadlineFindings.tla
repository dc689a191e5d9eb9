--------------------------- MODULE DeadlineFindings ---------------------------
(***************************************************************************)
(* The other tracker of the obligations' deadlines: the daily check        *)
(* (check_obligation_deadlines in worker.py) raises a finding for what is  *)
(* due soon and one for what is overdue, and analysts triage, close and    *)
(* escalate them into cases (api/findings.py, the linking of findings in   *)
(* api/cases.py), next to the calendar of ComplianceCalendar.tla, which    *)
(* this module extends.  The two trackers share the obligations and the    *)
(* officers, and no row.                                                   *)
(***************************************************************************)
EXTENDS ComplianceCalendar

CONSTANTS
  Cases,  \* primary keys of cases
  Opened, \* the cases that were opened by hand before
  Soon    \* days ahead that the check calls due soon

ASSUME FindingsAssumption == Soon \in Nat /\ Opened \subseteq Cases

VARIABLES
  findings,    \* status of the finding with each fingerprint
  check,       \* what the daily check has looked up, << >> when it does not run
  cases,       \* the cases that exist
  created,     \* history: the case that an escalation created, with its finding
  links,       \* the rows of case_findings
  overlapped   \* history: findings of which two escalations were under way at once

findingVars == <<findings, check, cases, created, links, overlapped>>
vars == <<calendarVars, findingVars>>

Breaches == Obligations \X {"soon", "overdue"}

FindingStatuses == {"none", "new", "triaged", "escalated", "closed"}

FindingRequests ==
  [kind : {"triage"}, finding : Breaches, seen : FindingStatuses,
   new : FindingStatuses \ {"none"}]
  \cup [kind : {"close"}, finding : Breaches, seen : FindingStatuses]
  \cup [kind : {"escalate"}, finding : Breaches, seen : FindingStatuses, case : Cases]
  \cup [kind : {"link"}, case : Cases, add : SUBSET Breaches]

DeskTypeOK == desk \in [Clerks -> {Idle} \cup EventRequests \cup FindingRequests]

TypeOK ==
  /\ CalendarTypeOK
  /\ DeskTypeOK
  /\ findings \in [Breaches -> FindingStatuses]
  /\ DOMAIN check \subseteq Breaches /\ check \in [DOMAIN check -> FindingStatuses]
  /\ cases \subseteq Cases
  /\ links \subseteq cases \X Breaches /\ created \subseteq cases \X Breaches
  /\ overlapped \subseteq Breaches

Init ==
  /\ CalendarInit
  /\ findings = [f \in Breaches |-> "none"]
  /\ check = << >>
  /\ cases = Opened
  /\ created = {} /\ links = {}
  /\ overlapped = {}

-----------------------------------------------------------------------------
(* The daily check *)

\* effective_date < now, and effective_date < now + 7 days; on the day itself the check runs
\* before the hour of the deadline.
Overdue(o) == o \in live /\ dates[o] < today

DueSoon(o) == o \in live /\ today <= dates[o] /\ dates[o] < today + Soon

Alerted ==
  {<<o, "overdue">> : o \in {x \in Obligations : Overdue(x)}}
  \cup {<<o, "soon">> : o \in {x \in Obligations : DueSoon(x)}}

CheckStarts ==
  /\ check = << >>
  /\ Alerted # {}
  /\ check' = [f \in Alerted |-> findings[f]]
  /\ UNCHANGED <<calendarVars, findings, cases, created, links, overlapped>>

RaisedOnceMutant(f) == IF check[f] = "none" THEN "new" ELSE findings[f]

RaisedAnewMutant(f) == "new"

\* create_or_update_finding of one active tenant: inserted, reopened when it was closed, and otherwise left in
\* the status it has by now.
Raised(f) == IF check[f] \in {"none", "closed"} THEN "new" ELSE findings[f]

CheckEnds ==
  /\ check # << >>
  /\ findings' = [f \in Breaches |-> IF f \in DOMAIN check THEN Raised(f) ELSE findings[f]]
  /\ check' = << >>
  /\ UNCHANGED <<calendarVars, cases, created, links, overlapped>>

\* Whatever fails while the findings are created is swallowed, with all of them; the task
\* goes on to the e-mail and succeeds.
CheckLost ==
  /\ check # << >>
  /\ Spend("crashes")
  /\ check' = << >>
  /\ UNCHANGED <<today, dates, live, exempt, policyOf, events, scan, round, desk, covered, verdict, raced,
                 findings, cases, created, links, overlapped>>

-----------------------------------------------------------------------------
(* The analysts *)

Asks(c, request) ==
  /\ Takes(c, "findings", request)
  /\ UNCHANGED <<today, dates, live, exempt, policyOf, events, scan, round, covered, verdict, raced,
                 findings, check, cases, created, links>>

\* The finding's column is written when the new status differs from the one loaded.
Decided(f, seen, status) == IF status = seen THEN findings[f] ELSE status

Answered(c) ==
  /\ Done(c)
  /\ UNCHANGED <<today, dates, live, exempt, policyOf, events, scan, round, left, covered, verdict, raced,
                 check, overlapped>>

\* PATCH /findings/{id}: any status, from any status, "escalated" without a case included.
Triage(c, f, status) ==
  /\ findings[f] # "none"
  /\ Asks(c, [kind |-> "triage", finding |-> f, seen |-> findings[f], new |-> status])
  /\ UNCHANGED overlapped

TriageEnds(c) ==
  /\ desk[c].kind = "triage"
  /\ findings' = [findings EXCEPT ![desk[c].finding] =
                    Decided(desk[c].finding, desk[c].seen, desk[c].new)]
  /\ Answered(c)
  /\ UNCHANGED <<cases, created, links>>

\* POST /findings/{id}/close: 409 when it is closed already.
Close(c, f) ==
  /\ findings[f] \notin {"none", "closed"}
  /\ Asks(c, [kind |-> "close", finding |-> f, seen |-> findings[f]])
  /\ UNCHANGED overlapped

CloseEnds(c) ==
  /\ desk[c].kind = "close"
  /\ findings' = [findings EXCEPT ![desk[c].finding] = "closed"]
  /\ Answered(c)
  /\ UNCHANGED <<cases, created, links>>

LinkedMutant(f) == {}

\* The first of these is the answer to a repeated escalation.
Linked(f) == {k \in Cases : <<k, f>> \in links}

\* Each new case gets a key of its own.
Free == {k \in Cases \ cases : \A c \in Clerks : desk[c].kind = "escalate" => desk[c].case # k}

\* POST /findings/{id}/escalate into a case that exists, or into a new one; for a finding
\* that is linked it answers with the case and changes nothing.
Escalate(c, f, k) ==
  /\ findings[f] # "none"
  /\ Linked(f) = {}
  /\ k \in cases \/ k \in Free
  /\ Asks(c, [kind |-> "escalate", finding |-> f, seen |-> findings[f], case |-> k])
  /\ overlapped' =
       IF \E other \in Clerks : desk[other].kind = "escalate" /\ desk[other].finding = f
       THEN overlapped \cup {f} ELSE overlapped

\* The case, the link and the status in one transaction; a link that is there already is a
\* unique violation.
EscalateEnds(c) ==
  LET f == desk[c].finding  k == desk[c].case IN
  /\ desk[c].kind = "escalate"
  /\ <<k, f>> \notin links
  /\ findings' = [findings EXCEPT ![f] = Decided(f, desk[c].seen, "escalated")]
  /\ cases' = cases \cup {k}
  /\ created' = IF k \in cases THEN created ELSE created \cup {<<k, f>>}
  /\ links' = links \cup {<<k, f>>}
  /\ Answered(c)

\* POST /cases/{id}/findings: links that exist are skipped, the status is left alone.
Link(c, k, fs) ==
  /\ k \in cases
  /\ fs # {} /\ \A f \in fs : findings[f] # "none"
  /\ Asks(c, [kind |-> "link", case |-> k, add |-> {f \in fs : k \notin Linked(f)}])
  /\ UNCHANGED overlapped

LinkEnds(c) ==
  /\ desk[c].kind = "link"
  /\ \A f \in desk[c].add : <<desk[c].case, f>> \notin links
  /\ links' = links \cup ({desk[c].case} \X desk[c].add)
  /\ Answered(c)
  /\ UNCHANGED <<findings, cases, created>>

Analysts ==
  \E c \in Clerks :
    \/ \E f \in Breaches :
         \/ \E status \in FindingStatuses \ {"none"} : Triage(c, f, status)
         \/ Close(c, f)
         \/ \E k \in Cases : Escalate(c, f, k)
    \/ \E k \in Cases, fs \in SUBSET Breaches : Link(c, k, fs)
    \/ TriageEnds(c) \/ CloseEnds(c) \/ EscalateEnds(c) \/ LinkEnds(c)

Next ==
  \/ CalendarNext /\ UNCHANGED findingVars
  \/ CheckStarts \/ CheckEnds \/ CheckLost
  \/ Analysts

\* Beat starts the sweep, the reminders and the check once a day, and each ends.  Nothing
\* makes an officer or an analyst take a step.
Fairness ==
  /\ WF_vars(ScanStarts /\ UNCHANGED findingVars)
  /\ WF_vars(ScanEnds /\ UNCHANGED findingVars)
  /\ WF_vars(RoundStarts /\ UNCHANGED findingVars)
  /\ WF_vars(RoundEnds /\ UNCHANGED findingVars)
  /\ WF_vars(CheckStarts)
  /\ WF_vars(CheckEnds)

Spec == Init /\ [][Next]_vars /\ Fairness

-----------------------------------------------------------------------------
(* Correctness *)

\* A finding gets one case of its own, through any number of escalations, closings and
\* reopenings by the check; only escalations under way at the same moment, which all find
\* no link, create one each.
OneCasePerFinding ==
  \A f \in Breaches : \A k, l \in Cases :
    {<<k, f>>, <<l, f>>} \subseteq created => k = l \/ f \in overlapped

\* The check, which writes over a status it loaded some time ago, takes an escalation back
\* only where it had found the finding closed, before the analyst escalated it; an analyst may
\* always take it back by hand.
CheckKeepsEscalation ==
  [][CheckEnds =>
       \A f \in Breaches : findings[f] = "escalated" /\ findings'[f] # "escalated" =>
         check[f] = "closed"]_vars

\* An obligation that stays overdue has an open finding again and again: an analyst who
\* closes it does not silence the deadline, and a check that failed is made good.
BreachIsRaised ==
  \A o \in Obligations :
    Overdue(o) ~> (o \notin live \/ findings[<<o, "overdue">>] \notin {"none", "closed"})
=============================================================================
