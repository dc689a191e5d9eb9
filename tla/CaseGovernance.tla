--------------------------- MODULE CaseGovernance ---------------------------
(***************************************************************************)
(* The governance of one investigation case: the maker-checker workflow of *)
(* its decisions (services/case_decision_service.py, api/case_decisions.py)*)
(* and every other handler that writes the same rows (api/cases.py,        *)
(* api/dashboard_work_queue.py, api/aml_officer.py, api/reports).          *)
(*                                                                         *)
(* A handler runs in a transaction of its own, with no row lock and no     *)
(* version column, at READ COMMITTED.  It loads ORM objects, checks and    *)
(* assigns their attributes, and at db.commit() SQLAlchemy writes only the *)
(* columns whose value differs from the one loaded.  A request is          *)
(* therefore a record of what it loaded (seen) and of what it made of it   *)
(* (new); MergeDecision and MergeCase are the UPDATE that its commit issues*)
(* against whatever the rows hold by then.                                 *)
(***************************************************************************)
EXTENDS Naturals, Sequences

CONSTANTS
  Workers,       \* request slots: the server threads that run handlers
  Users,         \* user ids; every user may create and submit decisions
  Approvers,     \* the users with one of _APPROVE_ROLES
  Dispositions,  \* CaseDecisionDisposition
  Surfaces,      \* the endpoints in use: "decisions", "case_update" (PATCH), "cases" (the
                 \* other case handlers), "case_items" and "approval_items" (the dashboard),
                 \* "sar"
  MaxDecisions,  \* bound on the number of decisions of the case
  None           \* the null of a nullable column

ASSUME GovernanceAssumption ==
  /\ Approvers \subseteq Users
  /\ None \notin Users
  /\ None \notin Dispositions
  /\ {"no_action", "sar_required"} \subseteq Dispositions
  /\ MaxDecisions \in Nat

VARIABLES
  decisions,  \* the committed case_decisions rows, by primary key
  case,       \* the committed cases row
  records,    \* the immutable DecisionRecord rows written by approvals
  events,     \* the EventRecord rows about decisions: <<type, decision>>
  req         \* per worker: the request it runs, or Idle

vars == <<decisions, case, records, events, req>>

Outcomes == Dispositions \cup {"sar_filed"}
Ids == 1..MaxDecisions

DecisionStatus == {"draft", "submitted", "approved", "rejected"}
CaseStatus == {"open", "in_progress", "decision_pending", "escalated", "closed"}

Decision ==
  [version : Nat, createdBy : Users, disposition : Dispositions,
   status : DecisionStatus, approver : Users \cup {None}]

Case ==
  [status : CaseStatus, outcome : Outcomes \cup {None}, closedAt : BOOLEAN,
   assignedTo : Users \cup {None}, priority : {"low", "medium", "high"}]

EventTypes == {"created", "submitted", "approved", "rejected", "dashboard"}

Record == [decision : Ids, approver : Users, disposition : Dispositions]

Idle == [step |-> "idle"]

\* step "loaded": the decision is loaded and checked, its case is not loaded yet;
\* step "ready": only the commit is left.
Request ==
  [step : {"loaded"}, op : {"submit", "approve", "reject"}, id : Ids,
   seenD : Decision, newD : Decision, records : SUBSET Record,
   events : SUBSET (EventTypes \X Ids)]
  \cup
  [step : {"ready"}, op : {"decision"}, id : Ids,
   seenD : Decision, newD : Decision, seenC : Case, newC : Case,
   records : SUBSET Record, events : SUBSET (EventTypes \X Ids)]
  \cup
  [step : {"ready"}, op : {"case", "dashboard_close"}, seenC : Case, newC : Case]
  \cup
  [step : {"ready"}, op : {"create"}, newD : Decision]

TypeOK ==
  /\ decisions \in Seq(Decision)
  /\ Len(decisions) <= MaxDecisions
  /\ case \in Case
  /\ records \subseteq Record
  /\ events \subseteq EventTypes \X Ids
  /\ req \in [Workers -> Request \cup {Idle}]

Init ==
  /\ decisions = <<>>
  /\ case = [status |-> "open", outcome |-> None, closedAt |-> FALSE,
             assignedTo |-> None, priority |-> "medium"]
  /\ records = {}
  /\ events = {}
  /\ req = [w \in Workers |-> Idle]
-----------------------------------------------------------------------------
(* What a commit writes.                                                   *)

\* A column is in the UPDATE only if the handler changed the value it had loaded.
Column(current, seen, new) == IF new # seen THEN new ELSE current

MergeDecision(current, seen, new) ==
  [current EXCEPT !.status = Column(@, seen.status, new.status),
                  !.approver = Column(@, seen.approver, new.approver)]

MergeCase(current, seen, new) ==
  [status |-> Column(current.status, seen.status, new.status),
   outcome |-> Column(current.outcome, seen.outcome, new.outcome),
   closedAt |-> Column(current.closedAt, seen.closedAt, new.closedAt),
   assignedTo |-> Column(current.assignedTo, seen.assignedTo, new.assignedTo),
   priority |-> Column(current.priority, seen.priority, new.priority)]

MaxVersion ==
  IF decisions = <<>> THEN 0
  ELSE CHOOSE v \in {decisions[i].version : i \in DOMAIN decisions} :
         \A i \in DOMAIN decisions : decisions[i].version <= v

Start(w, request) ==
  /\ req[w] = Idle
  /\ req' = [req EXCEPT ![w] = request]
  /\ UNCHANGED <<decisions, case, records, events>>
-----------------------------------------------------------------------------
(* CaseDecisionService.                                                    *)

\* The draft: its version is one more than the largest one committed.
NewDecision(u, p) ==
  [version |-> MaxVersion + 1, createdBy |-> u, disposition |-> p,
   status |-> "draft", approver |-> None]

CreateDecision(w) ==
  /\ "decisions" \in Surfaces
  /\ \E u \in Users, p \in Dispositions :
       Start(w, [step |-> "ready", op |-> "create", newD |-> NewDecision(u, p)])

\* _get_decision and _assert_transition: the decision as loaded, if it may move on.
InStatus(i, from) == decisions[i].status = from

SubmitDecision(w) ==
  /\ "decisions" \in Surfaces
  /\ \E i \in DOMAIN decisions :
       /\ InStatus(i, "draft")
       /\ Start(w, [step |-> "loaded", op |-> "submit", id |-> i, seenD |-> decisions[i],
                    newD |-> [decisions[i] EXCEPT !.status = "submitted"],
                    records |-> {}, events |-> {<<"submitted", i>>}])

\* The 4-eyes check of approve_decision.
FourEyesCheckMutant(u, i) == TRUE

FourEyesCheck(u, i) == u # decisions[i].createdBy

ApprovalRecordsMutant(u, i) == {}

\* record_decision: the DecisionRecord an approval inserts.
ApprovalRecords(u, i) ==
  {[decision |-> i, approver |-> u, disposition |-> decisions[i].disposition]}

ApproveDecision(w) ==
  /\ "decisions" \in Surfaces
  /\ \E i \in DOMAIN decisions, u \in Approvers :
       /\ InStatus(i, "submitted")
       /\ FourEyesCheck(u, i)
       /\ Start(w, [step |-> "loaded", op |-> "approve", id |-> i, seenD |-> decisions[i],
                    newD |-> [decisions[i] EXCEPT !.status = "approved", !.approver = u],
                    records |-> ApprovalRecords(u, i), events |-> {<<"approved", i>>}])

RejectDecision(w) ==
  /\ "decisions" \in Surfaces
  /\ \E i \in DOMAIN decisions, u \in Approvers :
       /\ InStatus(i, "submitted")
       /\ Start(w, [step |-> "loaded", op |-> "reject", id |-> i, seenD |-> decisions[i],
                    newD |-> [decisions[i] EXCEPT !.status = "rejected", !.approver = u],
                    records |-> {}, events |-> {<<"rejected", i>>}])

\* What each operation makes of decision.case, which it loads lazily.
ApprovedCaseMutant(c, d) == [c EXCEPT !.status = "closed", !.closedAt = TRUE]

ApprovedCase(c, d) ==
  [c EXCEPT !.status = "closed", !.outcome = d.disposition, !.closedAt = TRUE]

RejectedCase(c) ==
  IF c.status = "decision_pending" THEN [c EXCEPT !.status = "in_progress"] ELSE c

SubmittedCase(c) == [c EXCEPT !.status = "decision_pending"]

CaseAfter(op, c, d) ==
  CASE op = "submit"  -> SubmittedCase(c)
    [] op = "approve" -> ApprovedCase(c, d)
    [] op = "reject"  -> RejectedCase(c)

LoadCase(w) ==
  /\ req[w].step = "loaded"
  /\ req' = [req EXCEPT ![w] =
       [step |-> "ready", op |-> "decision", id |-> req[w].id,
        seenD |-> req[w].seenD, newD |-> req[w].newD,
        seenC |-> case, newC |-> CaseAfter(req[w].op, case, req[w].newD),
        records |-> req[w].records, events |-> req[w].events]]
  /\ UNCHANGED <<decisions, case, records, events>>
-----------------------------------------------------------------------------
(* The handlers that load the case only.                                   *)

StartCaseAs(w, op, new) ==
  Start(w, [step |-> "ready", op |-> op, seenC |-> case, newC |-> new])

StartCase(w, new) == StartCaseAs(w, "case", new)

ClosedWith(o) == [case EXCEPT !.status = "closed", !.outcome = o, !.closedAt = TRUE]

\* PATCH /api/cases/{id}: no transition check.  A field that is not sent keeps the value
\* loaded; assignee and priority are left to the handlers below.
UpdateCase(w) ==
  /\ "case_update" \in Surfaces
  /\ \E s \in CaseStatus, o \in Dispositions \cup {None} :
       StartCase(w, [case EXCEPT !.status = s, !.outcome = o])

AssignCase(w) ==
  /\ "cases" \in Surfaces
  /\ \E u \in Users :
       StartCase(w, [case EXCEPT !.assignedTo = u,
                                 !.status = IF @ = "open" THEN "in_progress" ELSE @])

RaisedPriority(p) ==
  CASE p = "medium" -> "high" [] p = "low" -> "medium" [] OTHER -> p

EscalateCase(w) ==
  /\ "cases" \in Surfaces
  /\ StartCase(w, [case EXCEPT !.status = "escalated", !.priority = RaisedPriority(@)])

CloseCase(w) ==
  /\ "cases" \in Surfaces
  /\ \E o \in Dispositions : StartCase(w, ClosedWith(o))

\* api/aml_officer.py (a SAR draft) and api/reports/sar_filing.py (a SAR filed).
PrepareSar(w) ==
  /\ "sar" \in Surfaces
  /\ StartCase(w, [case EXCEPT !.outcome = IF @ = None THEN "sar_required" ELSE @])

FileSar(w) ==
  /\ "sar" \in Surfaces
  /\ StartCase(w, [case EXCEPT !.outcome = "sar_filed"])
-----------------------------------------------------------------------------
(* The command centre: perform_work_item_action and review_work_item.      *)

\* _review_requirement for a case whose typology and transactions ask for no review.
ReviewRequired == case.priority = "high" \/ case.outcome = "sar_required"

SarOutcomes == {"no_action", "sar_required"}

DashboardAssign(w) ==
  /\ "case_items" \in Surfaces
  /\ \E u \in Users : StartCase(w, [case EXCEPT !.assignedTo = u, !.status = "in_progress"])

DashboardEscalate(w) ==
  /\ "case_items" \in Surfaces
  /\ StartCase(w, [case EXCEPT !.priority = "high", !.status = "in_progress"])

\* mark_in_progress, and review_work_item returning the case to the analyst.
DashboardInProgress(w) ==
  /\ "case_items" \in Surfaces
  /\ StartCase(w, [case EXCEPT !.status = "in_progress"])

DashboardClose(w) ==
  /\ "case_items" \in Surfaces
  /\ ~ReviewRequired
  /\ \E o \in SarOutcomes : StartCaseAs(w, "dashboard_close", ClosedWith(o))

DashboardReviewClose(w) ==
  /\ "case_items" \in Surfaces
  /\ case.assignedTo # None
  /\ \E u \in Users, o \in SarOutcomes :
       /\ u # case.assignedTo
       /\ StartCase(w, ClosedWith(o))

\* A decision work item, whatever its status: the case is loaded but not changed.
StartDashboardDecision(w, i, status, u) ==
  Start(w, [step |-> "ready", op |-> "decision", id |-> i, seenD |-> decisions[i],
            newD |-> [decisions[i] EXCEPT !.status = status, !.approver = u],
            seenC |-> case, newC |-> case,
            records |-> {}, events |-> {<<"dashboard", i>>}])

DashboardApprove(w) ==
  /\ "approval_items" \in Surfaces
  /\ \E i \in DOMAIN decisions, u \in Users :
       /\ FourEyesCheck(u, i)
       /\ StartDashboardDecision(w, i, "approved", u)

DashboardReturn(w) ==
  /\ "approval_items" \in Surfaces
  /\ \E i \in DOMAIN decisions, u \in Users : StartDashboardDecision(w, i, "rejected", u)
-----------------------------------------------------------------------------
(* The end of a request.                                                   *)

CommitDecision(w) ==
  /\ req[w].step = "ready" /\ req[w].op = "decision"
  /\ decisions' = [decisions EXCEPT
                     ![req[w].id] = MergeDecision(@, req[w].seenD, req[w].newD)]
  /\ case' = MergeCase(case, req[w].seenC, req[w].newC)
  /\ records' = records \cup req[w].records
  /\ events' = events \cup req[w].events
  /\ req' = [req EXCEPT ![w] = Idle]

CommitCase(w) ==
  /\ req[w].step = "ready" /\ req[w].op \in {"case", "dashboard_close"}
  /\ case' = MergeCase(case, req[w].seenC, req[w].newC)
  /\ req' = [req EXCEPT ![w] = Idle]
  /\ UNCHANGED <<decisions, records, events>>

\* MaxDecisions bounds the model, not the code.
CommitCreate(w) ==
  /\ req[w].step = "ready" /\ req[w].op = "create"
  /\ Len(decisions) < MaxDecisions
  /\ decisions' = Append(decisions, req[w].newD)
  /\ events' = events \cup {<<"created", Len(decisions) + 1>>}
  /\ req' = [req EXCEPT ![w] = Idle]
  /\ UNCHANGED <<case, records>>

\* The handler or its commit raises: get_db closes the session, nothing is written.
Abort(w) ==
  /\ req[w] # Idle
  /\ req' = [req EXCEPT ![w] = Idle]
  /\ UNCHANGED <<decisions, case, records, events>>

DecisionHandler(w) ==
  CreateDecision(w) \/ SubmitDecision(w) \/ ApproveDecision(w) \/ RejectDecision(w)

CaseHandler(w) ==
  \/ UpdateCase(w) \/ AssignCase(w) \/ EscalateCase(w) \/ CloseCase(w)
  \/ PrepareSar(w) \/ FileSar(w)

DashboardHandler(w) ==
  \/ DashboardAssign(w) \/ DashboardEscalate(w) \/ DashboardInProgress(w)
  \/ DashboardClose(w) \/ DashboardReviewClose(w)
  \/ DashboardApprove(w) \/ DashboardReturn(w)

Finish(w) == LoadCase(w) \/ CommitDecision(w) \/ CommitCase(w) \/ CommitCreate(w) \/ Abort(w)

Next ==
  \E w \in Workers :
    DecisionHandler(w) \/ CaseHandler(w) \/ DashboardHandler(w) \/ Finish(w)

Spec == Init /\ [][Next]_vars
-----------------------------------------------------------------------------
(* Properties.                                                             *)

\* 4-eyes on the compliance record: every immutable DecisionRecord is about an existing
\* decision, carries that decision's disposition and names an approver who is not its
\* creator, whatever requests overlap and whichever router approved.
RecordsFourEyes ==
  \A r \in records :
    /\ r.decision \in DOMAIN decisions
    /\ r.approver # decisions[r.decision].createdBy
    /\ r.disposition = decisions[r.decision].disposition

\* The audit explains the row: no decision has left "draft" without a submission on record,
\* none is approved without a recorded approval and its DecisionRecord (approve_decision:
\* "Also write to the immutable DecisionRecord for compliance"), none rejected without a
\* recorded rejection, however requests on the same decision overwrite each other; the
\* dashboard, which settles a decision from any status, leaves an event of its own.
TrailExplainsStatus ==
  \A i \in DOMAIN decisions :
    LET status == decisions[i].status IN
    \/ <<"dashboard", i>> \in events
    \/ /\ status # "draft" => <<"submitted", i>> \in events
       /\ status \in {"approved", "rejected"} => <<status, i>> \in events
       /\ status = "approved" => \E r \in records : r.decision = i

\* 4-eyes on the row (model docstring: "approver must differ from creator").
FourEyes ==
  \A i \in DOMAIN decisions :
    decisions[i].status = "approved" => decisions[i].approver \notin {None, decisions[i].createdBy}

\* approve_decision: "On approval the parent Case is auto-closed", with the disposition
\* approved as its outcome.
ApprovalCloses ==
  [][\A i \in DOMAIN decisions :
       decisions[i].status # "approved" /\ decisions'[i].status = "approved" =>
         /\ case'.status = "closed"
         /\ case'.closedAt
         /\ case'.outcome = decisions[i].disposition]_vars

\* The maker-checker contract that the service promises one request at a time.
MakerChecker == INSTANCE MakerChecker WITH
  Ids <- Ids,
  phase <- [i \in Ids |-> IF i \in DOMAIN decisions THEN decisions[i].status ELSE "none"],
  maker <- [i \in Ids |-> IF i \in DOMAIN decisions THEN decisions[i].createdBy ELSE None],
  checker <- [i \in Ids |-> IF i \in DOMAIN decisions THEN decisions[i].approver ELSE None],
  signed <- [i \in Ids |-> {r.approver : r \in {q \in records : q.decision = i}}]

Contract == MakerChecker!Spec
=============================================================================
