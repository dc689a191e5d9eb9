------------------------ MODULE CaseGovernanceProofs ------------------------
(***************************************************************************)
(* Theorems about CaseGovernance, for every set of request slots, users,   *)
(* dispositions and endpoints: however requests overlap, the rows keep     *)
(* their types, no DecisionRecord breaks the 4-eyes principle and the      *)
(* audit trail explains every status; one at a time, the requests of the   *)
(* service keep the contract of MakerChecker, 4-eyes on the row, and close *)
(* the case they approve a decision of.                                    *)
(***************************************************************************)
EXTENDS CaseGovernance, TLAPS

DecisionOps == {"submit", "approve", "reject", "decision"}

\* What a request that is going to write decision i still owes to the rows: the decision
\* exists, and the records it will insert are signed by somebody else than its creator.
SignedFor(i, r) ==
  /\ r.decision = i
  /\ r.approver # decisions[i].createdBy
  /\ r.disposition = decisions[i].disposition

PendingSigned ==
  \A w \in Workers :
    req[w] # Idle /\ req[w].op \in DecisionOps =>
      /\ req[w].id \in DOMAIN decisions
      /\ \A r \in req[w].records : SignedFor(req[w].id, r)

\* There is a latest version for create_decision to read.
LatestExists ==
  decisions # <<>> =>
    \E i \in DOMAIN decisions : \A j \in DOMAIN decisions :
      decisions[j].version <= decisions[i].version

\* The inductive invariant: RecordsFourEyes must be known of the records in flight too,
\* since the check and the insert are in different steps.
IInv == TypeOK /\ LatestExists /\ RecordsFourEyes /\ PendingSigned

\* No step changes who created a decision or what it proposes, and none deletes one.
IdentityKept ==
  /\ DOMAIN decisions \subseteq DOMAIN decisions'
  /\ \A i \in DOMAIN decisions :
       /\ decisions'[i].createdBy = decisions[i].createdBy
       /\ decisions'[i].disposition = decisions[i].disposition

LEMMA CaseEffectType ==
  ASSUME NEW c \in Case, NEW d \in Decision, NEW op \in {"submit", "approve", "reject"}
  PROVE  CaseAfter(op, c, d) \in Case
BY DEF CaseAfter, SubmittedCase, ApprovedCase, RejectedCase, Case, CaseStatus, Decision,
       Outcomes

LEMMA MergeTypes ==
  /\ \A d, s, n \in Decision : MergeDecision(d, s, n) \in Decision
  /\ \A c, s, n \in Case : MergeCase(c, s, n) \in Case
BY DEF MergeDecision, MergeCase, Column, Decision, Case

LEMMA MergeIdentity ==
  ASSUME NEW d \in Decision, NEW s, NEW n
  PROVE  /\ MergeDecision(d, s, n).createdBy = d.createdBy
         /\ MergeDecision(d, s, n).disposition = d.disposition
BY DEF MergeDecision, Decision

LEMMA StartType ==
  ASSUME TypeOK, NEW w \in Workers, NEW r \in Request, Start(w, r)
  PROVE  TypeOK'
BY DEF TypeOK, Start

\* A handler that starts leaves the rows alone: it only has to account for its own request.
LEMMA StartIInv ==
  ASSUME IInv, NEW w \in Workers, NEW r \in Request, Start(w, r),
         r.op \in DecisionOps =>
           /\ r.id \in DOMAIN decisions
           /\ \A q \in r.records : SignedFor(r.id, q)
  PROVE  IInv'
<1>1. TypeOK'
  BY StartType DEF IInv
<1>2. RecordsFourEyes'
  BY DEF IInv, RecordsFourEyes, Start
<1>3. PendingSigned'
  BY DEF IInv, PendingSigned, TypeOK, Start, SignedFor
<1>4. LatestExists'
  BY DEF IInv, LatestExists, Start
<1> QED
  BY <1>1, <1>2, <1>3, <1>4 DEF IInv

LEMMA MaxVersionType ==
  ASSUME TypeOK, LatestExists
  PROVE  MaxVersion \in Nat
<1>1. CASE decisions = <<>>
  BY <1>1 DEF MaxVersion
<1>2. CASE decisions # <<>>
  <2> DEFINE Versions == {decisions[i].version : i \in DOMAIN decisions}
  <2>1. PICK i \in DOMAIN decisions : \A j \in DOMAIN decisions :
          decisions[j].version <= decisions[i].version
    BY <1>2 DEF LatestExists
  <2>2. \E v \in Versions : \A j \in DOMAIN decisions : decisions[j].version <= v
    BY <2>1
  <2>3. MaxVersion \in Versions
    BY <1>2, <2>2 DEF MaxVersion
  <2>4. \A j \in DOMAIN decisions : decisions[j] \in Decision
    BY DEF TypeOK
  <2> QED
    BY <2>3, <2>4 DEF Decision
<1> QED
  BY <1>1, <1>2

\* The handlers of the decision service start with a request of the right type that
\* owes only properly signed records.
LEMMA DecisionHandlerIInv ==
  ASSUME IInv, NEW w \in Workers, DecisionHandler(w)
  PROVE  IInv'
<1> USE GovernanceAssumption
<1>1. \A i \in DOMAIN decisions : i \in Ids /\ decisions[i] \in Decision
  BY DEF IInv, TypeOK, Ids
<1>2. CASE CreateDecision(w)
  <2>1. PICK u \in Users, p \in Dispositions :
          Start(w, [step |-> "ready", op |-> "create", newD |-> NewDecision(u, p)])
    BY <1>2 DEF CreateDecision
  <2>2. NewDecision(u, p) \in Decision
    BY MaxVersionType DEF NewDecision, Decision, DecisionStatus, IInv
  <2> QED
    BY <2>1, <2>2, StartIInv DEF Request, DecisionOps
<1>3. CASE SubmitDecision(w)
  <2>1. PICK i \in DOMAIN decisions :
          Start(w, [step |-> "loaded", op |-> "submit", id |-> i, seenD |-> decisions[i],
                    newD |-> [decisions[i] EXCEPT !.status = "submitted"],
                    records |-> {}, events |-> {<<"submitted", i>>}])
    BY <1>3 DEF SubmitDecision
  <2>2. [decisions[i] EXCEPT !.status = "submitted"] \in Decision
    BY <1>1 DEF Decision, DecisionStatus
  <2>3. {<<"submitted", i>>} \in SUBSET (EventTypes \X Ids)
    BY <1>1 DEF EventTypes
  <2> QED
    BY <1>1, <2>1, <2>2, <2>3, StartIInv DEF Request
<1>4. CASE ApproveDecision(w)
  <2>1. PICK i \in DOMAIN decisions, u \in Approvers :
          /\ FourEyesCheck(u, i)
          /\ Start(w, [step |-> "loaded", op |-> "approve", id |-> i, seenD |-> decisions[i],
                       newD |-> [decisions[i] EXCEPT !.status = "approved", !.approver = u],
                       records |-> ApprovalRecords(u, i), events |-> {<<"approved", i>>}])
    BY <1>4 DEF ApproveDecision
  <2>2. [decisions[i] EXCEPT !.status = "approved", !.approver = u] \in Decision
    BY <1>1 DEF Decision, DecisionStatus
  <2>3. {<<"approved", i>>} \in SUBSET (EventTypes \X Ids)
    BY <1>1 DEF EventTypes
  <2>4. ApprovalRecords(u, i) \in SUBSET Record
    BY <1>1 DEF ApprovalRecords, Record, Decision
  <2>5. \A r \in ApprovalRecords(u, i) : SignedFor(i, r)
    BY <2>1 DEF ApprovalRecords, SignedFor, FourEyesCheck
  <2> QED
    BY <1>1, <2>1, <2>2, <2>3, <2>4, <2>5, StartIInv DEF Request
<1>5. CASE RejectDecision(w)
  <2>1. PICK i \in DOMAIN decisions, u \in Approvers :
          Start(w, [step |-> "loaded", op |-> "reject", id |-> i, seenD |-> decisions[i],
                    newD |-> [decisions[i] EXCEPT !.status = "rejected", !.approver = u],
                    records |-> {}, events |-> {<<"rejected", i>>}])
    BY <1>5 DEF RejectDecision
  <2>2. [decisions[i] EXCEPT !.status = "rejected", !.approver = u] \in Decision
    BY <1>1 DEF Decision, DecisionStatus
  <2>3. {<<"rejected", i>>} \in SUBSET (EventTypes \X Ids)
    BY <1>1 DEF EventTypes
  <2> QED
    BY <1>1, <2>1, <2>2, <2>3, StartIInv DEF Request
<1> QED
  BY <1>2, <1>3, <1>4, <1>5 DEF DecisionHandler
LEMMA StartCaseIInv ==
  ASSUME IInv, NEW w \in Workers, NEW op \in {"case", "dashboard_close"}, NEW new \in Case,
         StartCaseAs(w, op, new)
  PROVE  IInv'
<1>1. [step |-> "ready", op |-> op, seenC |-> case, newC |-> new] \in Request
  BY DEF IInv, TypeOK, Request
<1> QED
  BY <1>1, StartIInv DEF StartCaseAs, DecisionOps

\* The handlers that load the case only cannot touch a decision or a record.
LEMMA CaseHandlerIInv ==
  ASSUME IInv, NEW w \in Workers, CaseHandler(w)
  PROVE  IInv'
<1> USE GovernanceAssumption
<1>1. case \in Case
  BY DEF IInv, TypeOK
<1>2. CASE UpdateCase(w)
  <2>1. PICK s \in CaseStatus, o \in Dispositions \cup {None} :
          StartCase(w, [case EXCEPT !.status = s, !.outcome = o])
    BY <1>2 DEF UpdateCase
  <2>2. [case EXCEPT !.status = s, !.outcome = o] \in Case
    BY <1>1 DEF Case, Outcomes
  <2> QED
    BY <2>1, <2>2, StartCaseIInv DEF StartCase
<1>3. CASE AssignCase(w)
  <2>1. PICK u \in Users :
          StartCase(w, [case EXCEPT !.assignedTo = u,
                                    !.status = IF @ = "open" THEN "in_progress" ELSE @])
    BY <1>3 DEF AssignCase
  <2>2. [case EXCEPT !.assignedTo = u,
                     !.status = IF @ = "open" THEN "in_progress" ELSE @] \in Case
    BY <1>1 DEF Case, CaseStatus
  <2> QED
    BY <2>1, <2>2, StartCaseIInv DEF StartCase
<1>4. CASE EscalateCase(w)
  <2>1. [case EXCEPT !.status = "escalated", !.priority = RaisedPriority(@)] \in Case
    BY <1>1 DEF Case, CaseStatus, RaisedPriority
  <2> QED
    BY <1>4, <2>1, StartCaseIInv DEF EscalateCase, StartCase
<1>5. CASE CloseCase(w)
  <2>1. \A o \in Dispositions : ClosedWith(o) \in Case
    BY <1>1 DEF ClosedWith, Case, CaseStatus, Outcomes
  <2> QED
    BY <1>5, <2>1, StartCaseIInv DEF CloseCase, StartCase
<1>6. CASE PrepareSar(w)
  <2>1. [case EXCEPT !.outcome = IF @ = None THEN "sar_required" ELSE @] \in Case
    BY <1>1 DEF Case, Outcomes
  <2> QED
    BY <1>6, <2>1, StartCaseIInv DEF PrepareSar, StartCase
<1>7. CASE FileSar(w)
  <2>1. [case EXCEPT !.outcome = "sar_filed"] \in Case
    BY <1>1 DEF Case, Outcomes
  <2> QED
    BY <1>7, <2>1, StartCaseIInv DEF FileSar, StartCase
<1> QED
  BY <1>2, <1>3, <1>4, <1>5, <1>6, <1>7 DEF CaseHandler

LEMMA StartDashboardIInv ==
  ASSUME IInv, NEW w \in Workers, NEW i \in DOMAIN decisions, NEW u \in Users,
         NEW status \in DecisionStatus, StartDashboardDecision(w, i, status, u)
  PROVE  IInv'
<1> DEFINE r == [step |-> "ready", op |-> "decision", id |-> i, seenD |-> decisions[i],
                 newD |-> [decisions[i] EXCEPT !.status = status, !.approver = u],
                 seenC |-> case, newC |-> case,
                 records |-> {}, events |-> {<<"dashboard", i>>}]
<1>1. i \in Ids /\ decisions[i] \in Decision /\ case \in Case
  BY GovernanceAssumption DEF IInv, TypeOK, Ids
<1>2. [decisions[i] EXCEPT !.status = status, !.approver = u] \in Decision
  BY <1>1 DEF Decision
<1>3. {<<"dashboard", i>>} \in SUBSET (EventTypes \X Ids)
  BY <1>1 DEF EventTypes
<1>4. r \in Request
  BY <1>1, <1>2, <1>3 DEF Request
<1>5. Start(w, r)
  BY DEF StartDashboardDecision
<1>6. r.id \in DOMAIN decisions /\ \A q \in r.records : SignedFor(r.id, q)
  OBVIOUS
<1> HIDE DEF r
<1> QED
  BY <1>4, <1>5, <1>6, StartIInv

\* The command centre writes no DecisionRecord.
LEMMA DashboardHandlerIInv ==
  ASSUME IInv, NEW w \in Workers, DashboardHandler(w)
  PROVE  IInv'
<1> USE GovernanceAssumption
<1>1. case \in Case
  BY DEF IInv, TypeOK
<1>2. \A o \in SarOutcomes : ClosedWith(o) \in Case
  BY <1>1 DEF SarOutcomes, ClosedWith, Case, CaseStatus, Outcomes
<1>3. CASE DashboardAssign(w)
  <2>1. \A u \in Users : [case EXCEPT !.assignedTo = u, !.status = "in_progress"] \in Case
    BY <1>1 DEF Case, CaseStatus
  <2> QED
    BY <1>3, <2>1, StartCaseIInv DEF DashboardAssign, StartCase
<1>4. CASE DashboardEscalate(w)
  <2>1. [case EXCEPT !.priority = "high", !.status = "in_progress"] \in Case
    BY <1>1 DEF Case, CaseStatus
  <2> QED
    BY <1>4, <2>1, StartCaseIInv DEF DashboardEscalate, StartCase
<1>5. CASE DashboardInProgress(w)
  <2>1. [case EXCEPT !.status = "in_progress"] \in Case
    BY <1>1 DEF Case, CaseStatus
  <2> QED
    BY <1>5, <2>1, StartCaseIInv DEF DashboardInProgress, StartCase
<1>6. CASE DashboardClose(w)
  BY <1>2, <1>6, StartCaseIInv DEF DashboardClose
<1>7. CASE DashboardReviewClose(w)
  BY <1>2, <1>7, StartCaseIInv DEF DashboardReviewClose, StartCase
<1>8. CASE DashboardApprove(w)
  BY <1>8, StartDashboardIInv DEF DashboardApprove, DecisionStatus
<1>9. CASE DashboardReturn(w)
  BY <1>9, StartDashboardIInv DEF DashboardReturn, DecisionStatus
<1> QED
  BY <1>3, <1>4, <1>5, <1>6, <1>7, <1>8, <1>9 DEF DashboardHandler

\* While one request loads, commits or aborts, the others keep what they owe, because no
\* step changes the identity of a decision.
LEMMA OthersKeepPending ==
  ASSUME IInv, IdentityKept, NEW w \in Workers,
         \A v \in Workers \ {w} : req'[v] = req[v],
         req'[w] # Idle /\ req'[w].op \in DecisionOps =>
           /\ req'[w].id \in DOMAIN decisions
           /\ \A r \in req'[w].records : SignedFor(req'[w].id, r)
  PROVE  PendingSigned'
<1> SUFFICES ASSUME NEW v \in Workers, req'[v] # Idle, req'[v].op \in DecisionOps
             PROVE  /\ req'[v].id \in DOMAIN decisions'
                    /\ \A r \in req'[v].records : SignedFor(req[v].id, r)'
  BY DEF PendingSigned
<1>1. /\ req'[v].id \in DOMAIN decisions
      /\ \A r \in req'[v].records : SignedFor(req'[v].id, r)
  BY DEF IInv, PendingSigned
<1> QED
  BY <1>1 DEF IdentityKept, SignedFor

\* The records of a state survive any step that keeps the identity of decisions.
LEMMA RecordsKept ==
  ASSUME IInv, IdentityKept, records' = records
  PROVE  RecordsFourEyes'
BY DEF IInv, IdentityKept, RecordsFourEyes

\* A step that only ends or advances request w, rows unchanged.
LEMMA RowsUnchangedIInv ==
  ASSUME IInv, NEW w \in Workers, NEW r \in Request \cup {Idle},
         req' = [req EXCEPT ![w] = r], UNCHANGED <<decisions, case, records, events>>,
         r # Idle /\ r.op \in DecisionOps =>
           /\ r.id \in DOMAIN decisions
           /\ \A q \in r.records : SignedFor(r.id, q)
  PROVE  IInv'
<1>1. IdentityKept
  BY DEF IdentityKept
<1>2. req' \in [Workers -> Request \cup {Idle}] /\ req'[w] = r
  BY DEF IInv, TypeOK
<1>3. \A v \in Workers \ {w} : req'[v] = req[v]
  BY DEF IInv, TypeOK
<1>4. TypeOK'
  BY <1>2 DEF IInv, TypeOK
<1>5. PendingSigned'
  BY <1>1, <1>2, <1>3, OthersKeepPending
<1>6. LatestExists'
  BY DEF IInv, LatestExists
<1> QED
  BY <1>1, <1>4, <1>5, <1>6, RecordsKept DEF IInv

LEMMA LoadCaseIInv ==
  ASSUME IInv, NEW w \in Workers, LoadCase(w)
  PROVE  IInv'
<1> DEFINE r == [step |-> "ready", op |-> "decision", id |-> req[w].id,
                 seenD |-> req[w].seenD, newD |-> req[w].newD,
                 seenC |-> case, newC |-> CaseAfter(req[w].op, case, req[w].newD),
                 records |-> req[w].records, events |-> req[w].events]
<1>1. req[w] \in [step : {"loaded"}, op : {"submit", "approve", "reject"}, id : Ids,
                  seenD : Decision, newD : Decision, records : SUBSET Record,
                  events : SUBSET (EventTypes \X Ids)]
  BY DEF IInv, TypeOK, LoadCase, Request, Idle
<1>2. case \in Case /\ CaseAfter(req[w].op, case, req[w].newD) \in Case
  BY <1>1, CaseEffectType DEF IInv, TypeOK
<1>3. r \in Request
  BY <1>1, <1>2 DEF Request
<1>4. req[w] # Idle /\ req[w].op \in DecisionOps
  BY <1>1 DEF Idle, DecisionOps
<1>5. /\ r.id \in DOMAIN decisions
      /\ \A q \in r.records : SignedFor(r.id, q)
  BY <1>4 DEF IInv, PendingSigned
<1>6. req' = [req EXCEPT ![w] = r] /\ UNCHANGED <<decisions, case, records, events>>
  BY DEF LoadCase
<1> HIDE DEF r
<1> QED
  BY <1>3, <1>5, <1>6, RowsUnchangedIInv

LEMMA AbortIInv ==
  ASSUME IInv, NEW w \in Workers, Abort(w)
  PROVE  IInv'
BY RowsUnchangedIInv DEF Abort

LEMMA CommitDecisionIInv ==
  ASSUME IInv, NEW w \in Workers, CommitDecision(w)
  PROVE  IInv'
<1> DEFINE i == req[w].id
           d == MergeDecision(decisions[i], req[w].seenD, req[w].newD)
<1> USE GovernanceAssumption
<1>1. req[w] \in [step : {"ready"}, op : {"decision"}, id : Ids,
                  seenD : Decision, newD : Decision, seenC : Case, newC : Case,
                  records : SUBSET Record, events : SUBSET (EventTypes \X Ids)]
  BY DEF IInv, TypeOK, CommitDecision, Request, Idle
<1>2. i \in DOMAIN decisions /\ \A r \in req[w].records : SignedFor(i, r)
  BY <1>1 DEF IInv, PendingSigned, Idle, DecisionOps
<1>3. decisions[i] \in Decision /\ case \in Case
  BY <1>2 DEF IInv, TypeOK
<1>4. d \in Decision /\ MergeCase(case, req[w].seenC, req[w].newC) \in Case
  BY <1>1, <1>3, MergeTypes
<1>5. /\ d.createdBy = decisions[i].createdBy
      /\ d.disposition = decisions[i].disposition
      /\ d.version = decisions[i].version
  BY <1>3 DEF MergeDecision, Decision
<1>6. decisions' = [decisions EXCEPT ![i] = d]
  BY DEF CommitDecision
<1> HIDE DEF i, d
<1>7. IdentityKept
  BY <1>2, <1>5, <1>6 DEF IInv, TypeOK, IdentityKept
<1>8. req' = [req EXCEPT ![w] = Idle] /\ records' = records \cup req[w].records
      /\ events' = events \cup req[w].events
      /\ case' = MergeCase(case, req[w].seenC, req[w].newC)
  BY DEF CommitDecision
<1>9. decisions' \in Seq(Decision) /\ Len(decisions') = Len(decisions)
  BY <1>2, <1>4, <1>6 DEF IInv, TypeOK
<1>10. TypeOK'
  BY <1>1, <1>4, <1>8, <1>9 DEF IInv, TypeOK
<1>11. RecordsFourEyes'
  BY <1>2, <1>7, <1>8 DEF IInv, RecordsFourEyes, IdentityKept, SignedFor
<1>12. PendingSigned'
  BY <1>7, <1>8, OthersKeepPending DEF IInv, TypeOK
<1>13. LatestExists'
  <2>1. /\ DOMAIN decisions' = DOMAIN decisions
        /\ decisions' = <<>> <=> decisions = <<>>
        /\ \A j \in DOMAIN decisions : decisions'[j].version = decisions[j].version
    BY <1>2, <1>5, <1>6 DEF IInv, TypeOK
  <2> QED
    BY <2>1 DEF IInv, LatestExists
<1> QED
  BY <1>10, <1>11, <1>12, <1>13 DEF IInv

LEMMA CommitCaseIInv ==
  ASSUME IInv, NEW w \in Workers, CommitCase(w)
  PROVE  IInv'
<1>1. IdentityKept /\ records' = records
  BY DEF CommitCase, IdentityKept
<1>2. MergeCase(case, req[w].seenC, req[w].newC) \in Case
  <2>1. req[w].seenC \in Case /\ req[w].newC \in Case
    BY DEF IInv, TypeOK, CommitCase, Request, Idle
  <2> QED
    BY <2>1, MergeTypes DEF IInv, TypeOK
<1>3. TypeOK'
  BY <1>2 DEF IInv, TypeOK, CommitCase
<1>4. PendingSigned'
  BY <1>1, OthersKeepPending DEF IInv, TypeOK, CommitCase
<1>5. LatestExists'
  BY DEF IInv, LatestExists, CommitCase
<1> QED
  BY <1>1, <1>3, <1>4, <1>5, RecordsKept DEF IInv
LEMMA CommitCreateIInv ==
  ASSUME IInv, NEW w \in Workers, CommitCreate(w)
  PROVE  IInv'
<1> USE GovernanceAssumption
<1>1. req[w].newD \in Decision
  BY DEF IInv, TypeOK, CommitCreate, Request, Idle
<1>2. decisions' = Append(decisions, req[w].newD) /\ decisions \in Seq(Decision)
  BY DEF IInv, TypeOK, CommitCreate
<1>3. /\ decisions' \in Seq(Decision)
      /\ Len(decisions') = Len(decisions) + 1
      /\ DOMAIN decisions' = DOMAIN decisions \cup {Len(decisions) + 1}
      /\ \A i \in DOMAIN decisions : decisions'[i] = decisions[i]
      /\ decisions'[Len(decisions) + 1] = req[w].newD
  BY <1>1, <1>2
<1>4. IdentityKept /\ records' = records
  BY <1>3 DEF IdentityKept, CommitCreate
<1>5. TypeOK'
  <2>1. Len(decisions') <= MaxDecisions /\ Len(decisions) + 1 \in Ids
    BY <1>2, <1>3 DEF CommitCreate, Ids
  <2>2. events' \subseteq EventTypes \X Ids
    BY <2>1 DEF IInv, TypeOK, CommitCreate, EventTypes
  <2> QED
    BY <1>3, <2>1, <2>2 DEF IInv, TypeOK, CommitCreate
<1>6. PendingSigned'
  BY <1>4, OthersKeepPending DEF IInv, TypeOK, CommitCreate
<1>7. LatestExists'
  <2>1. \A j \in DOMAIN decisions' : decisions'[j].version \in Nat
    <3>1. \A j \in DOMAIN decisions' : decisions'[j] \in Decision
      BY <1>1, <1>2, <1>3
    <3> QED
      BY <3>1 DEF Decision
  <2>2. CASE decisions = <<>>
    <3>1. DOMAIN decisions' = {1}
      <4>1. Len(decisions) = 0 /\ Len(decisions') = 1
        BY <1>3, <2>2
      <4> QED
        BY <1>3, <4>1
    <3>2. decisions'[1].version <= decisions'[1].version
      BY <2>1, <3>1
    <3> QED
      BY <3>1, <3>2 DEF LatestExists
  <2>3. CASE decisions # <<>>
    <3>1. PICK i \in DOMAIN decisions : \A j \in DOMAIN decisions :
            decisions[j].version <= decisions[i].version
      BY <2>3 DEF IInv, LatestExists
    <3>2. CASE req[w].newD.version <= decisions[i].version
      <4>1. \A j \in DOMAIN decisions' : decisions'[j].version <= decisions'[i].version
        BY <1>3, <3>1, <3>2
      <4> QED
        BY <1>3, <4>1 DEF LatestExists
    <3>3. CASE ~(req[w].newD.version <= decisions[i].version)
      <4> DEFINE n == Len(decisions) + 1
      <4>1. \A j \in DOMAIN decisions' : decisions'[j].version <= decisions'[n].version
        BY <1>2, <1>3, <2>1, <3>1, <3>3
      <4> QED
        BY <1>3, <4>1 DEF LatestExists
    <3> QED
      BY <3>2, <3>3
  <2> QED
    BY <2>2, <2>3
<1> QED
  BY <1>4, <1>5, <1>6, <1>7, RecordsKept DEF IInv

LEMMA InitIInv == Init => IInv
<1> SUFFICES ASSUME Init PROVE IInv
  OBVIOUS
<1>1. case \in Case
  BY DEF Init, Case, CaseStatus
<1>2. decisions \in Seq(Decision) /\ Len(decisions) <= MaxDecisions
  BY GovernanceAssumption DEF Init
<1>3. TypeOK
  BY <1>1, <1>2 DEF Init, TypeOK
<1> QED
  BY <1>3 DEF Init, IInv, LatestExists, RecordsFourEyes, PendingSigned

LEMMA NextIInv == IInv /\ [Next]_vars => IInv'
<1> SUFFICES ASSUME IInv, [Next]_vars PROVE IInv'
  OBVIOUS
<1>1. ASSUME NEW w \in Workers, DecisionHandler(w) PROVE IInv'
  BY <1>1, DecisionHandlerIInv
<1>2. ASSUME NEW w \in Workers, CaseHandler(w) PROVE IInv'
  BY <1>2, CaseHandlerIInv
<1>3. ASSUME NEW w \in Workers, DashboardHandler(w) PROVE IInv'
  BY <1>3, DashboardHandlerIInv
<1>4. ASSUME NEW w \in Workers, Finish(w) PROVE IInv'
  BY <1>4, LoadCaseIInv, CommitDecisionIInv, CommitCaseIInv, CommitCreateIInv, AbortIInv
     DEF Finish
<1>5. CASE UNCHANGED vars
  BY <1>5 DEF vars, IInv, TypeOK, LatestExists, RecordsFourEyes, PendingSigned, SignedFor
<1> QED
  BY <1>1, <1>2, <1>3, <1>4, <1>5 DEF Next

THEOREM Invariant == Spec => []IInv
BY InitIInv, NextIInv, PTL DEF Spec

\* The rows, the records and the requests in flight keep their types (TypeOK).
THEOREM TypeCorrect == Spec => []TypeOK
<1>1. IInv => TypeOK
  BY DEF IInv
<1> QED
  BY Invariant, <1>1, PTL

\* No DecisionRecord, through whichever overlap of whichever requests it came to be
\* written, names the creator of its decision as the approver (RecordsFourEyes).
THEOREM RecordsAlwaysFourEyes == Spec => []RecordsFourEyes
<1>1. IInv => RecordsFourEyes
  BY DEF IInv
<1> QED
  BY Invariant, <1>1, PTL
-----------------------------------------------------------------------------
(* The audit trail.                                                        *)

\* What the audit must be able to say when the commit of request r has gone through, whatever
\* the row holds by then: either the dashboard has left its event, or the request writes the
\* status, because it changes the one it loaded, together with the event and the record that
\* explain it; and who settles a submitted decision leans on a submission on record.
Explained(r, logged) ==
  /\ r.op = "create" => r.newD.status = "draft"
  /\ r.op \in DecisionOps =>
       \/ <<"dashboard", r.id>> \in r.events
       \/ /\ r.seenD.status = "draft" /\ r.newD.status = "submitted"
          /\ <<"submitted", r.id>> \in r.events
       \/ /\ r.seenD.status = "submitted" /\ r.newD.status \in {"approved", "rejected"}
          /\ <<r.newD.status, r.id>> \in r.events
          /\ r.newD.status = "approved" => \E q \in r.records : q.decision = r.id
          /\ <<"submitted", r.id>> \in logged \/ <<"dashboard", r.id>> \in logged

PendingExplained == \A w \in Workers : req[w] # Idle => Explained(req[w], events)

TrailInv == IInv /\ TrailExplainsStatus /\ PendingExplained

\* Events and records are never deleted, so no step takes an explanation away.
LEMMA ExplanationsStay ==
  ASSUME NEW logged, NEW more, logged \subseteq more, NEW r, Explained(r, logged)
  PROVE  Explained(r, more)
BY DEF Explained

\* A step that leaves the rows and the audit alone accounts for the request it concerns.
LEMMA QuietTrail ==
  ASSUME TrailInv, NEW w \in Workers, NEW r,
         req' = [req EXCEPT ![w] = r], UNCHANGED <<decisions, records, events>>,
         r # Idle => Explained(r, events)
  PROVE  TrailExplainsStatus' /\ PendingExplained'
<1>1. TrailExplainsStatus'
  BY DEF TrailInv, TrailExplainsStatus
<1>2. ASSUME NEW v \in Workers, req'[v] # Idle PROVE Explained(req'[v], events')
  <2>1. Explained(req'[v], events)
    BY <1>2 DEF TrailInv, PendingExplained, IInv, TypeOK
  <2> QED
    BY <2>1, ExplanationsStay
<1> QED
  BY <1>1, <1>2 DEF PendingExplained

LEMMA DecisionHandlerTrail ==
  ASSUME TrailInv, NEW w \in Workers, DecisionHandler(w)
  PROVE  TrailExplainsStatus' /\ PendingExplained'
<1>1. \A i \in DOMAIN decisions : decisions[i] \in Decision
  BY DEF TrailInv, IInv, TypeOK
<1>2. CASE CreateDecision(w)
  <2>1. PICK u \in Users, p \in Dispositions :
          Start(w, [step |-> "ready", op |-> "create", newD |-> NewDecision(u, p)])
    BY <1>2 DEF CreateDecision
  <2>2. Explained([step |-> "ready", op |-> "create", newD |-> NewDecision(u, p)], events)
    BY DEF Explained, NewDecision, DecisionOps
  <2> QED
    BY <2>1, <2>2, QuietTrail DEF Start
<1>3. CASE SubmitDecision(w)
  <2>1. PICK i \in DOMAIN decisions :
          /\ InStatus(i, "draft")
          /\ Start(w, [step |-> "loaded", op |-> "submit", id |-> i, seenD |-> decisions[i],
                       newD |-> [decisions[i] EXCEPT !.status = "submitted"],
                       records |-> {}, events |-> {<<"submitted", i>>}])
    BY <1>3 DEF SubmitDecision
  <2>2. Explained([step |-> "loaded", op |-> "submit", id |-> i, seenD |-> decisions[i],
                   newD |-> [decisions[i] EXCEPT !.status = "submitted"],
                   records |-> {}, events |-> {<<"submitted", i>>}], events)
    BY <1>1, <2>1 DEF Explained, InStatus, Decision
  <2> QED
    BY <2>1, <2>2, QuietTrail DEF Start
<1>4. CASE ApproveDecision(w)
  <2>1. PICK i \in DOMAIN decisions, u \in Approvers :
          /\ InStatus(i, "submitted")
          /\ Start(w, [step |-> "loaded", op |-> "approve", id |-> i, seenD |-> decisions[i],
                       newD |-> [decisions[i] EXCEPT !.status = "approved", !.approver = u],
                       records |-> ApprovalRecords(u, i), events |-> {<<"approved", i>>}])
    BY <1>4 DEF ApproveDecision
  <2>2. <<"submitted", i>> \in events \/ <<"dashboard", i>> \in events
    BY <2>1 DEF InStatus, TrailInv, TrailExplainsStatus
  <2>3. \E q \in ApprovalRecords(u, i) : q.decision = i
    BY DEF ApprovalRecords
  <2>4. Explained([step |-> "loaded", op |-> "approve", id |-> i, seenD |-> decisions[i],
                   newD |-> [decisions[i] EXCEPT !.status = "approved", !.approver = u],
                   records |-> ApprovalRecords(u, i), events |-> {<<"approved", i>>}], events)
    BY <1>1, <2>1, <2>2, <2>3 DEF Explained, InStatus, Decision
  <2> QED
    BY <2>1, <2>4, QuietTrail DEF Start
<1>5. CASE RejectDecision(w)
  <2>1. PICK i \in DOMAIN decisions, u \in Approvers :
          /\ InStatus(i, "submitted")
          /\ Start(w, [step |-> "loaded", op |-> "reject", id |-> i, seenD |-> decisions[i],
                       newD |-> [decisions[i] EXCEPT !.status = "rejected", !.approver = u],
                       records |-> {}, events |-> {<<"rejected", i>>}])
    BY <1>5 DEF RejectDecision
  <2>2. <<"submitted", i>> \in events \/ <<"dashboard", i>> \in events
    BY <2>1 DEF InStatus, TrailInv, TrailExplainsStatus
  <2>3. Explained([step |-> "loaded", op |-> "reject", id |-> i, seenD |-> decisions[i],
                   newD |-> [decisions[i] EXCEPT !.status = "rejected", !.approver = u],
                   records |-> {}, events |-> {<<"rejected", i>>}], events)
    BY <1>1, <2>1, <2>2 DEF Explained, InStatus, Decision
  <2> QED
    BY <2>1, <2>3, QuietTrail DEF Start
<1> QED
  BY <1>2, <1>3, <1>4, <1>5 DEF DecisionHandler

\* A request about the case alone owes the audit nothing.
LEMMA StartCaseTrail ==
  ASSUME TrailInv, NEW w \in Workers, NEW op \in {"case", "dashboard_close"}, NEW new,
         StartCaseAs(w, op, new)
  PROVE  TrailExplainsStatus' /\ PendingExplained'
<1>1. Explained([step |-> "ready", op |-> op, seenC |-> case, newC |-> new], events)
  BY DEF Explained, DecisionOps
<1> QED
  BY <1>1, QuietTrail DEF StartCaseAs, Start

LEMMA CaseHandlerTrail ==
  ASSUME TrailInv, NEW w \in Workers, CaseHandler(w)
  PROVE  TrailExplainsStatus' /\ PendingExplained'
BY StartCaseTrail DEF CaseHandler, UpdateCase, AssignCase, EscalateCase, CloseCase, PrepareSar,
   FileSar, StartCase

\* The dashboard settles decisions from any status, and leaves its own event.
LEMMA StartDashboardTrail ==
  ASSUME TrailInv, NEW w \in Workers, NEW i \in DOMAIN decisions, NEW u \in Users,
         NEW status, StartDashboardDecision(w, i, status, u)
  PROVE  TrailExplainsStatus' /\ PendingExplained'
<1> DEFINE r == [step |-> "ready", op |-> "decision", id |-> i, seenD |-> decisions[i],
                 newD |-> [decisions[i] EXCEPT !.status = status, !.approver = u],
                 seenC |-> case, newC |-> case,
                 records |-> {}, events |-> {<<"dashboard", i>>}]
<1>1. Explained(r, events)
  BY DEF Explained
<1>2. req' = [req EXCEPT ![w] = r] /\ UNCHANGED <<decisions, records, events>>
  BY DEF StartDashboardDecision, Start
<1> HIDE DEF r
<1> QED
  BY <1>1, <1>2, QuietTrail

LEMMA DashboardHandlerTrail ==
  ASSUME TrailInv, NEW w \in Workers, DashboardHandler(w)
  PROVE  TrailExplainsStatus' /\ PendingExplained'
<1>1. CASE DashboardApprove(w) \/ DashboardReturn(w)
  BY <1>1, StartDashboardTrail DEF DashboardApprove, DashboardReturn
<1>2. CASE ~(DashboardApprove(w) \/ DashboardReturn(w))
  BY <1>2, StartCaseTrail DEF DashboardHandler, DashboardAssign, DashboardEscalate,
     DashboardInProgress, DashboardClose, DashboardReviewClose, StartCase
<1> QED
  BY <1>1, <1>2

LEMMA LoadCaseTrail ==
  ASSUME TrailInv, NEW w \in Workers, LoadCase(w)
  PROVE  TrailExplainsStatus' /\ PendingExplained'
<1> DEFINE r == [step |-> "ready", op |-> "decision", id |-> req[w].id,
                 seenD |-> req[w].seenD, newD |-> req[w].newD,
                 seenC |-> case, newC |-> CaseAfter(req[w].op, case, req[w].newD),
                 records |-> req[w].records, events |-> req[w].events]
<1>1. req[w] # Idle /\ req[w].op \in DecisionOps
  BY DEF LoadCase, Idle, TrailInv, IInv, TypeOK, Request, DecisionOps
<1>2. Explained(req[w], events)
  BY <1>1 DEF TrailInv, PendingExplained
<1>3. Explained(r, events)
  BY <1>1, <1>2 DEF Explained
<1>4. req' = [req EXCEPT ![w] = r] /\ UNCHANGED <<decisions, records, events>>
  BY DEF LoadCase
<1> HIDE DEF r
<1> QED
  BY <1>3, <1>4, QuietTrail

\* While a commit adds to the audit, the other requests keep their explanations.
LEMMA OthersExplained ==
  ASSUME TrailInv, NEW w \in Workers, req' = [req EXCEPT ![w] = Idle],
         events \subseteq events'
  PROVE  PendingExplained'
<1> SUFFICES ASSUME NEW v \in Workers, req'[v] # Idle PROVE Explained(req'[v], events')
  BY DEF PendingExplained
<1>1. Explained(req'[v], events)
  BY DEF TrailInv, IInv, TypeOK, PendingExplained
<1> QED
  BY <1>1, ExplanationsStay

\* The row ends with the status its last writer gave it, and that writer's event comes with
\* it; the other rows keep what explained them.
LEMMA CommitDecisionTrail ==
  ASSUME TrailInv, NEW w \in Workers, CommitDecision(w)
  PROVE  TrailExplainsStatus' /\ PendingExplained'
<1> DEFINE r == req[w]
           i == r.id
<1>1. /\ r \in [step : {"ready"}, op : {"decision"}, id : Ids,
                seenD : Decision, newD : Decision, seenC : Case, newC : Case,
                records : SUBSET Record, events : SUBSET (EventTypes \X Ids)]
      /\ r # Idle
  BY DEF TrailInv, IInv, TypeOK, CommitDecision, Request, Idle
<1>2. Explained(r, events) /\ r.op \in DecisionOps
  BY <1>1 DEF TrailInv, PendingExplained, DecisionOps
<1>3. i \in DOMAIN decisions
  BY <1>1, <1>2 DEF TrailInv, IInv, PendingSigned
<1>4. decisions[i] \in Decision
  BY <1>3 DEF TrailInv, IInv, TypeOK
<1>5. /\ decisions' = [decisions EXCEPT ![i] = MergeDecision(decisions[i], r.seenD, r.newD)]
      /\ records' = records \cup r.records /\ events' = events \cup r.events
  BY DEF CommitDecision
<1>6. /\ DOMAIN decisions' = DOMAIN decisions
      /\ \A j \in DOMAIN decisions : j # i => decisions'[j] = decisions[j]
      /\ decisions'[i].status = Column(decisions[i].status, r.seenD.status, r.newD.status)
  BY <1>3, <1>4, <1>5 DEF TrailInv, IInv, TypeOK, MergeDecision, Decision
<1> HIDE DEF r, i
<1>7. ASSUME NEW j \in DOMAIN decisions
      PROVE  \/ <<"dashboard", j>> \in events'
             \/ /\ decisions'[j].status # "draft" => <<"submitted", j>> \in events'
                /\ decisions'[j].status \in {"approved", "rejected"} =>
                     <<decisions'[j].status, j>> \in events'
                /\ decisions'[j].status = "approved" => \E q \in records' : q.decision = j
  <2>1. CASE j # i
    BY <1>5, <1>6, <2>1 DEF TrailInv, TrailExplainsStatus
  <2>2. CASE j = i /\ <<"dashboard", i>> \in r.events
    BY <1>5, <2>2
  <2>3. CASE j = i /\ <<"dashboard", i>> \notin r.events
    <3>1. decisions'[i].status = r.newD.status
      BY <1>2, <1>6, <2>3 DEF Explained, Column, i
    <3> QED
      BY <1>2, <1>5, <2>3, <3>1 DEF Explained, i
  <2> QED
    BY <2>1, <2>2, <2>3
<1>8. TrailExplainsStatus'
  BY <1>6, <1>7 DEF TrailExplainsStatus
<1>9. PendingExplained'
  BY <1>5, OthersExplained DEF CommitDecision
<1> QED
  BY <1>8, <1>9

LEMMA CommitCreateTrail ==
  ASSUME TrailInv, NEW w \in Workers, CommitCreate(w)
  PROVE  TrailExplainsStatus' /\ PendingExplained'
<1>1. req[w] # Idle /\ req[w].op = "create" /\ req[w].newD \in Decision
  BY DEF TrailInv, IInv, TypeOK, CommitCreate, Request, Idle
<1>2. decisions \in Seq(Decision) /\ decisions' = Append(decisions, req[w].newD)
  BY DEF TrailInv, IInv, TypeOK, CommitCreate
<1>3. /\ DOMAIN decisions' = DOMAIN decisions \cup {Len(decisions) + 1}
      /\ \A j \in DOMAIN decisions : decisions'[j] = decisions[j]
      /\ decisions'[Len(decisions) + 1].status = "draft"
  <2>1. req[w].newD.status = "draft"
    BY <1>1 DEF TrailInv, PendingExplained, Explained
  <2> QED
    BY <1>1, <1>2, <2>1
<1>4. events \subseteq events' /\ records' = records
  BY DEF CommitCreate
<1>5. TrailExplainsStatus'
  BY <1>3, <1>4 DEF TrailInv, TrailExplainsStatus
<1> QED
  BY <1>4, <1>5, OthersExplained DEF CommitCreate

LEMMA NextTrail == TrailInv /\ [Next]_vars => TrailInv'
<1> SUFFICES ASSUME TrailInv, [Next]_vars PROVE TrailExplainsStatus' /\ PendingExplained'
  BY NextIInv DEF TrailInv
<1>1. ASSUME NEW w \in Workers, LoadCase(w) \/ Abort(w) \/ CommitCase(w)
      PROVE  TrailExplainsStatus' /\ PendingExplained'
  <2>1. CASE Abort(w)
    BY <2>1, QuietTrail DEF Abort
  <2>2. CASE CommitCase(w)
    BY <2>2, QuietTrail DEF CommitCase
  <2> QED
    BY <1>1, <2>1, <2>2, LoadCaseTrail
<1>2. CASE UNCHANGED vars
  BY <1>2 DEF vars, TrailInv, TrailExplainsStatus, PendingExplained, Explained
<1> QED
  BY <1>1, <1>2, DecisionHandlerTrail, CaseHandlerTrail, DashboardHandlerTrail,
     CommitDecisionTrail, CommitCreateTrail DEF Next, Finish

\* However requests overlap and whichever endpoint they come through, the events and the
\* DecisionRecords explain the status of every decision (TrailExplainsStatus).
THEOREM TrailAlwaysExplains == Spec => []TrailExplainsStatus
<1>1. Init => TrailInv
  BY InitIInv DEF Init, TrailInv, TrailExplainsStatus, PendingExplained
<1>2. TrailInv => TrailExplainsStatus
  BY DEF TrailInv
<1> QED
  BY <1>1, <1>2, NextTrail, PTL DEF Spec
-----------------------------------------------------------------------------
(* The contract.  With one request at a time, and the dashboard's approval *)
(* items out of use, CaseGovernance implements MakerChecker: the commits   *)
(* of the decision service are the contract's steps, all else stutters.    *)

OneAtATime == \A v, w \in Workers : v = w

\* The variables of MakerChecker, as CaseGovernance defines them.
Phase == [i \in Ids |-> IF i \in DOMAIN decisions THEN decisions[i].status ELSE "none"]
Maker == [i \in Ids |-> IF i \in DOMAIN decisions THEN decisions[i].createdBy ELSE None]
Checker == [i \in Ids |-> IF i \in DOMAIN decisions THEN decisions[i].approver ELSE None]
Signed == [i \in Ids |-> {r.approver : r \in {q \in records : q.decision = i}}]

\* What is left to commit is a step of the contract from the row as it stands: nobody else
\* has written it since it was loaded.
Faithful(r) ==
  /\ r.seenD = decisions[r.id]
  /\ \/ /\ r.seenD.status = "draft"
        /\ r.newD = [r.seenD EXCEPT !.status = "submitted"]
        /\ r.records = {}
     \/ \E u \in Users, p \in Dispositions :
          /\ r.seenD.status = "submitted"
          /\ u # r.seenD.createdBy
          /\ r.newD = [r.seenD EXCEPT !.status = "approved", !.approver = u]
          /\ r.records = {[decision |-> r.id, approver |-> u, disposition |-> p]}
     \/ \E u \in Users :
          /\ r.seenD.status = "submitted"
          /\ r.newD = [r.seenD EXCEPT !.status = "rejected", !.approver = u]
          /\ r.records = {}

RequestFaithful(r) ==
  /\ r.op = "create" => r.newD.status = "draft" /\ r.newD.approver = None
  /\ r.op \in DecisionOps => Faithful(r)

ContractInv ==
  /\ IInv
  /\ \A w \in Workers : req[w] # Idle => RequestFaithful(req[w])
  /\ \A r \in records : decisions[r.decision].status = "approved"

\* The two conjuncts of the invariant beside IInv, and what the step is to the contract.
ContractStep ==
  /\ \A w \in Workers : req'[w] # Idle => RequestFaithful(req[w])'
  /\ \A r \in records' : decisions'[r.decision].status = "approved"
  /\ [MakerChecker!Next]_(MakerChecker!vars)

\* A step that leaves rows and records alone is a stutter of the contract.
LEMMA QuietContract ==
  ASSUME OneAtATime, ContractInv, NEW w \in Workers, NEW r,
         req' = [req EXCEPT ![w] = r], UNCHANGED <<decisions, records>>,
         r # Idle => RequestFaithful(r)
  PROVE  ContractStep
<1>1. ASSUME NEW v \in Workers, req'[v] # Idle PROVE RequestFaithful(req[v])'
  <2>1. v = w
    BY DEF OneAtATime
  <2>2. req'[v] = r
    BY <2>1 DEF ContractInv, IInv, TypeOK
  <2> QED
    BY <1>1, <2>2 DEF RequestFaithful, Faithful
<1>2. UNCHANGED MakerChecker!vars
  BY DEF MakerChecker!vars
<1>3. \A q \in records' : decisions'[q.decision].status = "approved"
  BY DEF ContractInv
<1> QED
  BY <1>1, <1>2, <1>3 DEF ContractStep

LEMMA DecisionHandlerContract ==
  ASSUME OneAtATime, ContractInv, NEW w \in Workers, DecisionHandler(w)
  PROVE  ContractStep
<1>1. \A i \in DOMAIN decisions : decisions[i] \in Decision
  BY DEF ContractInv, IInv, TypeOK
<1>2. CASE CreateDecision(w)
  <2>1. PICK u \in Users, p \in Dispositions :
          Start(w, [step |-> "ready", op |-> "create", newD |-> NewDecision(u, p)])
    BY <1>2 DEF CreateDecision
  <2>2. RequestFaithful([step |-> "ready", op |-> "create", newD |-> NewDecision(u, p)])
    BY DEF RequestFaithful, NewDecision, DecisionOps
  <2> QED
    BY <2>1, <2>2, QuietContract DEF Start
<1>3. CASE SubmitDecision(w)
  <2>1. PICK i \in DOMAIN decisions :
          /\ InStatus(i, "draft")
          /\ Start(w, [step |-> "loaded", op |-> "submit", id |-> i, seenD |-> decisions[i],
                       newD |-> [decisions[i] EXCEPT !.status = "submitted"],
                       records |-> {}, events |-> {<<"submitted", i>>}])
    BY <1>3 DEF SubmitDecision
  <2>2. RequestFaithful([step |-> "loaded", op |-> "submit", id |-> i, seenD |-> decisions[i],
                         newD |-> [decisions[i] EXCEPT !.status = "submitted"],
                         records |-> {}, events |-> {<<"submitted", i>>}])
    BY <2>1 DEF RequestFaithful, Faithful, InStatus
  <2> QED
    BY <2>1, <2>2, QuietContract DEF Start
<1>4. CASE ApproveDecision(w)
  <2>1. PICK i \in DOMAIN decisions, u \in Approvers :
          /\ InStatus(i, "submitted")
          /\ FourEyesCheck(u, i)
          /\ Start(w, [step |-> "loaded", op |-> "approve", id |-> i, seenD |-> decisions[i],
                       newD |-> [decisions[i] EXCEPT !.status = "approved", !.approver = u],
                       records |-> ApprovalRecords(u, i), events |-> {<<"approved", i>>}])
    BY <1>4 DEF ApproveDecision
  <2>2. u \in Users /\ decisions[i].disposition \in Dispositions
    BY <1>1, GovernanceAssumption DEF Decision
  <2>3. RequestFaithful([step |-> "loaded", op |-> "approve", id |-> i, seenD |-> decisions[i],
                         newD |-> [decisions[i] EXCEPT !.status = "approved", !.approver = u],
                         records |-> ApprovalRecords(u, i), events |-> {<<"approved", i>>}])
    BY <2>1, <2>2 DEF RequestFaithful, Faithful, InStatus, FourEyesCheck, ApprovalRecords
  <2> QED
    BY <2>1, <2>3, QuietContract DEF Start
<1>5. CASE RejectDecision(w)
  <2>1. PICK i \in DOMAIN decisions, u \in Approvers :
          /\ InStatus(i, "submitted")
          /\ Start(w, [step |-> "loaded", op |-> "reject", id |-> i, seenD |-> decisions[i],
                       newD |-> [decisions[i] EXCEPT !.status = "rejected", !.approver = u],
                       records |-> {}, events |-> {<<"rejected", i>>}])
    BY <1>5 DEF RejectDecision
  <2>2. RequestFaithful([step |-> "loaded", op |-> "reject", id |-> i, seenD |-> decisions[i],
                         newD |-> [decisions[i] EXCEPT !.status = "rejected", !.approver = u],
                         records |-> {}, events |-> {<<"rejected", i>>}])
    BY <2>1, GovernanceAssumption DEF RequestFaithful, Faithful, InStatus
  <2> QED
    BY <2>1, <2>2, QuietContract DEF Start
<1> QED
  BY <1>2, <1>3, <1>4, <1>5 DEF DecisionHandler

\* The contract says nothing about the case.
LEMMA StartCaseContract ==
  ASSUME OneAtATime, ContractInv, NEW w \in Workers, NEW op \in {"case", "dashboard_close"},
         NEW new, StartCaseAs(w, op, new)
  PROVE  ContractStep
<1>1. RequestFaithful([step |-> "ready", op |-> op, seenC |-> case, newC |-> new])
  BY DEF RequestFaithful, DecisionOps
<1> QED
  BY <1>1, QuietContract DEF StartCaseAs, Start

LEMMA CaseHandlerContract ==
  ASSUME OneAtATime, ContractInv, NEW w \in Workers, CaseHandler(w)
  PROVE  ContractStep
<1>1. CASE UpdateCase(w)
  BY <1>1, StartCaseContract DEF UpdateCase, StartCase
<1>2. CASE AssignCase(w)
  BY <1>2, StartCaseContract DEF AssignCase, StartCase
<1>3. CASE EscalateCase(w)
  BY <1>3, StartCaseContract DEF EscalateCase, StartCase
<1>4. CASE CloseCase(w)
  BY <1>4, StartCaseContract DEF CloseCase, StartCase
<1>5. CASE PrepareSar(w)
  BY <1>5, StartCaseContract DEF PrepareSar, StartCase
<1>6. CASE FileSar(w)
  BY <1>6, StartCaseContract DEF FileSar, StartCase
<1> QED
  BY <1>1, <1>2, <1>3, <1>4, <1>5, <1>6 DEF CaseHandler

\* The approval items are out of use: no other work item touches a decision.
LEMMA DashboardHandlerContract ==
  ASSUME OneAtATime, "approval_items" \notin Surfaces, ContractInv,
         NEW w \in Workers, DashboardHandler(w)
  PROVE  ContractStep
<1>1. CASE DashboardAssign(w)
  BY <1>1, StartCaseContract DEF DashboardAssign, StartCase
<1>2. CASE DashboardEscalate(w)
  BY <1>2, StartCaseContract DEF DashboardEscalate, StartCase
<1>3. CASE DashboardInProgress(w)
  BY <1>3, StartCaseContract DEF DashboardInProgress, StartCase
<1>4. CASE DashboardClose(w)
  BY <1>4, StartCaseContract DEF DashboardClose, StartCase
<1>5. CASE DashboardReviewClose(w)
  BY <1>5, StartCaseContract DEF DashboardReviewClose, StartCase
<1> QED
  BY <1>1, <1>2, <1>3, <1>4, <1>5
     DEF DashboardHandler, DashboardApprove, DashboardReturn

LEMMA LoadCaseContract ==
  ASSUME OneAtATime, ContractInv, NEW w \in Workers, LoadCase(w)
  PROVE  ContractStep
<1> DEFINE r == [step |-> "ready", op |-> "decision", id |-> req[w].id,
                 seenD |-> req[w].seenD, newD |-> req[w].newD,
                 seenC |-> case, newC |-> CaseAfter(req[w].op, case, req[w].newD),
                 records |-> req[w].records, events |-> req[w].events]
<1>1. req[w] # Idle /\ req[w].op \in DecisionOps
  BY DEF LoadCase, Idle, ContractInv, IInv, TypeOK, Request, DecisionOps
<1>2. Faithful(req[w])
  BY <1>1 DEF ContractInv, RequestFaithful
<1>3. RequestFaithful(r)
  BY <1>2 DEF RequestFaithful, Faithful
<1>4. req' = [req EXCEPT ![w] = r] /\ UNCHANGED <<decisions, records>>
  BY DEF LoadCase
<1> HIDE DEF r
<1> QED
  BY <1>3, <1>4, QuietContract

\* The commit of a request that nobody overtook is the contract's Submit, Sign or Reject.
LEMMA CommitDecisionContract ==
  ASSUME OneAtATime, ContractInv, NEW w \in Workers, CommitDecision(w)
  PROVE  ContractStep
<1> DEFINE r == req[w]
<1>1. /\ r \in [step : {"ready"}, op : {"decision"}, id : Ids,
                seenD : Decision, newD : Decision, seenC : Case, newC : Case,
                records : SUBSET Record, events : SUBSET (EventTypes \X Ids)]
      /\ r # Idle /\ r.op \in DecisionOps
  BY DEF ContractInv, IInv, TypeOK, CommitDecision, Request, Idle, DecisionOps
<1>2. Faithful(r)
  BY <1>1 DEF ContractInv, RequestFaithful
<1>3. PICK i \in Ids : i = r.id /\ i \in DOMAIN decisions /\ decisions[i] \in Decision
  BY <1>1 DEF ContractInv, IInv, PendingSigned, TypeOK
<1>4. /\ decisions' = [decisions EXCEPT ![i] = MergeDecision(decisions[i], r.seenD, r.newD)]
      /\ records' = records \cup r.records
  BY <1>3 DEF CommitDecision
<1>5. /\ DOMAIN decisions' = DOMAIN decisions
      /\ \A j \in DOMAIN decisions : j # i => decisions'[j] = decisions[j]
      /\ decisions'[i].createdBy = decisions[i].createdBy
      /\ decisions'[i].status = r.newD.status
      /\ decisions'[i].approver = r.newD.approver
  <2>1. r.seenD = decisions[i]
    BY <1>2, <1>3 DEF Faithful
  <2>2. DOMAIN decisions' = DOMAIN decisions /\ decisions'[i] = MergeDecision(decisions[i], r.seenD, r.newD)
        /\ \A j \in DOMAIN decisions : j # i => decisions'[j] = decisions[j]
    BY <1>3, <1>4 DEF ContractInv, IInv, TypeOK
  <2> QED
    BY <1>3, <2>1, <2>2 DEF MergeDecision, Column, Decision
<1>6. \A q \in records : q.decision \in DOMAIN decisions /\ decisions[q.decision].status = "approved"
  BY DEF ContractInv, IInv, RecordsFourEyes
<1>7. \A v \in Workers : req'[v] = Idle
  BY DEF CommitDecision, OneAtATime, ContractInv, IInv, TypeOK
<1> HIDE DEF r
<1>8. /\ Maker' = Maker
      /\ Phase' = [Phase EXCEPT ![i] = r.newD.status]
      /\ Checker' = [Checker EXCEPT ![i] = r.newD.approver]
      /\ Phase[i] = decisions[i].status /\ Maker[i] = decisions[i].createdBy
      /\ Checker[i] = decisions[i].approver
  BY <1>3, <1>5 DEF Maker, Phase, Checker
<1>9. CASE r.seenD.status = "draft" /\ r.records = {}
           /\ r.newD = [r.seenD EXCEPT !.status = "submitted"]
  <2>1. r.newD.status = "submitted" /\ r.newD.approver = decisions[i].approver
        /\ decisions[i].status = "draft"
    BY <1>1, <1>2, <1>3, <1>9 DEF Faithful, Decision
  <2>2. Checker' = Checker
    BY <1>3, <1>5, <2>1 DEF Checker
  <2>5. records' = records
    BY <1>4, <1>9
  <2>6. Signed' = Signed
    BY <2>5 DEF Signed
  <2>3. MakerChecker!Submit(i)
    BY <1>8, <2>1, <2>2, <2>6 DEF MakerChecker!Submit, Phase, Maker, Checker, Signed
  <2>4. \A q \in records' : decisions'[q.decision].status = "approved"
    BY <1>5, <1>6, <2>1, <2>5
  <2>7. MakerChecker!Next
    BY <1>3, <2>3 DEF MakerChecker!Next
  <2> QED
    BY <1>7, <2>4, <2>7 DEF ContractStep
<1>10. ASSUME NEW u \in Users, NEW p \in Dispositions,
              r.seenD.status = "submitted", u # r.seenD.createdBy,
              r.newD = [r.seenD EXCEPT !.status = "approved", !.approver = u],
              r.records = {[decision |-> r.id, approver |-> u, disposition |-> p]}
       PROVE  ContractStep
  <2>1. r.newD.status = "approved" /\ r.newD.approver = u
        /\ decisions[i].status = "submitted" /\ u # decisions[i].createdBy
    BY <1>1, <1>2, <1>3, <1>10 DEF Faithful, Decision
  <2>2. Signed' = [Signed EXCEPT ![i] = {u}]
    <3>1. \A q \in records : q.decision # i
      BY <1>6, <2>1
    <3>2. records' = records \cup {[decision |-> i, approver |-> u, disposition |-> p]}
      BY <1>3, <1>4, <1>10
    <3>3. {r0.approver : r0 \in {q \in records' : q.decision = i}} = {u}
      <4> DEFINE new == [decision |-> i, approver |-> u, disposition |-> p]
      <4>1. new.decision = i /\ new.approver = u
        OBVIOUS
      <4> HIDE DEF new
      <4>2. {q \in records' : q.decision = i} = {new}
        BY <3>1, <3>2, <4>1 DEF new
      <4> QED
        BY <4>1, <4>2
    <3>4. ASSUME NEW j \in Ids, j # i
          PROVE  {q \in records' : q.decision = j} = {q \in records : q.decision = j}
      <4>1. \A q : q.decision = j => (q \in records' <=> q \in records)
        BY <3>2, <3>4
      <4> QED
        BY <4>1
    <3> QED
      BY <1>3, <3>3, <3>4 DEF Signed
  <2>3. MakerChecker!Sign(i, u)
    BY <1>8, <2>1, <2>2 DEF MakerChecker!Sign, Phase, Maker, Checker, Signed
  <2>4. \A q \in records' : decisions'[q.decision].status = "approved"
    <3>1. ASSUME NEW q \in records PROVE decisions'[q.decision].status = "approved"
      BY <1>5, <1>6, <2>1
    <3>2. \A q \in r.records : q.decision = i
      BY <1>3, <1>10
    <3> QED
      BY <1>4, <1>5, <2>1, <3>1, <3>2
  <2>7. MakerChecker!Next
    BY <1>3, <2>3 DEF MakerChecker!Next
  <2> QED
    BY <1>7, <2>4, <2>7 DEF ContractStep
<1>11. ASSUME NEW u \in Users, r.seenD.status = "submitted", r.records = {},
              r.newD = [r.seenD EXCEPT !.status = "rejected", !.approver = u]
       PROVE  ContractStep
  <2>1. r.newD.status = "rejected" /\ r.newD.approver = u /\ decisions[i].status = "submitted"
    BY <1>1, <1>2, <1>3, <1>11 DEF Faithful, Decision
  <2>2. Signed' = Signed
    BY <1>4, <1>11 DEF Signed
  <2>3. MakerChecker!Reject(i, u)
    BY <1>8, <2>1, <2>2 DEF MakerChecker!Reject, Phase, Maker, Checker, Signed
  <2>4. \A q \in records' : decisions'[q.decision].status = "approved"
    BY <1>4, <1>5, <1>6, <1>11, <2>1
  <2>7. MakerChecker!Next
    BY <1>3, <2>3 DEF MakerChecker!Next
  <2> QED
    BY <1>7, <2>4, <2>7 DEF ContractStep
<1> QED
  BY <1>2, <1>9, <1>10, <1>11 DEF Faithful

\* A new row is the contract's Draft.
LEMMA CommitCreateContract ==
  ASSUME OneAtATime, ContractInv, NEW w \in Workers, CommitCreate(w)
  PROVE  ContractStep
<1> DEFINE d == req[w].newD
<1>1. d \in Decision /\ d.status = "draft" /\ d.approver = None
  <2>1. req[w] # Idle /\ req[w].op = "create" /\ d \in Decision
    BY DEF ContractInv, IInv, TypeOK, CommitCreate, Request, Idle
  <2> QED
    BY <2>1 DEF ContractInv, RequestFaithful
<1>2. /\ decisions \in Seq(Decision) /\ decisions' = Append(decisions, d)
      /\ Len(decisions) < MaxDecisions /\ records' = records
  BY DEF ContractInv, IInv, TypeOK, CommitCreate
<1>3. PICK n \in Ids :
        /\ DOMAIN decisions' = DOMAIN decisions \cup {n} /\ n \notin DOMAIN decisions
        /\ \A j \in DOMAIN decisions : decisions'[j] = decisions[j]
        /\ decisions'[n] = d
  <2>1. /\ Len(decisions) + 1 \in Ids
        /\ DOMAIN decisions' = DOMAIN decisions \cup {Len(decisions) + 1}
        /\ Len(decisions) + 1 \notin DOMAIN decisions
        /\ \A j \in DOMAIN decisions : decisions'[j] = decisions[j]
        /\ decisions'[Len(decisions) + 1] = d
    BY <1>1, <1>2, GovernanceAssumption DEF Ids
  <2> QED
    BY <2>1
<1>4. \A q \in records : q.decision \in DOMAIN decisions /\ decisions[q.decision].status = "approved"
  BY DEF ContractInv, IInv, RecordsFourEyes
<1>5. \A v \in Workers : req'[v] = Idle
  BY DEF CommitCreate, OneAtATime, ContractInv, IInv, TypeOK
<1>6. PICK u \in Users : u = d.createdBy
  BY <1>1 DEF Decision
<1> HIDE DEF d
<1>7. /\ Phase[n] = "none"
      /\ Phase' = [Phase EXCEPT ![n] = "draft"]
      /\ Maker' = [Maker EXCEPT ![n] = u]
      /\ Checker' = Checker /\ Signed' = Signed
  <2>1. Phase[n] = "none" /\ Phase' = [Phase EXCEPT ![n] = "draft"]
    BY <1>1, <1>3 DEF Phase
  <2>2. Maker' = [Maker EXCEPT ![n] = u]
    BY <1>3, <1>6 DEF Maker
  <2>3. Checker' = Checker
    BY <1>1, <1>3 DEF Checker
  <2>4. Signed' = Signed
    BY <1>2 DEF Signed
  <2> QED
    BY <2>1, <2>2, <2>3, <2>4
<1>8. MakerChecker!Draft(n, u)
  BY <1>7 DEF MakerChecker!Draft, Phase, Maker, Checker, Signed
<1>9. \A q \in records' : decisions'[q.decision].status = "approved"
  BY <1>2, <1>3, <1>4
<1>10. MakerChecker!Next
  BY <1>3, <1>6, <1>8 DEF MakerChecker!Next
<1> QED
  BY <1>5, <1>9, <1>10 DEF ContractStep

LEMMA NextContract ==
  ASSUME OneAtATime, "approval_items" \notin Surfaces, ContractInv, [Next]_vars
  PROVE  ContractStep
<1>1. ASSUME NEW w \in Workers, CaseHandler(w) PROVE ContractStep
  BY <1>1, CaseHandlerContract
<1>2. ASSUME NEW w \in Workers, DashboardHandler(w) PROVE ContractStep
  BY <1>2, DashboardHandlerContract
<1>3. ASSUME NEW w \in Workers, Abort(w) \/ CommitCase(w) PROVE ContractStep
  BY <1>3, QuietContract DEF Abort, CommitCase
<1>4. CASE UNCHANGED vars
  <2>1. UNCHANGED MakerChecker!vars
    BY <1>4 DEF vars, MakerChecker!vars
  <2>2. ASSUME NEW w \in Workers, req'[w] # Idle PROVE RequestFaithful(req[w])'
    <3>1. RequestFaithful(req[w])
      BY <1>4, <2>2 DEF vars, ContractInv
    <3> QED
      BY <1>4, <3>1 DEF vars, RequestFaithful, Faithful
  <2>3. \A r \in records' : decisions'[r.decision].status = "approved"
    BY <1>4 DEF vars, ContractInv
  <2> QED
    BY <2>1, <2>2, <2>3 DEF ContractStep
<1> QED
  BY <1>1, <1>2, <1>3, <1>4, DecisionHandlerContract, LoadCaseContract, CommitDecisionContract,
     CommitCreateContract DEF Next, Finish

LEMMA InitContract == Init => ContractInv /\ MakerChecker!Init
<1> SUFFICES ASSUME Init PROVE ContractInv /\ MakerChecker!Init
  OBVIOUS
<1>1. ContractInv
  BY InitIInv DEF Init, ContractInv
<1>2. decisions = <<>> /\ records = {}
  BY DEF Init
<1>3. DOMAIN decisions = {}
  BY <1>2
<1> QED
  BY <1>1, <1>2, <1>3 DEF MakerChecker!Init

\* One request at a time, and with the approval items of the dashboard out of use, the
\* decision service keeps the maker-checker contract (Contract), whatever the other handlers
\* do to the case.
THEOREM ServiceKeepsContract ==
  ASSUME OneAtATime, "approval_items" \notin Surfaces
  PROVE  Spec => Contract
<1>1. ContractInv /\ [Next]_vars => ContractInv' /\ [MakerChecker!Next]_(MakerChecker!vars)
  BY NextContract, NextIInv DEF ContractInv, ContractStep
<1> QED
  BY <1>1, InitContract, PTL DEF Spec, Contract, MakerChecker!Spec

-----------------------------------------------------------------------------
(* One request at a time, on every endpoint: 4-eyes on the row, and the    *)
(* case that an approval closes.                                           *)

\* The case that an approval is about to write, loaded after its decision.
Closing(r) ==
  IF r.step = "loaded" THEN r.op = "approve"
  ELSE r.seenC = case /\ r.newC = ApprovedCase(case, r.newD)

\* A request that nobody can overtake holds the row as it stands, an approver other than its
\* creator, and the closed case.
Solo(r) ==
  /\ r.op = "create" => r.newD.status = "draft"
  /\ r.op \in DecisionOps =>
       /\ r.seenD = decisions[r.id]
       /\ r.newD.disposition = r.seenD.disposition
       /\ r.newD.status = "approved" =>
            /\ r.newD.approver \notin {None, r.seenD.createdBy}
            /\ "approval_items" \notin Surfaces => Closing(r)

SoloInv ==
  /\ IInv
  /\ FourEyes
  /\ \A w \in Workers : req[w] # Idle => Solo(req[w])

\* What ApprovalCloses says of a step.
ApprovalClosesCase ==
  \A i \in DOMAIN decisions :
    decisions[i].status # "approved" /\ decisions'[i].status = "approved" =>
      /\ case'.status = "closed"
      /\ case'.closedAt
      /\ case'.outcome = decisions[i].disposition

SoloStep ==
  /\ FourEyes'
  /\ \A w \in Workers : req'[w] # Idle => Solo(req[w])'
  /\ "approval_items" \notin Surfaces => ApprovalClosesCase

LEMMA QuietSolo ==
  ASSUME OneAtATime, SoloInv, NEW w \in Workers, NEW r,
         req' = [req EXCEPT ![w] = r], UNCHANGED <<decisions, case>>,
         r # Idle => Solo(r)
  PROVE  SoloStep
<1>1. ASSUME NEW v \in Workers, req'[v] # Idle PROVE Solo(req[v])'
  <2>1. v = w
    BY DEF OneAtATime
  <2>2. req'[v] = r
    BY <2>1 DEF SoloInv, IInv, TypeOK
  <2> QED
    BY <1>1, <2>2 DEF Solo, Closing, ApprovedCase
<1>2. FourEyes' /\ ApprovalClosesCase
  BY DEF SoloInv, FourEyes, ApprovalClosesCase
<1> QED
  BY <1>1, <1>2 DEF SoloStep

LEMMA DecisionHandlerSolo ==
  ASSUME OneAtATime, SoloInv, NEW w \in Workers, DecisionHandler(w)
  PROVE  SoloStep
<1>1. \A i \in DOMAIN decisions : decisions[i] \in Decision
  BY DEF SoloInv, IInv, TypeOK
<1>2. CASE CreateDecision(w)
  <2>1. PICK u \in Users, p \in Dispositions :
          Start(w, [step |-> "ready", op |-> "create", newD |-> NewDecision(u, p)])
    BY <1>2 DEF CreateDecision
  <2>2. Solo([step |-> "ready", op |-> "create", newD |-> NewDecision(u, p)])
    BY DEF Solo, NewDecision, DecisionOps
  <2> QED
    BY <2>1, <2>2, QuietSolo DEF Start
<1>3. ASSUME NEW i \in DOMAIN decisions, NEW op \in {"submit", "approve", "reject"}, NEW new,
             NEW recs, NEW evs, new.disposition = decisions[i].disposition,
             new.status = "approved" =>
               op = "approve" /\ new.approver \notin {None, decisions[i].createdBy},
             Start(w, [step |-> "loaded", op |-> op, id |-> i, seenD |-> decisions[i],
                       newD |-> new, records |-> recs, events |-> evs])
      PROVE  SoloStep
  <2>1. Solo([step |-> "loaded", op |-> op, id |-> i, seenD |-> decisions[i],
              newD |-> new, records |-> recs, events |-> evs])
    BY <1>3 DEF Solo, Closing
  <2> QED
    BY <1>3, <2>1, QuietSolo DEF Start
<1>4. CASE SubmitDecision(w)
  <2>1. PICK i \in DOMAIN decisions :
          Start(w, [step |-> "loaded", op |-> "submit", id |-> i, seenD |-> decisions[i],
                    newD |-> [decisions[i] EXCEPT !.status = "submitted"],
                    records |-> {}, events |-> {<<"submitted", i>>}])
    BY <1>4 DEF SubmitDecision
  <2> PICK new : new = [decisions[i] EXCEPT !.status = "submitted"]
    OBVIOUS
  <2>2. new.disposition = decisions[i].disposition /\ new.status = "submitted"
    BY <1>1 DEF Decision
  <2> QED
    BY <1>3, <2>1, <2>2
<1>5. CASE ApproveDecision(w)
  <2>1. PICK i \in DOMAIN decisions, u \in Approvers :
          /\ FourEyesCheck(u, i)
          /\ Start(w, [step |-> "loaded", op |-> "approve", id |-> i, seenD |-> decisions[i],
                       newD |-> [decisions[i] EXCEPT !.status = "approved", !.approver = u],
                       records |-> ApprovalRecords(u, i), events |-> {<<"approved", i>>}])
    BY <1>5 DEF ApproveDecision
  <2> PICK new, recs :
        /\ new = [decisions[i] EXCEPT !.status = "approved", !.approver = u]
        /\ recs = ApprovalRecords(u, i)
    OBVIOUS
  <2>2. new.disposition = decisions[i].disposition /\ new.approver = u
    BY <1>1 DEF Decision
  <2>3. u \notin {None, decisions[i].createdBy}
    BY <2>1, GovernanceAssumption DEF FourEyesCheck
  <2> QED
    BY <1>3, <2>1, <2>2, <2>3
<1>6. CASE RejectDecision(w)
  <2>1. PICK i \in DOMAIN decisions, u \in Approvers :
          Start(w, [step |-> "loaded", op |-> "reject", id |-> i, seenD |-> decisions[i],
                    newD |-> [decisions[i] EXCEPT !.status = "rejected", !.approver = u],
                    records |-> {}, events |-> {<<"rejected", i>>}])
    BY <1>6 DEF RejectDecision
  <2> PICK new : new = [decisions[i] EXCEPT !.status = "rejected", !.approver = u]
    OBVIOUS
  <2>2. new.disposition = decisions[i].disposition /\ new.status = "rejected"
    BY <1>1 DEF Decision
  <2> QED
    BY <1>3, <2>1, <2>2
<1> QED
  BY <1>2, <1>4, <1>5, <1>6 DEF DecisionHandler

LEMMA StartCaseSolo ==
  ASSUME OneAtATime, SoloInv, NEW w \in Workers, NEW op \in {"case", "dashboard_close"},
         NEW new, StartCaseAs(w, op, new)
  PROVE  SoloStep
<1>1. Solo([step |-> "ready", op |-> op, seenC |-> case, newC |-> new])
  BY DEF Solo, DecisionOps
<1> QED
  BY <1>1, QuietSolo DEF StartCaseAs, Start

LEMMA CaseHandlerSolo ==
  ASSUME OneAtATime, SoloInv, NEW w \in Workers, CaseHandler(w)
  PROVE  SoloStep
BY StartCaseSolo DEF CaseHandler, UpdateCase, AssignCase, EscalateCase, CloseCase, PrepareSar,
                     FileSar, StartCase

\* The dashboard settles a decision from any status, but does not let its creator approve it.
LEMMA DashboardHandlerSolo ==
  ASSUME OneAtATime, SoloInv, NEW w \in Workers, DashboardHandler(w)
  PROVE  SoloStep
<1>1. \A i \in DOMAIN decisions : decisions[i] \in Decision
  BY DEF SoloInv, IInv, TypeOK
<1>2. ASSUME NEW i \in DOMAIN decisions, NEW u \in Users,
             NEW status \in {"approved", "rejected"}, "approval_items" \in Surfaces,
             status = "approved" => u # decisions[i].createdBy,
             StartDashboardDecision(w, i, status, u)
      PROVE  SoloStep
  <2> DEFINE new == [decisions[i] EXCEPT !.status = status, !.approver = u]
             r == [step |-> "ready", op |-> "decision", id |-> i, seenD |-> decisions[i],
                   newD |-> new, seenC |-> case, newC |-> case,
                   records |-> {}, events |-> {<<"dashboard", i>>}]
  <2>1. /\ new.disposition = decisions[i].disposition /\ new.status = status
        /\ new.approver = u
    BY <1>1 DEF Decision
  <2>2. Start(w, r)
    BY <1>2 DEF StartDashboardDecision
  <2> HIDE DEF new
  <2>3. Solo(r)
    BY <1>2, <2>1, GovernanceAssumption DEF Solo
  <2> HIDE DEF r
  <2> QED
    BY <2>2, <2>3, QuietSolo DEF Start
<1>3. CASE DashboardApprove(w) \/ DashboardReturn(w)
  BY <1>2, <1>3 DEF DashboardApprove, DashboardReturn, FourEyesCheck
<1>4. CASE ~(DashboardApprove(w) \/ DashboardReturn(w))
  BY <1>4, StartCaseSolo
     DEF DashboardHandler, DashboardAssign, DashboardEscalate, DashboardInProgress,
         DashboardClose, DashboardReviewClose, StartCase
<1> QED
  BY <1>3, <1>4

LEMMA LoadCaseSolo ==
  ASSUME OneAtATime, SoloInv, NEW w \in Workers, LoadCase(w)
  PROVE  SoloStep
<1> DEFINE r == [step |-> "ready", op |-> "decision", id |-> req[w].id,
                 seenD |-> req[w].seenD, newD |-> req[w].newD,
                 seenC |-> case, newC |-> CaseAfter(req[w].op, case, req[w].newD),
                 records |-> req[w].records, events |-> req[w].events]
<1>1. req[w] # Idle /\ req[w].op \in DecisionOps /\ req[w].step = "loaded"
  BY DEF LoadCase, Idle, SoloInv, IInv, TypeOK, Request, DecisionOps
<1>2. Solo(req[w])
  BY <1>1 DEF SoloInv
<1>3. Solo(r)
  BY <1>1, <1>2 DEF Solo, Closing, CaseAfter
<1>4. req' = [req EXCEPT ![w] = r] /\ UNCHANGED <<decisions, case>>
  BY DEF LoadCase
<1> HIDE DEF r
<1> QED
  BY <1>3, <1>4, QuietSolo

LEMMA CommitDecisionSolo ==
  ASSUME OneAtATime, SoloInv, NEW w \in Workers, CommitDecision(w)
  PROVE  SoloStep
<1> PICK r, i : r = req[w] /\ i = r.id
  OBVIOUS
<1>1. /\ r # Idle /\ r.op \in DecisionOps /\ r.step = "ready"
      /\ r.newD \in Decision /\ r.seenC \in Case /\ r.newC \in Case
  BY DEF SoloInv, IInv, TypeOK, CommitDecision, Request, Idle, DecisionOps
<1>2. Solo(r)
  BY <1>1 DEF SoloInv
<1>3. i \in DOMAIN decisions /\ decisions[i] \in Decision /\ r.seenD = decisions[i]
  BY <1>1, <1>2 DEF SoloInv, IInv, PendingSigned, TypeOK, Solo
<1>4. /\ decisions' = [decisions EXCEPT ![i] = MergeDecision(decisions[i], r.seenD, r.newD)]
      /\ case' = MergeCase(case, r.seenC, r.newC)
      /\ req' = [req EXCEPT ![w] = Idle]
  BY DEF CommitDecision
<1>5. /\ DOMAIN decisions' = DOMAIN decisions
      /\ \A j \in DOMAIN decisions : j # i => decisions'[j] = decisions[j]
      /\ decisions'[i].createdBy = decisions[i].createdBy
      /\ decisions'[i].status = r.newD.status
      /\ decisions'[i].approver = r.newD.approver
  <2>1. /\ DOMAIN decisions' = DOMAIN decisions
        /\ decisions'[i] = MergeDecision(decisions[i], decisions[i], r.newD)
        /\ \A j \in DOMAIN decisions : j # i => decisions'[j] = decisions[j]
    BY <1>3, <1>4 DEF SoloInv, IInv, TypeOK
  <2> QED
    BY <1>3, <2>1 DEF MergeDecision, Column, Decision
<1>6. FourEyes'
  BY <1>1, <1>2, <1>3, <1>5 DEF SoloInv, FourEyes, Solo
<1>7. ASSUME NEW v \in Workers PROVE req'[v] = Idle
  BY <1>4 DEF OneAtATime, SoloInv, IInv, TypeOK
<1>8. ASSUME "approval_items" \notin Surfaces PROVE ApprovalClosesCase
  <2> SUFFICES ASSUME NEW j \in DOMAIN decisions, decisions[j].status # "approved",
                      decisions'[j].status = "approved"
               PROVE  /\ case'.status = "closed" /\ case'.closedAt
                      /\ case'.outcome = decisions[j].disposition
    BY DEF ApprovalClosesCase
  <2>1. j = i /\ r.newD.status = "approved"
    BY <1>5
  <2>2. /\ r.seenC = case /\ r.newC = ApprovedCase(case, r.newD)
        /\ r.newD.disposition = decisions[i].disposition
    BY <1>1, <1>2, <1>3, <1>8, <2>1 DEF Solo, Closing
  <2>3. /\ r.newC.status = "closed" /\ r.newC.closedAt
        /\ r.newC.outcome = decisions[i].disposition
    BY <1>1, <2>2 DEF ApprovedCase, Case
  <2> QED
    BY <1>4, <2>1, <2>2, <2>3 DEF MergeCase, Column
<1> QED
  BY <1>6, <1>7, <1>8 DEF SoloStep

\* A draft is nobody's approval.
LEMMA CommitCreateSolo ==
  ASSUME OneAtATime, SoloInv, NEW w \in Workers, CommitCreate(w)
  PROVE  SoloStep
<1> PICK d : d = req[w].newD
  OBVIOUS
<1>1. d \in Decision /\ d.status = "draft"
  <2>1. req[w] # Idle /\ req[w].op = "create" /\ d \in Decision
    BY DEF SoloInv, IInv, TypeOK, CommitCreate, Request, Idle
  <2> QED
    BY <2>1 DEF SoloInv, Solo
<1>2. decisions \in Seq(Decision) /\ decisions' = Append(decisions, d)
  BY DEF SoloInv, IInv, TypeOK, CommitCreate
<1>3. \A j \in DOMAIN decisions' :
        \/ j \in DOMAIN decisions /\ decisions'[j] = decisions[j]
        \/ decisions'[j] = d
  BY <1>1, <1>2
<1>4. \A j \in DOMAIN decisions : decisions'[j] = decisions[j]
  BY <1>1, <1>2
<1>5. FourEyes' /\ ApprovalClosesCase
  BY <1>1, <1>3, <1>4 DEF SoloInv, FourEyes, ApprovalClosesCase
<1>6. ASSUME NEW v \in Workers PROVE req'[v] = Idle
  BY DEF CommitCreate, OneAtATime, SoloInv, IInv, TypeOK
<1> QED
  BY <1>5, <1>6 DEF SoloStep

LEMMA CommitCaseSolo ==
  ASSUME OneAtATime, SoloInv, NEW w \in Workers, CommitCase(w)
  PROVE  SoloStep
<1>1. UNCHANGED decisions /\ \A v \in Workers : req'[v] = Idle
  BY DEF CommitCase, OneAtATime, SoloInv, IInv, TypeOK
<1> QED
  BY <1>1 DEF SoloStep, SoloInv, FourEyes, ApprovalClosesCase

LEMMA NextSolo ==
  ASSUME OneAtATime, SoloInv, [Next]_vars
  PROVE  SoloInv' /\ SoloStep
<1>1. ASSUME NEW w \in Workers, Abort(w) PROVE SoloStep
  BY <1>1, QuietSolo DEF Abort
<1>2. ASSUME UNCHANGED vars PROVE SoloStep
  <2>1. ASSUME NEW w \in Workers, req'[w] # Idle PROVE Solo(req[w])'
    <3>1. Solo(req[w])
      BY <1>2, <2>1 DEF vars, SoloInv
    <3> QED
      BY <1>2, <3>1 DEF vars, Solo, Closing, ApprovedCase
  <2> QED
    BY <1>2, <2>1 DEF vars, SoloStep, SoloInv, FourEyes, ApprovalClosesCase
<1>3. SoloStep
  BY <1>1, <1>2, DecisionHandlerSolo, CaseHandlerSolo, DashboardHandlerSolo, LoadCaseSolo,
     CommitDecisionSolo, CommitCaseSolo, CommitCreateSolo DEF Next, Finish
<1> QED
  BY <1>3, NextIInv DEF SoloInv, SoloStep

LEMMA InitSolo == Init => SoloInv
BY InitIInv DEF Init, SoloInv, FourEyes

\* One request at a time, an approved decision names an approver who is not its creator
\* (FourEyes), through every endpoint: only requests that overlap break the rule.
THEOREM FourEyesOneAtATime ==
  ASSUME OneAtATime
  PROVE  Spec => []FourEyes
<1>1. SoloInv /\ [Next]_vars => SoloInv'
  BY NextSolo
<1>2. SoloInv => FourEyes
  BY DEF SoloInv
<1> QED
  BY <1>1, <1>2, InitSolo, PTL DEF Spec

\* One request at a time, and with the approval items of the dashboard out of use, the step
\* that approves a decision closes its case with the disposition approved (ApprovalCloses).
THEOREM ApprovalAlwaysCloses ==
  ASSUME OneAtATime, "approval_items" \notin Surfaces
  PROVE  Spec => ApprovalCloses
<1>1. SoloInv /\ [Next]_vars => SoloInv'
  BY NextSolo
<1>2. SoloInv /\ [Next]_vars =>
        [\A i \in DOMAIN decisions :
           decisions[i].status # "approved" /\ decisions'[i].status = "approved" =>
             /\ case'.status = "closed"
             /\ case'.closedAt
             /\ case'.outcome = decisions[i].disposition]_vars
  BY NextSolo DEF SoloStep, ApprovalClosesCase
<1> QED
  BY <1>1, <1>2, InitSolo, PTL DEF Spec, ApprovalCloses
=============================================================================
