------------------------ MODULE TransactionMonitoring ------------------------
(***************************************************************************)
(* The monitoring of one customer's transactions: ingestion                *)
(* (api/transactions.py) and the Celery task that scores each              *)
(* (tasks/transaction_processing.py), a chain of four database             *)
(* transactions: the rules and then the velocity rules                     *)
(* (services/rules_engine.py), the customer's risk row                     *)
(* (services/risk_scoring.py), and the mirror of the KYC profile with the  *)
(* escalation to enhanced due diligence (services/customer_lifecycle.py).  *)
(* CustomerKyc.tla, which it extends, has the profiles and the findings.   *)
(*                                                                         *)
(* A task that fails after a commit keeps what is committed: a retry or a  *)
(* redelivery (task_acks_late) begins the whole chain again, next to the   *)
(* tasks of the customer's other transactions.                             *)
(***************************************************************************)
EXTENDS CustomerKyc

CONSTANTS
  Kinds,        \* what a transaction may be like, see Kind
  VelocityMax,  \* transaction_count of the one velocity rule
  MaxRetries    \* max_retries of the task

\* Whether the rule fires on it, whether its amount is large, and which risk scores it may
\* get: high ones (TRUE) ask for enhanced due diligence.
Kind == [hit : BOOLEAN, large : BOOLEAN, scores : (SUBSET BOOLEAN) \ {{}}]

ASSUME MonitoringAssumption ==
  /\ Kinds \subseteq Kind
  /\ "velocity" \notin Tx
  /\ VelocityMax \in Nat /\ MaxRetries \in Nat

VARIABLES
  tasks,    \* per transaction: its row, and how far the task about it got
  alerts,   \* committed alerts of the rule, per transaction, and of the velocity rule
  counts,   \* alert_count of the two rules
  flagged,  \* transactions with status flagged
  row,      \* the customer's UserRiskProfile, or NoRow
  parked    \* transactions with a FailedTransactionProcessingItem

monitoringVars == <<tasks, alerts, counts, flagged, row, parked>>
vars == <<kycVars, monitoringVars>>

\* One rule that looks at the transaction, of severity high, and one velocity rule.
Rules == {"rule", "velocity"}

NoRow == [kyc |-> "none", cdd |-> "none", edd |-> FALSE, link |-> NoProfile, made |-> FALSE]

Row ==
  [kyc : {"none", "pending", "approved", "manual_review"}, cdd : {"none", "standard", "enhanced"},
   edd : BOOLEAN, link : Profiles \cup {NoProfile}, made : BOOLEAN]

\* "stored" is committed and not yet sent to the queue; in the phases on the second line the
\* task runs, "scored", "counted" and "profiled" between two transactions of the chain.
Phases ==
  {"absent", "stored", "queued", "done", "parked", "failed",
   "scoring", "scored", "counting", "counted", "profiling", "mirroring", "profiled",
   "linking", "triggering", "acknowledging"}

Running(t) ==
  tasks[t].phase \in {"scoring", "scored", "counting", "counted", "profiling",
                      "mirroring", "profiled", "linking", "triggering", "acknowledging"}

NoTask == [phase |-> "absent", hit |-> FALSE, large |-> FALSE, scores |-> {FALSE}, risky |-> FALSE,
           starts |-> 0, retries |-> 0, held |-> Idle]

At(t, phase) == tasks[t].phase = phase

\* The task moves on, with what its session holds.
Moves(t, phase, held) == tasks' = [tasks EXCEPT ![t].phase = phase, ![t].held = held]

TypeOK ==
  /\ KycTypeOK
  /\ \A t \in Tx : /\ DOMAIN tasks[t] = DOMAIN NoTask
                   /\ tasks[t].phase \in Phases
                   /\ {tasks[t].hit, tasks[t].large, tasks[t].risky} \subseteq BOOLEAN
                   /\ tasks[t].starts \in Nat /\ tasks[t].retries \in 0..MaxRetries
                   /\ ~Running(t) => tasks[t].held = Idle
  /\ alerts \in [Tx \cup {"velocity"} -> Nat]
  /\ counts \in [Rules -> Nat]
  /\ flagged \subseteq Tx /\ parked \subseteq Tx
  /\ row \in Row

Init ==
  /\ KycInit
  /\ tasks = [t \in Tx |-> NoTask]
  /\ alerts = [x \in Tx \cup {"velocity"} |-> 0]
  /\ counts = [r \in Rules |-> 0]
  /\ flagged = {} /\ parked = {}
  /\ row = NoRow

-----------------------------------------------------------------------------
(* Ingestion *)

\* POST /transactions/ingest: the row is committed, then the task is sent.
Ingest(t, kind) ==
  /\ At(t, "absent") /\ left.ingests > 0
  /\ tasks' = [tasks EXCEPT ![t].phase = "stored", ![t].hit = kind.hit, ![t].large = kind.large,
                            ![t].scores = kind.scores]
  /\ Spend("ingests")
  /\ UNCHANGED <<profiles, latest, findings, desk, scan, vetted, alerts, counts, flagged, row,
                 parked>>

\* Not fair: a process that dies here never sends it.
Send(t) ==
  /\ At(t, "stored")
  /\ Moves(t, "queued", Idle)
  /\ UNCHANGED <<kycVars, alerts, counts, flagged, row, parked>>

-----------------------------------------------------------------------------
(* The task *)

\* The rule and the score are arithmetic over the transaction's fields, decided by its kind.
Fires(t) == tasks[t].hit

Scores(t) == tasks[t].scores

\* score_transaction weighs the customer's posture too, so that an attempt may score other
\* than the one before it.  evaluate_transaction then reads the rules and looks up the
\* finding of the one that fires.
Score(t, risky) ==
  /\ At(t, "queued")
  /\ risky \in Scores(t)
  /\ tasks' =
       [tasks EXCEPT ![t].phase = "scoring", ![t].starts = @ + 1,
          ![t].held = [kind |-> "rules", risky |-> risky, count |-> counts["rule"],
                       known |-> Lookup(IF Fires(t) THEN {<<"tx", t>>} ELSE {})]]
  /\ UNCHANGED <<kycVars, alerts, counts, flagged, row, parked>>

\* The commit of evaluate_transaction.
CommitRules(t) ==
  LET held == tasks[t].held IN
  /\ At(t, "scoring")
  /\ Insertable(held.known)
  /\ tasks' = [tasks EXCEPT ![t].phase = "scored", ![t].risky = held.risky, ![t].held = Idle]
  /\ findings' = Raised(held.known)
  /\ IF Fires(t)
     THEN /\ alerts' = [alerts EXCEPT ![t] = @ + 1]
          /\ counts' = [counts EXCEPT !["rule"] = held.count + 1]
          /\ flagged' = flagged \cup {t}
     ELSE UNCHANGED <<alerts, counts, flagged>>
  /\ UNCHANGED <<profiles, latest, desk, scan, left, vetted, row, parked>>

\* The velocity rule counts the customer's transactions of the last 24 hours.
VelocityFires == Cardinality({t \in Tx : ~At(t, "absent")}) > VelocityMax

Count(t) ==
  /\ At(t, "scored")
  /\ Moves(t, "counting",
           [kind |-> "velocity", fires |-> VelocityFires, count |-> counts["velocity"],
            known |-> Lookup(IF VelocityFires THEN {<<"velocity">>} ELSE {})])
  /\ UNCHANGED <<kycVars, alerts, counts, flagged, row, parked>>

CommitVelocityMutant(t) ==
  LET held == tasks[t].held IN
  /\ At(t, "counting")
  /\ Insertable(held.known)
  /\ tasks' = [tasks EXCEPT ![t].phase = "counted", ![t].held = Idle]
  /\ findings' = Raised(held.known)
  /\ counts' = [counts EXCEPT !["velocity"] = IF held.fires THEN held.count + 1 ELSE @]
  /\ alerts' = [alerts EXCEPT !["velocity"] =
                   IF \E f \in DOMAIN held.known : held.known[f] = "none" THEN @ + 1 ELSE @]
  /\ UNCHANGED <<profiles, latest, desk, scan, left, vetted, flagged, row, parked>>

CommitVelocity(t) ==
  LET held == tasks[t].held IN
  /\ At(t, "counting")
  /\ Insertable(held.known)
  /\ Moves(t, "counted", Idle)
  /\ findings' = Raised(held.known)
  /\ IF held.fires
     THEN /\ alerts' = [alerts EXCEPT !["velocity"] = @ + 1]
          /\ counts' = [counts EXCEPT !["velocity"] = held.count + 1]
     ELSE UNCHANGED <<alerts, counts>>
  /\ UNCHANGED <<profiles, latest, desk, scan, left, vetted, flagged, row, parked>>

\* update_user_risk_profile: the customer's row, then the latest KYC profile.
ReadRow(t) ==
  /\ At(t, "counted")
  /\ Moves(t, "profiling", [kind |-> "row", seen |-> row])
  /\ UNCHANGED <<kycVars, alerts, counts, flagged, row, parked>>

\* _sync_kyc_from_compliance: enhanced due diligence is only ever added.
ReadProfile(t) ==
  LET seen == tasks[t].held.seen
      new == IF latest = NoProfile
             THEN [seen EXCEPT !.made = TRUE]
             ELSE [kyc |-> profiles[latest].status, cdd |-> profiles[latest].cdd,
                   edd |-> seen.edd \/ profiles[latest].cdd = "enhanced",
                   link |-> latest, made |-> TRUE]
  IN /\ At(t, "profiling")
     /\ Moves(t, "mirroring", [kind |-> "row", seen |-> seen, new |-> new])
     /\ UNCHANGED <<kycVars, alerts, counts, flagged, row, parked>>

\* (tenant, user) is unique: of two tasks that insert the row the second fails.
RowInsertable(held) == held.seen.made \/ ~row.made

CommitRow(t) ==
  LET held == tasks[t].held IN
  /\ At(t, "mirroring")
  /\ RowInsertable(held)
  /\ Moves(t, "profiled", Idle)
  /\ row' = Merged(row, held.seen, held.new)
  /\ UNCHANGED <<kycVars, alerts, counts, flagged, parked>>

\* sync_kyc_to_risk_profile reads the latest profile, and the risk row after it.
ReadLatest(t) ==
  /\ At(t, "profiled")
  /\ Moves(t, "linking",
           [kind |-> "lifecycle", profile |-> latest,
            seen |-> IF latest = NoProfile THEN NoProfile ELSE profiles[latest]])
  /\ UNCHANGED <<kycVars, alerts, counts, flagged, row, parked>>

\* The mirror sets the flag by the profile it read; the trigger may raise it again.
Mirrored(held) ==
  IF held.profile = NoProfile THEN row
  ELSE [kyc |-> held.seen.status, cdd |-> held.seen.cdd, edd |-> held.seen.cdd = "enhanced",
        link |-> held.profile, made |-> TRUE]

TriggersMutant(t, mirrored) ==
  (IF tasks[t].risky THEN {"risk"} ELSE {})
  \cup (IF tasks[t].large /\ mirrored.kyc = "pending" THEN {"value"} ELSE {})

Triggers(t, mirrored) ==
  (IF tasks[t].risky THEN {"risk"} ELSE {})
  \cup (IF tasks[t].large /\ mirrored.kyc # "approved" THEN {"value"} ELSE {})

\* One finding for each profile, or none, and each combination of reasons.
EscalationFindings(link, reasons) == IF reasons = {} THEN {} ELSE {<<"edd", link, reasons>>}

\* Escalates the profile the row is linked to, which the session has loaded unless it
\* found none a moment ago.
Escalate(t) ==
  LET held == tasks[t].held
      mirrored == Mirrored(held)
      reasons == Triggers(t, mirrored)
      seen == IF held.profile = NoProfile /\ mirrored.link # NoProfile
              THEN profiles[mirrored.link] ELSE held.seen
  IN /\ At(t, "linking")
     /\ Moves(t, "triggering",
              [kind |-> "escalation", profile |-> mirrored.link, seen |-> seen,
               seenRow |-> row, reasons |-> reasons,
               newRow |-> IF reasons = {} THEN mirrored ELSE [mirrored EXCEPT !.edd = TRUE],
               known |-> Lookup(EscalationFindings(mirrored.link, reasons))])
     /\ UNCHANGED <<kycVars, alerts, counts, flagged, row, parked>>

\* The final commit of process_transaction_sync.
CommitLifecycle(t) ==
  LET held == tasks[t].held
      escalated == [held.seen EXCEPT !.cdd = "enhanced", !.reason = "monitoring"]
  IN /\ At(t, "triggering")
     /\ Insertable(held.known)
     /\ Moves(t, "acknowledging", Idle)
     /\ row' = Merged(row, held.seenRow, held.newRow)
     /\ findings' = Raised(held.known)
     /\ IF held.reasons # {} /\ held.profile # NoProfile /\ escalated # held.seen
        THEN /\ profiles' = [profiles EXCEPT ![held.profile] = Merged(@, held.seen, escalated)]
             /\ latest' = held.profile
        ELSE UNCHANGED <<profiles, latest>>
     /\ UNCHANGED <<desk, scan, left, vetted, alerts, counts, flagged, parked>>

\* The message leaves the queue when the task has returned.
Acknowledge(t) ==
  /\ At(t, "acknowledging")
  /\ Moves(t, "done", Idle)
  /\ UNCHANGED <<kycVars, alerts, counts, flagged, row, parked>>

-----------------------------------------------------------------------------
(* Failures *)

\* The handler of every exception that is not a DBAPIError adds an item and commits it.  That
\* commit may fail, which is swallowed: the task returns as if it were parked, and no item is
\* there.
Park(t) ==
  /\ Moves(t, "parked", Idle)
  /\ parked' \in {parked, parked \cup {t}}
  /\ UNCHANGED <<profiles, latest, findings, desk, scan, vetted, alerts, counts, flagged, row>>

\* In the rules the failed insert of a finding is caught, but its session answers every
\* later statement with PendingRollbackError, which is no DBAPIError: the transaction is
\* rolled back and parked.
LosesEarlyRace(t) ==
  /\ At(t, "scoring") \/ At(t, "counting")
  /\ ~Insertable(tasks[t].held.known)
  /\ Park(t)
  /\ UNCHANGED left

\* In the last two transactions of the chain nothing catches the IntegrityError: a DBAPIError
\* that did not invalidate the connection is raised, and nothing records it.
LosesLateRace(t) ==
  /\ \/ At(t, "mirroring") /\ ~RowInsertable(tasks[t].held)
     \/ At(t, "triggering") /\ ~Insertable(tasks[t].held.known)
  /\ Moves(t, "failed", Idle)
  /\ UNCHANGED <<kycVars, alerts, counts, flagged, row, parked>>

BreaksMutant(t) ==
  /\ left.faults > 0
  /\ At(t, "scoring") /\ tasks[t].hit
  /\ tasks' = [tasks EXCEPT ![t].phase = "scored", ![t].held = Idle]
  /\ alerts' = [alerts EXCEPT ![t] = @ + 1]
  /\ Spend("faults")
  /\ UNCHANGED <<profiles, latest, findings, desk, scan, vetted, counts, flagged, row, parked>>

\* An exception that is no DBAPIError, as a threshold of the wrong type raises in the velocity
\* rule; and a failure of the database, even a transient one, while a rule's finding is
\* created: it is caught there, and poisons the session as a lost race does.
Breaks(t) ==
  /\ Running(t) /\ ~At(t, "acknowledging") /\ left.faults > 0
  /\ Park(t)
  /\ Spend("faults")

\* Any other DBAPIError that leaves the connection valid (a value the column does not take, a
\* statement that does not run, an aborted transaction), at whatever step, in a failure
\* handler included: raised, the task has failed and nothing records it.
Raises(t) ==
  /\ Running(t) /\ ~At(t, "acknowledging") /\ left.faults > 0
  /\ Moves(t, "failed", Idle)
  /\ Spend("faults")
  /\ UNCHANGED <<profiles, latest, findings, desk, scan, vetted, alerts, counts, flagged, row,
                 parked>>

RetryMutant(t) ==
  /\ Running(t) /\ ~At(t, "acknowledging") /\ left.faults > 0
  /\ tasks' = [tasks EXCEPT ![t].phase = "queued", ![t].held = Idle, ![t].retries = @ + 1]
  /\ Spend("faults")
  /\ UNCHANGED <<profiles, latest, findings, desk, scan, vetted, alerts, counts, flagged, row,
                 parked>>

\* An OperationalError or an invalidated connection: rolled back, and the message is sent
\* again after a countdown.
Retry(t) ==
  /\ Running(t) /\ ~At(t, "acknowledging") /\ left.faults > 0
  /\ tasks[t].retries < MaxRetries
  /\ tasks' = [tasks EXCEPT ![t].phase = "queued", ![t].held = Idle, ![t].retries = @ + 1]
  /\ Spend("faults")
  /\ UNCHANGED <<profiles, latest, findings, desk, scan, vetted, alerts, counts, flagged, row,
                 parked>>

\* The last retry is used up.  The code parks the transaction when Celery raises
\* MaxRetriesExceededError; Celery raises the exception it was given instead: either.
RetriesExhausted(t) ==
  /\ Running(t) /\ ~At(t, "acknowledging") /\ left.faults > 0
  /\ tasks[t].retries = MaxRetries
  /\ \/ Park(t)
     \/ /\ Moves(t, "failed", Idle)
        /\ UNCHANGED <<profiles, latest, findings, desk, scan, vetted, alerts, counts, flagged,
                       row, parked>>
  /\ Spend("faults")

CrashMutant(t) ==
  /\ Running(t) /\ left.crashes > 0
  /\ Moves(t, "stored", Idle)
  /\ Spend("crashes")
  /\ UNCHANGED <<profiles, latest, findings, desk, scan, vetted, alerts, counts, flagged, row,
                 parked>>

\* The worker is lost before the message is acknowledged: the broker delivers it again.
Crash(t) ==
  /\ Running(t) /\ left.crashes > 0
  /\ Moves(t, "queued", Idle)
  /\ Spend("crashes")
  /\ UNCHANGED <<profiles, latest, findings, desk, scan, vetted, alerts, counts, flagged, row,
                 parked>>

-----------------------------------------------------------------------------
Work(t) ==
  \/ \E risky \in BOOLEAN : Score(t, risky)
  \/ CommitRules(t) \/ Count(t) \/ CommitVelocity(t)
  \/ ReadRow(t) \/ ReadProfile(t) \/ CommitRow(t)
  \/ ReadLatest(t) \/ Escalate(t) \/ CommitLifecycle(t) \/ Acknowledge(t)
  \/ LosesEarlyRace(t) \/ LosesLateRace(t)

Next ==
  \/ KycNext /\ UNCHANGED monitoringVars
  \/ \E t \in Tx : \/ \E kind \in Kinds : Ingest(t, kind)
                   \/ Send(t) \/ Work(t)
                   \/ Breaks(t) \/ Raises(t) \/ Retry(t) \/ RetriesExhausted(t) \/ Crash(t)

\* A worker goes on with the task it has begun and takes the next message, beat starts the
\* scan every night.  Nothing makes an API process, an officer or an analyst take a step.
Fairness ==
  /\ \A t \in Tx : WF_vars(Work(t))
  /\ WF_vars(ScanStarts /\ UNCHANGED monitoringVars)
  /\ WF_vars(ScanEnds /\ UNCHANGED monitoringVars)

Spec == Init /\ [][Next]_vars /\ Fairness

-----------------------------------------------------------------------------
(* Correctness *)

\* Nothing calls for an analyst without the finding that makes it triageable: no alert is
\* committed without its own, although the rules engine swallows any failure to create it
\* and it is the poisoned session that takes the alert along (_create_alert,
\* _create_velocity_alert); and no risk row asks for enhanced due diligence, be the flag
\* copied from a profile or set by a transaction, but a finding says why.
FindingsMade ==
  /\ PostureHasFinding
  /\ \A t \in Tx : alerts[t] > 0 => findings[<<"tx", t>>] # "none"
  /\ alerts["velocity"] > 0 => findings[<<"velocity">>] # "none"
  /\ row.edd => \E p \in Profiles \cup {NoProfile}, r \in Reasons \cup {{"office"}} :
                  findings[<<"edd", p, r>>] # "none"

EscalationFound(reason) ==
  \E p \in Profiles \cup {NoProfile}, r \in Reasons :
    reason \in r /\ findings[<<"edd", p, r>>] # "none"

\* A transaction whose task succeeded left everything it had to, whatever failed before,
\* whoever worked on the same customer and however stale what it had read: the alert and
\* the flag of the rule, the customer's risk row, and an escalation finding when the score
\* asked for it, or when the amount did and no KYC profile had ever been approved.
DoneMeansMonitored ==
  \A t \in Tx : At(t, "done") =>
    /\ tasks[t].hit => alerts[t] > 0 /\ t \in flagged
    /\ row.made
    /\ tasks[t].risky => EscalationFound("risk")
    /\ tasks[t].large /\ ~vetted => EscalationFound("value")

\* However often a task begins again, each of its attempts raises one alert of the rule at
\* most, as none outlives a rolled back attempt; and the alert_count of the velocity rule,
\* which each task writes from a value it read before its commit, may miss alerts of
\* overlapping tasks but never tells of one that is not there (_create_alert,
\* _create_velocity_alert).
AlertsAccounted ==
  /\ \A t \in Tx : alerts[t] <= tasks[t].starts
  /\ counts["velocity"] <= alerts["velocity"]

\* A transaction whose task was sent is through at last, monitored, parked or failed, however
\* often the task loses races, is retried or loses its worker.
ProcessingEnds ==
  \A t \in Tx : At(t, "queued") ~> At(t, "done") \/ At(t, "failed") \/ At(t, "parked")
=============================================================================
