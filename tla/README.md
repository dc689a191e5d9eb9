# YuFeed: a TLA+ development

YuFeed (`src/apps/api`) is the backend of a compliance platform. It ingests EU and national
legal acts into a database, has a language model analyse them and derive obligations, and gives
compliance and AML officers findings, alerts, investigation cases and decisions to work on. It is
a FastAPI application over PostgreSQL (SQLAlchemy), with Celery workers and beat over Redis for
everything that runs in the background.

This directory models the parts of it that carry a protocol: several actors, rows or keys that outlive
each of them, and an order of steps that no unit test enumerates. Ten of its components are modelled or
partly so in nine state machines. Paths below are relative to `src/apps/api/src/` unless they begin with
`src/`.

Contents: [the system](#the-system) - [modules](#the-modules) - [runs](#the-runs) -
[proofs](#the-proofs) - [divergences](#where-the-code-and-its-documentation-part) -
[not modelled](#not-modelled) - [plan](#plan).

## The system

| Part | State | Operations | Talks to | What is hard |
|---|---|---|---|---|
| Circuit breaker, `core/circuit_breaker.py` | state, two counters, opening time, under one lock | `call`, `async_call`, `reset`, `trip`, `state`, `info` | wraps every call to the language model and the search engine | calls overlap: one admitted in a state reports in another |
| Case decisions, `services/case_decision_service.py` | `case_decisions`, `cases`, decision records, audit events | create, submit, approve, reject | case handlers and dashboard write the same rows | no row locks: check on a loaded row, column-wise UPDATE at commit |
| Case handlers, `api/cases.py`, `api/aml_officer.py`, `api/reports/sar_filing.py` | `cases` | update, assign, escalate, close, prepare and file a SAR | case decisions | same rows from several routers |
| Command centre, `api/dashboard_work_queue.py` | `cases`, approval items | assign, escalate, close, approve, return | case decisions | a second door to the maker-checker protocol |
| Ingestion runs, `ingestion/manager.py` | `ingestion_runs`, `last_ingested_at` of each source | weekly run, manual run | fetchers, entry processor | failed fetches, overlapping runs, crashes between two commits |
| Entry processing, `ingestion/processor.py` | documents, versions, analysis marks | new, changed or known document; analysis; obligations | dead letter queue | a document is committed before it is analysed |
| Dead letter queue, `worker.py`, `api/ingestion.py` | `failed_ingestion_items` | enqueue, two retry tasks, retry and delete by hand | entry processing | batches worked off with stale selections, crashes between commits |
| Manual ingestion lock, `worker.py`, `api/ingestion.py` | one Redis key with an expiry | acquire, release | manual runs, the broker | expiry, redelivery, partial failures |
| Policies and generation, `api/policies.py`, `services/policy_library.py`, `services/policy_generator.py` | `policy_documents` with a JSON `metadata`, generation jobs | create, copy from the master, approve, update, delete, generate, approve a job | obligations, internal rules | whole-column writes of a shared JSON, a job approved in three transactions |
| Obligations, `api/obligations.py`, `api/compliance_workflow.py`, `services/obligation_service.py` | status, creator, linked policy; mappings; internal rules; audit records | seed, extract, PATCH, approve, bulk approve, link, map, unmap | policies, ingestion | four endpoints approve; effects after the commit; deletions race with links |
| WebSocket registry, `websocket/manager.py`, `api/websocket.py` | two maps of connections per process | connect, receive, disconnect, send, broadcast | every component that notifies | every send is an await inside an iteration |
| KYC, `services/kyc_*.py`, `api/compliance.py`, `tasks/kyc_tasks.py` | profiles, review dates | onboard, screen, set level, review, nightly scan | findings | endpoints next to a beat task |
| Transaction monitoring, `tasks/transaction_processing.py`, `services/rules_engine.py`, `services/risk_scoring.py`, `services/customer_lifecycle.py` | transactions, alerts, rule counters, the customer's risk row | ingest, score, velocity rules, mirror of the KYC profile, escalation | KYC, findings, Celery | four commits per task; retries, lost workers and lost insert races between them |
| Compliance calendar, `services/compliance_calendar.py`, `tasks/compliance_calendar.py` | `compliance_calendar_events` | seed, propagate a change, update, overdue sweep, reminders | obligations, policies, KYC | nightly tasks commit over what officers decided |
| Deadline check and findings, `worker.py`, `api/findings.py`, `api/cases.py` | findings, cases, links | check, triage, close, escalate, link | obligations, cases | check-then-insert, stale status at commit |
| The rest | see [not modelled](#not-modelled) | | | |

What makes each modelled part correct:

* **Breaker**: it opens on a streak of failures only; an open breaker shields the service for the
  whole timeout; it closes for good when the service recovers.
* **Cases**: nobody approves a decision they made; the audit trail and the immutable records
  explain every status; an approval closes the case with the outcome approved.
* **Dead letter queue**: a poisonous item is not retried for ever; what is resolved stays resolved;
  an attempt is concluded once; every item settles.
* **Lock**: a run works under its own lock, nobody frees a lock that is somebody else's, and the
  lock does not stay for ever.
* **Ingestion runs**: the watermark moves over no document that nobody handled or reported, except on
  days that a run did not look at; every other document is accounted for at last.
* **Policies and obligations**: nobody's own commit approves what they created; what is approved
  keeps the policy and the control it was approved with; a generated policy exists once; the audit
  trail tells of decisions that were made.
* **Notifications**: a connection is registered exactly while its endpoint serves it; only those
  meant get a message, and all of them unless the registry changes under the broadcast; a client
  that is gone is forgotten.
* **Monitoring**: an alert and a risk flag come with the finding that makes them triageable; a task
  that is done has done everything, however often it was begun, and no attempt leaves an alert twice;
  no review that is due escapes a scan that has room for it; a queued transaction is through at last.
* **Deadlines**: what was seeded exists once; an officer's completion stands; one reminder a day; no
  deadline passes without a mark in the calendar and a finding; a finding is escalated into one case,
  and no check takes an escalation back that it could see.

## The modules

| Module | Is |
|---|---|
| `CircuitBreaker` | the breaker and the calls in flight |
| `CaseGovernance` | one case with its decisions, and the requests of every router that writes them |
| `MakerChecker` | the abstract contract of the decision workflow, without rows or requests |
| `DeadLetterQueue` | the queue, its writers and the retry tasks |
| `RetryQueue` | the abstract life of an item of the queue, without rows, batches or workers |
| `IngestionLock` | the Redis key of manual runs |
| `IngestionWatermark` | the runs of one source |
| `PolicyLibrary` | policies, the master copy of a template, generation jobs |
| `Obligations` | extends `PolicyLibrary`: obligations, mappings, internal rules, audit records |
| `Notifications` | the registry of WebSocket connections of one process and the broadcasts over it |
| `CustomerKyc` | the KYC profiles of one customer, the findings about them, the nightly scan |
| `TransactionMonitoring` | extends `CustomerKyc`: ingestion and the processing task |
| `ComplianceCalendar` | the events of one tenant and their nightly tasks |
| `DeadlineFindings` | extends `ComplianceCalendar`: the deadline check, findings, cases |
| `MC*` | the sets and symmetries of the runs |
| `*Proofs` | theorems; each extends the module it is about, `IngestionProofs` both ingestion modules |

`CaseGovernance` instantiates `MakerChecker` and `DeadLetterQueue` instantiates `RetryQueue`, each with a
refinement mapping. Three pairs are compositions
of components that meet in rows: obligations link to policies and are held by them, the monitoring
task mirrors the KYC profile and raises findings next to the compliance office, and the calendar and
the deadline check watch the same dates independently. The ingestion modules are kept apart because
they meet only in what they leave to each other: `IngestionWatermark` treats the processing of an
entry as "handled" or "failed", `DeadLetterQueue` starts from a document that has been committed,
and the lock does not look at what the run does. Definitions whose name ends in `Mutant` are not part
of a model: each is a plausible wrong version of the definition after it, kept to show that the
properties notice it.

One abstraction is common to all models of the database. The application takes no row locks and has
no version columns. A request loads ORM objects, checks and assigns attributes, and at `db.commit()`
SQLAlchemy writes the columns that differ from the ones loaded, over whatever the rows hold by then
(READ COMMITTED). A request in flight is therefore what it loaded, or the columns it is going to
write; two uniqueness constraints and the foreign keys are what a commit can fail on.

### CircuitBreaker

One action per critical section of the lock: `Admit` is `_before_call`, `OnSuccess` and
`OnFailure` the bookkeeping, `ReadState` the `state` property (reading may move the breaker to
HALF_OPEN), `Reset` and `Trip` the manual operations. Between `Admit` and its end a call is in
flight, and `call[c]` remembers the state that admitted it. `EndUncounted` is a call that ends in
an excluded exception or is cancelled. `elapsed` is the monotonic clock minus `_opened_at`,
saturating at the timeout; `streak` and `sinceOpen` are history variables for the properties.

### CaseGovernance

The application has neither row locks nor version columns. A handler loads ORM objects, checks and
assigns attributes, and at `db.commit()` SQLAlchemy writes just the columns that differ from the
ones loaded. A request is therefore a record of what it loaded and what it made of that
(`seenD`/`newD`, `seenC`/`newC`); `MergeDecision` and `MergeCase` are its UPDATE against whatever
the rows hold by then. A handler of a decision has two load points: the decision first, its case
lazily (`LoadCase`) when the handler reaches it. `Surfaces` says which routers are in use,
`Workers` how many requests may overlap.

`records` and `events` are the immutable rows written by `record_decision` and `record_event`
inside the same transaction. Creating a case, findings, notes and the read endpoints touch none of
the modelled columns.

### DeadLetterQueue

`items` are the rows of `failed_ingestion_items`, `docs` what the document rows say of their
analysis. A retry task goes through `SelectItems` (the query), and for each item `Begin` (count
the attempt, mark, commit), `Analyse` or `Reprocess` or `RefuseEntry` (the attempt, which commits
documents), `Settle` (verdict, commit). `seen` is the head of the batch as the session loaded it
last: that is what `Begin` computes the new count from, and a failure that the ingestion adds in
between is overwritten. `AnalysisVerdict` keeps the difference between a count read before and
after a commit expired the row. `Outcomes` are the ways an analysis ends (no text, failed, analysed
but its obligations not seeded, done, which includes the seeding that the scope filter skips).
`Reprocess` is `process_entry` on a stored entry: what it finds changed is stored and analysed again,
and a failure of that analysis goes to the queue beside the result. `IngestEntry` and
`IngestAnalysis` are the two commits of an ingested document; `SaveAnalysisFailure` may itself fail,
since the code only logs that.

Nothing keeps two retry tasks apart: beat starts both kinds, a retry by hand starts one more at once
(its batch of one item is among `Batches`), and any of them may be delivered again. `shared` remembers
the items that two tasks held at once, until an administrator puts them back.

Abstractions: documents are not deleted; the analysis task meets no document without text; the commit
of a stored version is part of `Reprocess`; the handlers of the administrator are atomic; the beat's
limit of 10 items per task is above `MaxItems`.

### IngestionLock

`lock` is the value of the key, `phase` follows one request from the API process (`acquired`)
through the broker (`queued`) into the worker (`running`, `released`) and back. `held` is the age
of the key since the request set it, saturating at `TTL`. `WorkerLost` is the redelivery that
`task_acks_late` and `task_reject_on_worker_lost` cause, `Killed` the hard time limit, which skips
the `finally` clause. `Release` may fail silently as in the code.

### IngestionWatermark

`Begin` computes the window, `Fetch` or `FetchError` the list, `ProcessEntry` and `EntryError`
work it off, `Complete` writes the run's row and `Advance`, in a commit of its own, the watermark.
`Publish` and `NextDay` are the outside world. A fetch that fails is logged by the fetcher and looks
like an empty feed (`FetchError`), a manual run begins on any day (`Manual`), and a run may pass
midnight between any two steps. `unseen` collects what a run has not looked at for such a reason, and
`overlooked` what runs that moved the watermark have not. One EUR-Lex source stands for all: they
share no rows. The feed of Légifrance ignores the window it is asked for and is left out. Days stand
for timestamps because the code cuts the window to whole days.

### PolicyLibrary and Obligations

`work[w]` is what the policy request of slot `w` will write (`Write`: columns of one policy), and
`order[w]` what its obligation request will: columns of obligations, mappings it found missing
(`newMaps`) or found there (`oldMaps`), rules, the master policy it had to create, audit records to
be written afterwards. One action per handler computes that record from what the handler reads
(`CreatePolicy`, `ApprovePolicy`, `UpdatePolicy`, `CreateFromTemplate`, `WorkflowUpdatePolicy`,
`UpdateObligation`, `ApproveObligation`, `BulkApprove`, `WorkflowApprove`, `ExtractObligation`,
`LinkObligation`, `SeedObligation`, `MarkForReview`, `Unmap`, ...); `CommitPolicy` and `CommitOrder`
apply it, and `Committable` says when the database refuses: a mapping inserted twice, a mapping
updated that is gone, a foreign key to a deleted policy. `DeletePolicy` reads the counts, and
`CommitDelete` deletes if the foreign keys let it, setting links to NULL as the unit of work does.
After the commit of an approval `EmitSideEffects` writes the audit records in a transaction of its
own, and `AbortOrder` rolls a request back. The jobs of the generator go through `CreateJob`,
`StartGenerating`, `CompleteJob`, `FailJob`, `RejectJob`, and an approval through `ApproveJob`,
`InsertGeneratedPolicy`, `CommitApprovedJob` and `SuggestRules`, each a transaction.

Abstractions: one tenant, whose users all belong to it; one template, whose master exists once at
most and is not deleted; of the metadata only the keys of the creator and of the approver, which a client
may send as it likes (`Sent`), in the scenario of its own that `"metadata"` marks; "draft" stands for
`in_review` of a policy and "active" for `retired`; the items of a bulk approval are loaded at one
moment; `waived` remembers what an officer took away or switched off, where the code demands nothing;
`rewritten` the policies whose recorded creator a client has replaced.

### Notifications

Everything runs on one event loop, so an action is the code between two awaits. `handler[s]` is where
the coroutine of a socket stands, `link[s]` whether its client is there, `active` and `owner` the two
maps of the manager. `Register` is the code after the accept, `WelcomeFails` and `Ends` the ways out
of the endpoint, `Disconnect` what all of them call. A notification takes keys of the live
dictionary (`AtKey`), copies the sockets of one, and awaits a send for each (`SendReturns`); when the
dictionary changed size meanwhile, Python raises (`Raise`) and the rest of the broadcast, its clean-up
included, does not happen. `moved` remembers that keys came and went, after which an iteration may do
anything the hash table allows. Pings are folded into "receiving"; a send fails only if the client is
gone. The heartbeat task is started by nothing and left out. The model is of one process: with
`--workers 4` there are four registries, and the Celery worker has an empty one of its own.

### CustomerKyc and TransactionMonitoring

`desk` is the one request of the compliance office under way, with the profile it loaded and what it
will write; `Commit` merges it and raises the findings. `create_or_update_finding` is `Lookup` (the
query, at the handler's moment), `Insertable` (the unique fingerprint at the flush) and `Raised` (a
closed finding is opened again). `ScanStarts`, `ScanEnds` and `ScanFails` are the nightly task, one
transaction for all tenants. It takes the first 200 overdue reviews of a tenant (`ScanLimit`): `Others`
are numbers of overdue reviews of the tenant's other customers, `Taken` what is left of the limit
for this one, and a scan is `crowded` when it met more than it takes.

A transaction goes from "stored" (committed by the API) over "queued" into the chain of the task: rules
(`Score`, `CommitRules`), velocity rules (`Count`, `CommitVelocity`), the risk row (`ReadRow`,
`ReadProfile`, `CommitRow`), the mirror and the escalation (`ReadLatest`, `Escalate`, `CommitLifecycle`),
and `Acknowledge`. In between, another task or the office may commit. `LosesEarlyRace` and
`LosesLateRace` are insert races lost to such a commit, which the code handles differently, `Breaks` a
failure at any step that is no database error and parks the transaction, `Raises` a database error that
leaves the connection valid and is raised again at any step without an item, `Retry` and
`RetriesExhausted` one that does not, with what Celery makes of it, `Crash` a lost worker with
redelivery. A transaction enters as a `Kind`: whether the rule fires, whether the amount is large, which
scores it may get. History: `vetted`, whether any profile was ever approved.

### ComplianceCalendar and DeadlineFindings

One tenant, one document, dates as days. `live` are the sources in scope, `dates` what they name;
`Reviewed` and `Rescope` are the outside world. `desk` holds the requests of officers
(`Seeds`/`SeedsEnd`, `Updates`/`UpdateEnds`, and in `DeadlineFindings` triage, close, escalate, link),
`scan` and `round` what the two nightly tasks have loaded, `check` the findings the deadline check
looked up; `ScanLost`, `RoundLost`, `CheckLost` and `RequestFails` are rollbacks. A fingerprint is
kind, source, due date and linked policy, as the code's hash is: an obligation that is mapped to another
policy (`Relink`) and seeded again has a second event of the same deadline. `exempt` are the obligations the
tenant has assessed as not applicable (`Assess`); a change of a document without applicable obligations makes one
event about the document (`None`). `Triage` is PATCH of a finding with any status, "escalated" without a
case included. Abstractions: one source for each kind of query; a seed of all three kinds at once; PATCH of an
event sets `in_progress` or `completed`; cases from elsewhere (`Opened`) and those of an escalation; one sweep,
one round and one check at a time, since beat starts each once a day and a redelivery follows the loss of
its worker (a task that waits for longer than the broker's visibility timeout is outside the model).

## The runs

Bounds are the constants of the `.cfg` files; symmetry is used for workers and documents where no
liveness property is checked. Deadlock checking is off only where every document may be ingested
and every item settled, or every decision final.

| Run | Asks | Bounds and why they are enough |
|---|---|---|
| `breaker` | `TripsOnlyOnAStreak`, `ShieldsForRecoveryTimeout`, and `Recovers` under fairness | three calls and thresholds 3 and 2: a call admitted before the outage, one probing and one late; timeout 2 distinguishes "not yet" from "just now" |
| `governance_serial` | one request at a time: `ApprovalCloses`, and `Contract`, the refinement of `MakerChecker` | two decisions, as in "approve one, reject the other"; every router but the dashboard's approval items |
| `governance_overlapping` | what two overlapping requests cannot break: `RecordsFourEyes`, `TrailExplainsStatus` | two workers, two users, one decision; the decision router and the dashboard |
| `governance_four_eyes_race` | does four eyes survive an overlap on the row? (no) | one decision, two workers |
| `dlq` | every writer, both retry tasks beside each other and crashes: `AttemptsBounded`, `ResolvedIsFinal`, `KeepsPromise` (the refinement of `RetryQueue`), and `Settles` under fairness | two workers, so that two tasks hold one batch; one document and two items, its failures and a supervisory one; two attempts, so that a first failure differs from the last; two events from outside (`MaxUpsets`), which meet in pairs; 825 thousand states |
| `ingestion_lock` | `RunsUnderLock`, `NoForeignRelease`, and `LockFreed` under fairness | two requests; TTL 4 is twice the time limit, as 7200 s and 3600 s are |
| `watermark` | `SkipsAreExplained`, and `AllAccounted` under fairness | two overlapping runs, weekly or manual; two days of one document each and the day after; one fault; 783 thousand states |
| `watermark_skips` | does the watermark skip no window? (no) | one run, one day, one fault |
| `register` | `PolicyFourEyes`, `GeneratedOnce`, `ApprovedByAnother`, `ApprovedIsSupported`, `AuditIsTrue` | two requests and two users, one obligation, the master and two more policies, one job; eight sets of endpoints (`MCScenarios`) that cover every pair sharing rows, since all at once are too many; 1.4 million states |
| `notifications` | `RegisteredWhileOpen`, `OnlyTheAudience`, `NobodyMissed`, and `LostIsForgotten` under fairness | two connections of one user, one of another tenant: a key with two sockets, two keys; one notice (any number in the proofs) |
| `monitoring` | `FindingsMade`, `DoneMeansMonitored`, `AlertsAccounted`, and `OverdueIsRaised`, `ProcessingEnds` under fairness | two transactions, one profile, a scan of one review with none or one of another customer in its way, one retry, a velocity rule that fires on the second; seven budgets of faults, crashes and requests, which meet in pairs |
| `deadlines` | `SeedCovers`, `CompletedIsKept`, `RemindedOncePerDay`, `OneCasePerFinding`, `CheckKeepsEscalation`, and `NothingOverlooked`, `BreachIsRaised` under fairness | one obligation, one review, one policy to link, three days, two clerks, three cases; six budgets |

The type invariants, and a few invariants a reader may miss here (`CountersMatchState`,
`CountsConsecutiveFailures`, `OverlapExplained`), are theorems about every
instance and are not checked a second time on a small one; only `TypeOK` of `TransactionMonitoring` is
both a theorem and in its run.

Fairness and why the code justifies it:

* breaker: the clock advances; every call ends, because the clients set timeouts; callers keep calling
  (without callers a breaker stays open, and need not close);
* dead letter queue: the beat starts the retry tasks every few hours and a running task makes progress.
  Two things strand an item all the same, and `Settles` names them (`Stranded`): one marked `retrying` by
  a task that dies is picked up by nobody, and so is a pending one whose count has reached the maximum
  through failures that an ingestion added;
* lock: time passes, and a task that reaches its hard time limit is killed;
* watermark: the weekly run keeps being started and goes on until one of a bounded number of faults ends
  it; an entry may still fail, which reports it; no manual run is ever promised;
* notifications: an await returns; no client has to come, speak or leave;
* monitoring: a worker goes on with the task it began and takes the next message (late acknowledgement,
  redelivery of a lost one), beat starts the scan, which ends unless one of a bounded number of faults
  rolls it back; nothing makes an API process send a message it has stored a transaction for, nor
  officers and analysts act;
* deadlines: beat starts the sweep, the reminders and the check daily and they end; days pass freely;
  nothing is assumed of officers and analysts.

Weak fairness is enough everywhere: no action that has to happen is disabled again and again by
another one before it is taken.

## The proofs

Every theorem holds for all values of the constants that satisfy the assumption named in the
module (`ThresholdsAssumption`, `GovernanceAssumption`, `QueueAssumption`, `LockAssumption`,
`WatermarkAssumption`, `LibraryAssumption`, `RegisterAssumption`, `IdentityAssumption`,
`CalendarAssumption`, `NoEventAssumption`, `FindingsAssumption`; these ask for types, for finite sets
where sizes are counted, and that a null differs from the values). TLC evaluates them in the runs.

* **`CircuitBreakerProofs`** - `TypeCorrect`, `CountersAlwaysMatch`, `CounterIsStreak`,
  `OpensOnStreak`, `Shields`. The counter invariants are inductive together with the type
  invariant and the relation between `elapsed` and `sinceOpen`; the two action properties follow
  step by step.
* **`CaseGovernanceProofs`** - `TypeCorrect`, and `RecordsAlwaysFourEyes`: however requests on all
  routers overlap, no immutable record names the maker of a decision as its approver. The
  invariant has to reach into the requests: the records that a request in flight is about to
  write satisfy the same condition (`PendingSigned`), and the creator and the disposition of a row
  never change (`IdentityKept`), so it still holds when the request commits. The type invariant
  needs that the version numbers have a largest one (`LatestExists`). `TrailAlwaysExplains`: whatever
  overlaps, events and records explain the status of every decision. Its invariant
  (`PendingExplained`) says of a request in flight that it carries, or finds in the trail, what
  explains the status it will write, so a commit that overwrites another's row still leaves a row
  that the trail, which only grows, accounts for. `ServiceKeepsContract`: with one request at a time
  (`OneAtATime`) and without the dashboard's approval items, `Spec => Contract`, for any users, number of
  decisions and interleaved changes of the case. A request in flight holds the row as it stands and a
  change of it that the contract allows (`Faithful`), and only approved decisions have records, so the
  commits are `Draft`, `Submit`, `Sign` and `Reject` and every other step stutters. Both assumptions
  are needed: with two requests `FourEyes` fails below, and an approval item is decided whatever its status.
  `FourEyesOneAtATime` and `ApprovalAlwaysCloses` say what else overlap alone can break: one at a
  time, `FourEyes` holds on every endpoint, approval items included, and without those items
  `ApprovalCloses` does. A request in flight still equals the row it loaded, and the case it loaded
  after it is the closed one it will write (`Solo`), so the column-wise commit writes all of it.
* **`DeadLetterQueueProofs`** - `TypeCorrect`, `AttemptsAreBounded`, `ResolvedStaysFinal`,
  `QueueKeepsPromise`, for any number of overlapping retry tasks, crashes and retries by hand. What two
  tasks hold at once is `shared` (`SharedKnown`), and of that nothing is promised until an
  administrator puts it back: the code lets a second task begin an attempt from the count it loaded
  and open a resolved item again. Of every other item the inductive invariant says that the recorded count
  never falls behind the attempts begun, although `Begin` writes it from a stale read (`AttemptsCounted`), and
  what may happen to it in a batch before its turn and in it (`BatchOK`). `StaysResolved` follows
  because the item being settled is `retrying`, never `resolved`. `QueueKeepsPromise` is the refinement:
  `Begin` maps to `Attempt` because nothing but a deletion closes an unshared item of a batch before its turn,
  `Settle` to `Conclude` because nothing but a deletion ends an attempt under way, a selection that takes items
  from a batch to `Contend`, and every other step adds an item, is the administrator's, or leaves all
  statuses alone.
* **`IngestionProofs`** - of the lock: `LockTypeCorrect`, `WorksUnderLock`, `OverlapsAreLate`,
  `OwnersRelease`. The invariant: a key that exists has time to live left, and a request or run that
  is neither late nor redelivered owns the key.
  Of the watermark: `TypeCorrect` and `SkipsAlwaysExplained`, with failing fetches, short manual runs and
  runs past midnight, for any number of overlapping runs and faults. The invariant says, of every run in flight,
  that the documents it no longer has to work off are accounted for up to the day it will write, or on a
  day it remembers not to have seen (`Sound`), and that the watermark is never in the future.
* **`ObligationsProofs`** - `TypeCorrect`, `PoliciesFourEyes`, `GeneratesOnce`, `ApprovedByOthers`,
  `Supported`, `AuditsAreTrue`: the five properties of `register` for any number of requests in
  flight, users, policies and obligations, and with every endpoint in use at once. The invariant
  says of the rows what the properties say (`RowsOK`, `PoliciesOK`, `JobsOK`) and of every request in
  flight what makes its commit harmless (`WritesOK`, `AllFaithful`, `RequestOK`): metadata it will write
  over a row still name the row's creator, and an approval in them is another's, unless a client has
  replaced the creator; a status "approved" it will write comes with a link and a rule, an audit
  record it holds is of a status it commits. `PoliciesFourEyes` then is about each commit (`RowsStand`,
  `ApprovalsStand`). A lemma says once what any step leaves to the
  requests it is not a step of: rows do not disappear, creators do not change, rules stay. The
  subtle part is the link (`LinkSound`): an approved obligation is mapped to the policy it is linked
  to, and a mapped policy cannot be deleted, so the deletion that counted before the mapping was
  inserted fails at its commit, and the approval that looked before the deletion fails at its own.
* **`NotificationsProofs`** - `TypeCorrect`, `RegistryFollowsEndpoints`, `AudienceKept`,
  `NobodyIsMissed`, for any number of connections and of notifications in progress at once. The two
  maps describe one relation (`MapsOK`); of a call in progress, whatever it took in hand was
  registered under a key it is meant for and has been visited, what it found dead is dead
  (`CallOK`), and whoever was asked for is taken or under a key still to come (`Accounted`).
* **`DeadlineFindingsProofs`** - `TypeCorrect`, `SeedingIsComplete`, `CompletionsStay`,
  `OneReminderADay`, `OneCase`, `EscalationsKept`. The properties are inductive
  with what the requests and tasks in flight have loaded: it still exists (`LoadedExists`), what a
  seed does not insert is there (`RestExists`), a decision under the sweep's hands is recorded
  (`VerdictsKnown`), nobody has counted a reminder since the task loaded the count, nor that day
  (`RemindersPast`), and of two
  escalations of a finding that did not see each other both know (`EscalationsKnown`).
* **`TransactionMonitoringProofs`** - `TypeCorrect`, `NothingUnexplained`, `SuccessIsComplete`,
  `AlertsAreAccounted`, without further assumptions: any profiles and transactions of the customer,
  any kinds and scores, faults, retries, crashes, lost races and requests of the office. None of the
  properties is inductive, because every commit writes from what its session read earlier. The
  invariant (`Inductive`) says what makes the stale copy good enough: findings are never deleted,
  nor profiles, and a customer once vetted stays so (`FindingsGrow`), therefore a finding that a
  lookup saw, a profile a row links to and an approval a copy tells of are still there
  (`KnownTrue`, `RowTrue`, `ProfileTrue`); a session or request that will write an enhanced level, a
  hit or a flag either copied it or has the finding among those it commits with it (`SessionTrue`,
  `DeskTrue`); and the phase of a task tells which of its commits are done (`Progress`), although
  a retry or a redelivery starts over. `OtherTask` says once that no step disturbs the tasks
  it is not a step of; `CommitStep` and `KycStep` reduce each commit to the rows it writes. For the
  alerts, a session on the rules has an alert to spare, and one on the velocity rule has read a counter
  that alerts account for (`TaskAccounted`).

Model-checked only: everything under fairness (`Recovers`, `Settles`, `LockFreed`, `AllAccounted`,
`LostIsForgotten`, `OverdueIsRaised`, `ProcessingEnds`, `NothingOverlooked`, `BreachIsRaised`), which is
out of the prover's reach. Every safety and action property a passing run checks is also a theorem.

## Where the code and its documentation part

With a run of its own:

* `FourEyes` under overlap (`governance_four_eyes_race`). Two submissions load the draft. One commits
  and bob approves; the late one then commits `submitted` over the approval, and bob's name stays in
  `approver_id`. Bob approves again, which leaves the column out of his UPDATE because it does not
  change, while the creator, alice, rejects what she loaded at the same time and so writes her own
  name. In the order rejection, approval the row ends approved with its creator as approver. Without
  the stale submission an approval and a rejection are last-writer-wins and keep the rule. The
  immutable record keeps four eyes in every case, which is proved.
* `NoWindowSkipped` (`watermark_skips`). `ingestion/manager.py:406` says "Advance watermark only on
  non-failed runs to avoid skipping windows", but the fetcher logs a failed request and returns an empty list
  (`ingestion/rss.py:205`): the run completes, the watermark moves, and no weekly run asks for that
  window again. `SkipsAreExplained` says what holds instead. It names two more ways to skip a day:
  a manual run that covers fewer days than the watermark is behind (`api/ingestion.py:39` allows one
  day), and a run over midnight, whose window ended on the day it began.

Seen while modelling, without a run. What a model assumes or leaves out because of one is said there.

*Breaker.* A HALF_OPEN breaker lets every call through (`core/circuit_breaker.py:210`), its doc promises
a limited number of probes.

*Cases.* With two overlapping requests a final status is overwritten, two creations get the same
version, and an approval that commits after another request closed or reopened the case leaves columns
of both (`ApprovalCloses` fails). A rejection takes the case back from `decision_pending` even if another
decision of it was approved in between; a rejection after a case was closed by hand leaves it closed,
while the docs (`services/case_decision_service.py:209`) say it stays open. The dashboard's approval of a
decision writes no immutable record, and its close action checks the review requirement on a case loaded
earlier.

*Dead letter queue.*

* An item left `retrying` by a dead worker is never picked up, and the manual retry refuses it
  (`api/ingestion.py:420`); a later ingestion may raise the count of a pending item past `max_retries`,
  where nothing selects it and nothing exhausts it; a supervisory item holds an object where the retry
  parses a string, so it can only be exhausted; a retry by hand starts the task for the oldest item, which need
  not be this one; a crash between the commit of a document and its analysis leaves no item at all.
* Retry tasks that overlap attempt an item more often than `max_retries` and open a resolved one again
  (`worker.py:635-640` does not look at the status; `api/ingestion.py:429` starts a task at once).
* The generic retry of a failed analysis resolves the item whatever the analysis did: the analysis is
  stored without a link, so reprocessing stores a version without URL and counts as "updated". When
  the analysis fails again, its failure is added to the very item that is then resolved, and the document
  stays without analysis and without an open item, though `models/compliance_workflow.py:352` says the
  queue "enables recovery from transient failures". The analysis task, too, resolves an item whose
  seeding the scope filter left out (`worker.py:1086-1098`).

*Ingestion.*

* The feed of Légifrance ignores the window (`ingestion/legifrance.py`), and swallows its errors as well. The
  row of a run whose worker died stays `running`.
* Manual runs can overlap: a task redelivered after it released the lock, or started after its key
  expired, runs next to the owner (`OverlapExplained` says that these are the only ways).
* `ingestion/backfill.py:266` calls the analysis without the required `tenant_id`: every AI analysis of a
  backfill fails with a logged warning before anything is stored. It is the one use of the AI
  budget, which is therefore never written.

*Policies and obligations.*

* Approving an approved obligation again is accepted from its creator and rewrites `approved_by`; the
  check is made on the transition (`api/obligations.py:1358`). `ApprovedByAnother` is about transitions.
* The workflow's approval (`api/compliance_workflow.py:481`) accepts any status, asks for no link or rule and
  writes no audit record.
* A rejection of a generation job overwrites any status, an approved one included; overlapping or
  half-failed approvals of a job create two policies (`reworked`).
* A policy of a tenant made from a template starts with the metadata of its master, `approved_by` included
  (`api/policies.py:262`). A PATCH merges whatever metadata the client sends after the check, so that it can
  replace the creator, after which the creator may approve, and a stale write of the column loses an approver or
  brings one back. `PolicyFourEyes` is therefore about the commit that makes a policy approved, and
  about policies whose creator no client has replaced (`rewritten`).
* A link set by hand without a mapping does not hold a policy: a deletion racing with it strips the
  link of an approved obligation (`waived`). Two bulk approvals in opposite order may deadlock in
  PostgreSQL; one of them fails.

*Notifications.*

* The callers in obligations, policies and risk pass no tenant, so that a notification goes to every
  tenant, and a target user without a tenant falls through to the same broadcast
  (`OnlyTheAudience` is about what the call asked for).
* A connection that comes or goes during a broadcast can end it with a `RuntimeError`: the rest is not
  told and the dead are not cleaned up (`websocket/manager.py:189`).
* `worker.py:403-421` notifies through the registry of the Celery worker, which is empty. Nothing
  starts the heartbeat of `src/docs/phase-4b-intelligence.md:250-252`.

*Monitoring and KYC.*

* Two tasks racing for the velocity finding: the loser's error is swallowed, its session is dead, and the
  transaction is parked in a table that nothing reads. A transient database error there is parked without
  a retry too.
* A database error that leaves the connection valid is raised again at whatever step it happens and
  leaves no item (`tasks/transaction_processing.py:177-211`), a lost race in one of the last two
  transactions among them (`src/apps/api/tests/integration/test_transaction_processing_dlq.py:16` expects
  one of a failed task). `retry(exc=exc)` raises `exc` when the retries are used up, so the branch for
  `MaxRetriesExceededError` is probably dead.
* A mirror that reads the profile before another task's escalation takes the flag back, a new KYC
  application clears it at the customer's next transaction, and one mirror can mix two states of a
  profile. `alert_count` loses updates; retries repeat alerts and open closed findings again.
* A reviewed profile stays due: `complete_review` and `approve_onboarding` are called by nothing and the
  review moves no date, so the nightly scan opens its closed finding again every night. The scan takes
  the 200 reviews of a tenant that are overdue the longest and moves none of them out of its way, so once
  there are more it starves the rest for ever: `OverdueIsRaised` excepts a profile while scans are
  crowded. A crash of the API between commit and `.delay` loses the processing of a stored transaction,
  hence "queued" in `ProcessingEnds`.

*Deadlines.*

* The reminder task counts reminders and sends nothing (`src/docs/product/regulatory-pipeline-plan.md:27`
  promises alerts). A completion that meets the sweep in flight becomes overdue, and is reminded daily
  (`raced`). A review date that moves leaves its old event, which goes overdue. The fingerprint of a
  change contains today plus seven days: asked again on another day, it makes another event, and so does
  a deadline once its obligation is linked to another policy. Nothing seeds by itself.
* The check never closes its findings, opens them again daily while overdue, and does so for approved
  obligations. A failure with one finding of a tenant rolls all back, and the e-mail is sent anyway.
* PATCH takes any status: a finding may be "escalated" without a case, and taken back from escalated.
* Two escalations at the same moment create two cases (`overlapped`), against the comment
  "Idempotency" (`api/findings.py:258`); two equal links at once end in an error 500.

*Alerts* (not modelled): appending to a JSON column in place is not noticed by SQLAlchemy, so that
`add_alert_note` on evidence that is not empty loses the note, though
`src/docs/engineering/api/API_COMPATIBILITY.md:55` says it "Appends note entries to alert evidence metadata";
likewise related alerts and evidence of a case. A snooze clones (`api/alerts.py:586`), and a case made from
an alert twice is two cases.

## Not modelled

Every part is a component in `PROJECT.json`, with its status and the reason.

* *Nothing to check beyond one statement*: alerts (each handler is one unguarded write, the last one
  wins), monitoring rules, sections of policies, tenants and their settings, dashboards' preferences and
  read sides, risk links, notes.
* *Cannot run as it stands*: the deadline reminders. No beat schedule names `tasks/reminders.py`, it
  subtracts an aware from a naive date at its first row, its tables are made by a SQLite script only,
  `send-now` passes a reminder type the enumeration rejects, and `next_reminder_at` is read by nothing. The AI
  budget (see above). The event bus, which is off unless `EVENT_BUS_ENABLED`, and to which nothing subscribes.
* *Out of reach of these tools*: parsing and text comparison, the language model and its agents, search
  engines, sanctions lists and other vendors, floating-point scoring and machine learning. What they decide is
  a nondeterministic outcome where a model needs it.
* *Left to tests*: authentication tokens, per-request middleware, tenancy filters (every model is of one
  tenant but `Notifications`), caches with an expiry, metrics, the web frontend, migrations and scripts.
* *Parts of modelled components*: PATCH of a transaction (for batches see the plan), the documents of a KYC profile
  and KYB profiles, findings made by hand and their unlinking, duplicate masters of a template, the
  dashboard's alert items.

External to `src/` and modelled from how the code uses it: READ COMMITTED transactions and
SQLAlchemy's column-wise UPDATE (`MergeDecision`, `MergeCase`, `Merged`, `Written`), Redis' `SET NX EX`
and expiry (`Free`, `Expires`), Celery's late acknowledgement (`WorkerLost`, `Crash`), Python's iteration over
a dictionary that changes (`Raise`), the feed and the calendar (`Publish`, `NextDay`).

## Plan

1. *KYC*: the documents of a profile, their expiry check, and KYB profiles.
2. *Transactions*: PATCH of a transaction under way. Batch ingestion commits all rows and sends them one
   by one: to the tasks, an order of `Ingest` and `Send` among those the model has.
3. *Composition*: `DeadLetterQueue` with `IngestionWatermark`, so that an entry "handled" means a
   document processed or in the queue.
