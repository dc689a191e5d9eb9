-------------------------- MODULE DeadLetterQueue --------------------------
(***************************************************************************)
(* The dead letter queue of the ingestion pipeline: the rows of            *)
(* FailedIngestionItem, written by the ingestion (ingestion/processor.py,  *)
(* ingestion/manager.py), by the two retry tasks of worker.py and by the   *)
(* administrator's handlers of api/ingestion.py.                           *)
(*                                                                         *)
(* A retry task selects a batch and then works it off one item at a time,  *)
(* with a commit after each step: the attempt is counted (Begin), made     *)
(* (Analyse, Reprocess) and its verdict written (Settle).  It never looks  *)
(* at the status of an item again after selecting it.                      *)
(***************************************************************************)
EXTENDS Naturals, Sequences, FiniteSets

CONSTANTS
  Workers,     \* Celery worker processes
  Docs,        \* documents, by CELEX number
  MaxRetries,  \* max_retries of every item
  MaxItems,    \* bound on the number of items ever created
  MaxUpsets,   \* bound on the events from outside: ingestions, crashes, retries by hand, deletions
  None         \* the CELEX of a supervisory item

ASSUME QueueAssumption ==
  /\ MaxRetries \in Nat \ {0}
  /\ MaxItems \in Nat
  /\ MaxUpsets \in Nat
  /\ None \notin Docs

VARIABLES
  items,     \* the failed_ingestion_items rows, in order of creation
  docs,      \* what the documents' rows say of their analysis
  task,      \* per worker: the task it runs, or Idle
  attempts,  \* history: per item, attempts begun since it was created or put back by hand; not
             \* counted while it is shared
  shared,    \* history: the items that two retry tasks held at once, until they are put back
             \* by hand with no task holding them
  upsets     \* how many of MaxUpsets have happened

vars == <<items, docs, task, attempts, shared, upsets>>

Ids == 1..MaxItems

\* celex None: a supervisory item (supervisory_*); otherwise source_key is ai_analysis.
\* "deleted" is a row that is gone.
Item ==
  [celex : Docs \cup {None}, count : Nat,
   status : {"pending", "retrying", "resolved", "exhausted", "deleted"}]

\* analyzed: analyzed_at is set; relinked: a version without a source URL was stored.
Document == [analyzed : BOOLEAN, relinked : BOOLEAN]

Idle == [job |-> "none"]

\* seen is the head of the queue as the session loaded it last.
Retry ==
  [job : {"ai", "generic"}, step : {"loaded", "trying"},
   queue : (SUBSET Ids) \ {{}}, seen : Item]
  \cup
  [job : {"ai", "generic"}, step : {"settling"}, queue : (SUBSET Ids) \ {{}},
   verdict : {"pending", "resolved", "exhausted"}]

Ingest == [job : {"ingest"}, doc : Docs]

TypeOK ==
  /\ items \in Seq(Item)
  /\ Len(items) <= MaxItems
  /\ docs \in [Docs -> Document]
  /\ task \in [Workers -> Retry \cup Ingest \cup {Idle}]
  /\ attempts \in [Ids -> 0..(MaxRetries + 1)]
  /\ shared \subseteq Ids
  /\ upsets \in 0..MaxUpsets

Init ==
  /\ items = <<>>
  /\ docs = [d \in Docs |-> [analyzed |-> FALSE, relinked |-> FALSE]]
  /\ task = [w \in Workers |-> Idle]
  /\ attempts = [i \in Ids |-> 0]
  /\ shared = {}
  /\ upsets = 0

Upset == upsets < MaxUpsets /\ upsets' = upsets + 1
-----------------------------------------------------------------------------
(* Rows.                                                                   *)

Open(i) == items[i].status \in {"pending", "retrying"}

NewItem(celex) == [celex |-> celex, count |-> 0, status |-> "pending"]

AddItem(celex) ==
  /\ Len(items) < MaxItems
  /\ items' = Append(items, NewItem(celex))

\* _save_analysis_failure_to_dlq: one more failure on an open item of the document (.first()
\* of an unordered query), or a new item; an error of the write itself is only logged.
SaveAnalysisFailure(d) ==
  LET open == {i \in DOMAIN items : items[i].celex = d /\ Open(i)} IN
  \/ UNCHANGED items
  \/ open = {} /\ AddItem(d)
  \/ \E i \in open : items' = [items EXCEPT ![i].count = @ + 1]

\* The ways an analysis ends: the document has no text, it fails, the seeding of the
\* obligations fails after it, or all is done (the seeding is left out when the document is
\* out of scope or the scope filter invalid).
Outcomes == {"no text", "failed", "unseeded", "done"}

Analysed(doc, outcome) ==
  IF outcome \in {"unseeded", "done"} THEN [doc EXCEPT !.analyzed = TRUE] ELSE doc

\* process_entry, after the commit of the document: its analysis, whose failure goes to the
\* queue.
Analysis(d, doc) ==
  \E outcome \in Outcomes :
    /\ docs' = [docs EXCEPT ![d] = Analysed(doc, outcome)]
    /\ IF outcome \in {"failed", "unseeded"} THEN SaveAnalysisFailure(d) ELSE UNCHANGED items
-----------------------------------------------------------------------------
(* Ingestion.                                                              *)

\* process_entry, up to the commit of the document: it is new, changed, or not yet analysed.
IngestEntry(w) ==
  /\ Upset
  /\ task[w] = Idle
  /\ \E d \in Docs : task' = [task EXCEPT ![w] = [job |-> "ingest", doc |-> d]]
  /\ UNCHANGED <<items, docs, attempts, shared>>

IngestAnalysis(w) ==
  /\ task[w].job = "ingest"
  /\ task' = [task EXCEPT ![w] = Idle]
  /\ Analysis(task[w].doc, docs[task[w].doc])
  /\ UNCHANGED <<attempts, shared, upsets>>

\* _record_supervisory_failure.
SupervisoryFailure ==
  /\ AddItem(None)
  /\ UNCHANGED <<docs, task, attempts, shared, upsets>>
-----------------------------------------------------------------------------
(* The retry tasks.                                                        *)

RetryableMutant(i) ==
  items[i].status \in {"pending", "retrying"} /\ items[i].count < MaxRetries

\* The filter of both selections.
Retryable(i) == items[i].status = "pending" /\ items[i].count < MaxRetries

Selected(job) == {i \in DOMAIN items : Retryable(i) /\ (job = "ai" => items[i].celex # None)}

First(ids) == CHOOSE i \in ids : \A j \in ids : i <= j

Loaded(job, queue) ==
  [job |-> job, step |-> "loaded", queue |-> queue, seen |-> items[First(queue)]]

\* The beat's limit of 10 covers MaxItems; the task an administrator starts with a retry by
\* hand asks for the oldest item only.
Batches(job) ==
  IF Selected(job) = {} THEN {}
  ELSE {Selected(job)} \cup (IF job = "generic" THEN {{First(Selected(job))}} ELSE {})

Holds(w, i) == task[w].job \in {"ai", "generic"} /\ i \in task[w].queue

\* The items that a retry task has in its batch and has not settled.
Held == {i \in DOMAIN items : \E w \in Workers : Holds(w, i)}

\* Nothing keeps two retry tasks apart: the beat's, the administrator's, a redelivered one.
SelectItems(w) ==
  /\ task[w] = Idle
  /\ \E job \in {"ai", "generic"} : \E batch \in Batches(job) :
       /\ task' = [task EXCEPT ![w] = Loaded(job, batch)]
       /\ shared' = shared \cup (batch \cap Held)
       /\ attempts' = [i \in Ids |-> IF i \in batch \cap Held THEN 0 ELSE attempts[i]]
  /\ UNCHANGED <<items, docs, upsets>>

CountedMutant(n) == n

\* retry_count += 1, committed before the attempt is made.
Counted(n) == n + 1

\* The attempt is counted and the item marked, from the values loaded; a row that is gone
\* raises and ends the task.
Begin(w) ==
  /\ task[w].job \in {"ai", "generic"} /\ task[w].step = "loaded"
  /\ LET i == First(task[w].queue)
         seen == task[w].seen
         row == [items[i] EXCEPT !.count = Counted(seen.count),
                                 !.status = IF seen.status = "retrying" THEN @ ELSE "retrying"]
     IN
     \/ /\ items[i].status = "deleted"
        /\ task' = [task EXCEPT ![w] = Idle]
        /\ UNCHANGED <<items, attempts>>
     \/ /\ items[i].status # "deleted"
        /\ items' = [items EXCEPT ![i] = row]
        /\ task' = [task EXCEPT ![w] = [@ EXCEPT !.step = "trying", !.seen = row]]
        /\ attempts' = [attempts EXCEPT ![i] = IF i \in shared \/ @ > MaxRetries THEN @ ELSE @ + 1]
  /\ UNCHANGED <<docs, shared, upsets>>

Verdict(w, verdict) ==
  task' = [task EXCEPT ![w] = [job |-> task[w].job, step |-> "settling",
                               queue |-> task[w].queue, verdict |-> verdict]]

FailedVerdict(count) == IF count < MaxRetries THEN "pending" ELSE "exhausted"

\* retry_failed_ai_analysis: when the analysis itself fails, the count compared is the one
\* loaded before it; later failures and the success follow a commit of the document.  Whether
\* the obligations were seeded or left out for the scope filter, the item is resolved.
AnalysisVerdict(outcome, seen, current) ==
  CASE outcome = "failed"   -> FailedVerdict(seen)
    [] outcome = "unseeded" -> FailedVerdict(current)
    [] outcome = "done"     -> "resolved"

Analyse(w) ==
  /\ task[w].job = "ai" /\ task[w].step = "trying"
  /\ LET i == First(task[w].queue) IN
     \E outcome \in Outcomes \ {"no text"} :
       /\ docs' = [docs EXCEPT ![items[i].celex] = Analysed(@, outcome)]
       /\ Verdict(w, AnalysisVerdict(outcome, task[w].seen.count, items[i].count))
  /\ UNCHANGED <<items, attempts, shared, upsets>>

\* process_entry on the stored entry of an AI item, {doc_id, celex, action, original_entry}:
\* it has no link, so the first time a version without URL is stored and the document is
\* updated; later it is when a missing text is extracted.  An updated document is analysed
\* again, one already analysed is left alone otherwise.  A failure of the analysis goes to
\* the queue and does not change the result.
Reprocess(w) ==
  /\ task[w].job = "generic" /\ task[w].step = "trying"
  /\ LET i == First(task[w].queue)
         d == items[i].celex
     IN
     /\ d # None
     /\ \E updated \in (IF docs[d].relinked THEN BOOLEAN ELSE {TRUE}) :
          /\ IF docs[d].analyzed /\ ~updated
             THEN UNCHANGED <<items, docs>>
             ELSE Analysis(d, [docs[d] EXCEPT !.relinked = TRUE])
          /\ Verdict(w, IF updated THEN "resolved" ELSE FailedVerdict(items'[i].count))
  /\ UNCHANGED <<attempts, shared, upsets>>

\* The entry does not match the scope filter (the stored one has no summary to match), or
\* it is a supervisory entry, stored as an object, which json.loads does not take.
RefuseEntry(w) ==
  /\ task[w].job = "generic" /\ task[w].step = "trying"
  /\ Verdict(w, FailedVerdict(items[First(task[w].queue)].count))
  /\ UNCHANGED <<items, docs, attempts, shared, upsets>>

Settle(w) ==
  /\ task[w].job \in {"ai", "generic"} /\ task[w].step = "settling"
  /\ LET i == First(task[w].queue)
         rest == task[w].queue \ {i}
     IN
     /\ \/ items[i].status = "deleted" /\ UNCHANGED items
        \/ items[i].status # "deleted" /\ items' = [items EXCEPT ![i].status = task[w].verdict]
     /\ task' = [task EXCEPT ![w] =
          IF rest = {} \/ items[i].status = "deleted" THEN Idle
          ELSE [job |-> task[w].job, step |-> "loaded", queue |-> rest, seen |-> items[First(rest)]]]
  /\ UNCHANGED <<docs, attempts, shared, upsets>>

\* The process is killed (hard time limit, lost worker), or a database error makes its
\* session unusable and the task raises: what it committed stays.
Crash(w) ==
  /\ Upset
  /\ task[w] # Idle
  /\ task' = [task EXCEPT ![w] = Idle]
  /\ UNCHANGED <<items, docs, attempts, shared>>
-----------------------------------------------------------------------------
(* The administrator.                                                      *)

RefusedByHandMutant(status) == status \in {"retrying", "deleted"}

\* retry_failed_item refuses items that are resolved or being retried.
RefusedByHand(status) == status \in {"resolved", "retrying", "deleted"}

\* max(0, retry_count - 1): "Give it another chance".
AnotherChance(n) == IF n = 0 THEN 0 ELSE n - 1

\* The task that the handler starts is the batch of one of SelectItems.
RetryByHand(i) ==
  /\ Upset
  /\ ~RefusedByHand(items[i].status)
  /\ items' = [items EXCEPT ![i] = [@ EXCEPT !.status = "pending",
                                             !.count = AnotherChance(items[i].count)]]
  /\ attempts' = [attempts EXCEPT ![i] = 0]
  /\ shared' = IF i \in Held THEN shared ELSE shared \ {i}
  /\ UNCHANGED <<docs, task>>

DeleteItem(i) ==
  /\ Upset
  /\ items[i].status # "deleted"
  /\ items' = [items EXCEPT ![i].status = "deleted"]
  /\ UNCHANGED <<docs, task, attempts, shared>>

RetryTask(w) == SelectItems(w) \/ Begin(w) \/ Analyse(w) \/ Reprocess(w) \/ RefuseEntry(w) \/ Settle(w)

Next ==
  \/ \E w \in Workers : IngestEntry(w) \/ IngestAnalysis(w) \/ RetryTask(w) \/ Crash(w)
  \/ SupervisoryFailure
  \/ \E i \in DOMAIN items : RetryByHand(i) \/ DeleteItem(i)

Spec == Init /\ [][Next]_vars

\* The beat keeps starting retries and the tasks that run make progress.
Fairness ==
  \A w \in Workers :
    /\ WF_vars(RetryTask(w))
    /\ WF_vars(IngestAnalysis(w))

FairSpec == Spec /\ Fairness
-----------------------------------------------------------------------------
(* Properties.                                                             *)

\* A poisonous item cannot be retried for ever: between two retries by hand at most
\* max_retries attempts are begun on it, whatever crashes in the middle of them, whatever
\* other failures of the document are added to its count and whatever tasks run beside.
\* Only an item that two retry tasks held at once may be attempted more often: each writes
\* the count it loaded, plus one.
AttemptsBounded == \A i \in DOMAIN items : attempts[i] <= MaxRetries

\* A resolved item is never retried again, by hand or by a batch that selected it before.
\* Only a second task that still holds the item opens it again (it marks the item without
\* looking at its status).
ResolvedIsFinal ==
  [][\A i \in DOMAIN items :
       items[i].status = "resolved" /\ i \notin shared \cap Held =>
         items'[i].status \in {"resolved", "deleted"}]_vars

\* The life of an item as the queue promises it, whatever runs and crashes in between
\* (retry_failed_ai_analysis, retry_failed_ingestions, retry_failed_item).
Contended(i) == i \in shared /\ items[i].status # "deleted"

RetryQueue == INSTANCE RetryQueue WITH
  status <- [i \in Ids |-> IF i \notin DOMAIN items THEN "none"
                           ELSE IF Contended(i) THEN "contended" ELSE items[i].status],
  tries <- attempts

KeepsPromise == RetryQueue!Spec

\* "enables recovery from transient failures": no item stays open for ever, except in two
\* ways: an attempt lost with its worker leaves it retrying, and failures of an ingestion
\* added to its count during an attempt leave it pending with no attempt left.
Unsettled(i) == i \in DOMAIN items /\ Open(i)

Stranded(i) ==
  /\ i \in DOMAIN items \ Held
  /\ \/ items[i].status = "retrying"
     \/ items[i].status = "pending" /\ items[i].count >= MaxRetries

Settles == \A i \in Ids : Unsettled(i) ~> (~Unsettled(i) \/ Stranded(i))
=============================================================================
