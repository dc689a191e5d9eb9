------------------------- MODULE IngestionWatermark -------------------------
(***************************************************************************)
(* Incremental ingestion of one source (ingestion/manager.py): a run       *)
(* fetches the documents published since the day of the source's           *)
(* watermark, last_ingested_at, works them off, and moves the watermark to *)
(* the moment it completed unless it failed.  What lies before the         *)
(* watermark is never asked for again by a weekly run.                     *)
(*                                                                         *)
(* EUR-Lex sources do not share rows, so one stands for each language.     *)
(* The feed of Legifrance is not asked for a window: it is not modelled.   *)
(***************************************************************************)
EXTENDS Naturals, FiniteSets

CONSTANTS
  Workers,    \* Celery worker processes
  MaxDay,     \* bound on the days that pass; nothing is published on the last one
  PerDay,     \* bound on the documents published in a day
  MaxFaults,  \* bound on crashes, fetch errors, interrupts and deactivations
  Never       \* last_ingested_at of a new source

Days == 0..MaxDay

ASSUME WatermarkAssumption ==
  /\ MaxDay \in Nat /\ PerDay \in Nat /\ MaxFaults \in Nat
  /\ Never \notin Days

VARIABLES
  today,      \* the date; day 0 is EURLEX_OJ_START_DATE
  active,     \* is_active of the source
  watermark,  \* last_ingested_at of the source; only its date matters
  published,  \* external: the documents the feed of the source lists, with their dates
  handled,    \* documents stored, found unchanged, or refused by the scope filter
  reported,   \* documents that the errors_json of an ended run names
  run,        \* per worker: the run it executes, or Idle
  overlooked, \* history: the days that runs which moved the watermark did not look at
  faults      \* number of faults so far

vars == <<today, active, watermark, published, handled, reported, run, overlooked, faults>>

Document == {day \in Days : day < MaxDay} \X (1..PerDay)
Day(d) == d[1]

Idle == [step |-> "none"]

\* seen: how many results the run counts; errors: the entries whose processing failed;
\* raised: the exception clause around the fetch and the processing was entered.  unseen is
\* history: the days before the run's end, from the watermark on, that it did not look at.
Run ==
  [step : {"fetching"}, start : Days, end : Days, unseen : SUBSET Days]
  \cup [step : {"processing"}, todo : SUBSET Document, seen : Nat, errors : SUBSET Document,
        raised : BOOLEAN, end : Days, unseen : SUBSET Days]
  \cup [step : {"advancing"}, completed : Days, unseen : SUBSET Days]

TypeOK ==
  /\ today \in Days
  /\ active \in BOOLEAN
  /\ watermark \in Days \cup {Never}
  /\ published \subseteq Document
  /\ handled \subseteq Document
  /\ reported \subseteq Document
  /\ run \in [Workers -> Run \cup {Idle}]
  /\ overlooked \subseteq Days
  /\ faults \in 0..MaxFaults

Init ==
  /\ today = 0
  /\ active = TRUE
  /\ watermark = Never
  /\ published = {}
  /\ handled = {}
  /\ reported = {}
  /\ run = [w \in Workers |-> Idle]
  /\ overlooked = {}
  /\ faults = 0

Goto(w, next) == run' = [run EXCEPT ![w] = next]

Fault ==
  /\ faults < MaxFaults
  /\ faults' = faults + 1

\* The days from one to just before another.
DaysFrom(first, last) == {day \in Days : first <= day /\ day < last}
-----------------------------------------------------------------------------
(* The world.                                                              *)

Publish ==
  /\ \E d \in Document \ published :
       /\ Day(d) = today
       /\ published' = published \cup {d}
  /\ UNCHANGED <<today, active, watermark, handled, reported, run, overlooked, faults>>

NextDay ==
  /\ today < MaxDay
  /\ today' = today + 1
  /\ UNCHANGED <<active, watermark, published, handled, reported, run, overlooked, faults>>

\* toggle_source.
Deactivate ==
  /\ active
  /\ Fault
  /\ active' = FALSE
  /\ UNCHANGED <<today, watermark, published, handled, reported, run, overlooked>>

Activate ==
  /\ ~active
  /\ active' = TRUE
  /\ UNCHANGED <<today, watermark, published, handled, reported, run, overlooked, faults>>
-----------------------------------------------------------------------------
(* A run, _process_source.                                                 *)

WindowStartMutant == IF watermark = Never THEN 0 ELSE watermark + 1

\* resolved_start of a weekly run: the whole day of the watermark is asked for again.
WindowStart == IF watermark = Never THEN 0 ELSE watermark

\* An inactive source is skipped.
Begin(w, start) ==
  /\ run[w] = Idle
  /\ active
  /\ Goto(w, [step |-> "fetching", start |-> start, end |-> today,
              unseen |-> DaysFrom(WindowStart, start)])
  /\ UNCHANGED <<today, active, watermark, published, handled, reported, overlooked, faults>>

Weekly(w) == Begin(w, WindowStart)

\* now - days_back .. now, whatever the watermark is; day 0 stands for earlier days too.
Manual(w) ==
  \E start \in Days :
    /\ start < today \/ start = 0
    /\ Begin(w, start)

Listed(start, end) == {d \in published : start <= Day(d) /\ Day(d) <= end}

Processing(entries, end, unseen) ==
  [step |-> "processing", todo |-> entries, seen |-> Cardinality(entries), errors |-> {},
   raised |-> FALSE, end |-> end, unseen |-> unseen]

Fetch(w) ==
  /\ run[w].step = "fetching"
  /\ Goto(w, Processing(Listed(run[w].start, run[w].end), run[w].end, run[w].unseen))
  /\ UNCHANGED <<today, active, watermark, published, handled, reported, overlooked, faults>>

\* The request fails, and so do its retries: the fetcher logs it and returns no entries.
FetchError(w) ==
  /\ run[w].step = "fetching"
  /\ Fault
  /\ Goto(w, Processing({}, run[w].end,
                        run[w].unseen \cup DaysFrom(run[w].start, run[w].end)))
  /\ UNCHANGED <<today, active, watermark, published, handled, reported, overlooked>>

ProcessEntry(w) ==
  /\ run[w].step = "processing"
  /\ \E d \in run[w].todo :
       /\ Goto(w, [run[w] EXCEPT !.todo = @ \ {d}])
       /\ handled' = handled \cup {d}
  /\ UNCHANGED <<today, active, watermark, published, reported, overlooked, faults>>

EntryError(w) ==
  /\ run[w].step = "processing"
  /\ \E d \in run[w].todo :
       Goto(w, [run[w] EXCEPT !.todo = @ \ {d}, !.errors = @ \cup {d}])
  /\ UNCHANGED <<today, active, watermark, published, handled, reported, overlooked, faults>>

\* The soft time limit while several entries are processed in parallel: the executor works
\* off the rest, the results are lost and the exception is recorded as a failed fetch.
Interrupt(w) ==
  /\ run[w].step = "processing"
  /\ run[w].seen > 1
  /\ Fault
  /\ Goto(w, [run[w] EXCEPT !.seen = 0, !.raised = TRUE])
  /\ UNCHANGED <<today, active, watermark, published, handled, reported, overlooked>>

RunStatusMutant(erroneous, seen) == IF erroneous THEN "partial" ELSE "completed"

RunStatus(erroneous, seen) ==
  CASE erroneous /\ seen = 0 -> "failed"
    [] erroneous /\ seen > 0 -> "partial"
    [] ~erroneous            -> "completed"

Status(w) == RunStatus(run[w].raised \/ run[w].errors # {}, run[w].seen)

\* The run's row is written first, the watermark in a commit of its own.
Complete(w) ==
  /\ run[w].step = "processing"
  /\ run[w].todo = {}
  /\ reported' = reported \cup (IF run[w].raised THEN {} ELSE run[w].errors)
  /\ Goto(w, IF Status(w) = "failed" THEN Idle
             ELSE [step |-> "advancing", completed |-> today,
                   unseen |-> run[w].unseen \cup DaysFrom(run[w].end, today)])
  /\ UNCHANGED <<today, active, watermark, published, handled, overlooked, faults>>

\* source.last_ingested_at = run.completed_at.
Advance(w) ==
  /\ run[w].step = "advancing"
  /\ watermark' = run[w].completed
  /\ overlooked' = overlooked \cup run[w].unseen
  /\ Goto(w, Idle)
  /\ UNCHANGED <<today, active, published, handled, reported, faults>>

\* The worker dies, or a database error makes its session unusable: what was committed stays.
Crash(w) ==
  /\ run[w] # Idle
  /\ Fault
  /\ Goto(w, Idle)
  /\ UNCHANGED <<today, active, watermark, published, handled, reported, overlooked>>

RunStep(w) == Weekly(w) \/ Fetch(w) \/ ProcessEntry(w) \/ Complete(w) \/ Advance(w)

Next ==
  \/ Publish \/ NextDay \/ Deactivate \/ Activate
  \/ \E w \in Workers :
       \/ RunStep(w) \/ Manual(w)
       \/ FetchError(w) \/ EntryError(w) \/ Interrupt(w) \/ Crash(w)

Spec == Init /\ [][Next]_vars

\* The beat starts runs, and a run makes progress until a fault ends it.
FairSpec == Spec /\ \A w \in Workers : WF_vars(RunStep(w))
-----------------------------------------------------------------------------
(* Properties.                                                             *)

Accounted(d) == d \in handled \/ d \in reported

\* manager.py: "Advance watermark only on non-failed runs to avoid skipping windows."
NoWindowSkipped ==
  watermark # Never => \A d \in published : Day(d) < watermark => Accounted(d)

\* What does hold: a document dated before the watermark, which no weekly run will ask for
\* again, was handled or is named by a run's errors, unless a run that moved the watermark
\* never looked at its day - a manual run began after it, the fetcher swallowed its error, or
\* the run passed midnight.  Results that an interrupt loses, failed entries, crashes,
\* overlapping runs and documents late on the day of the watermark skip nothing.
SkipsAreExplained ==
  watermark # Never =>
    \A d \in published : Day(d) < watermark => Accounted(d) \/ Day(d) \in overlooked

\* Every document published while the source stays on is handled or reported in the end,
\* unless the watermark was moved by a run that did not look at its day.
AllAccounted ==
  \A d \in Document :
    d \in published ~> (Accounted(d) \/ ~active \/ Day(d) \in overlooked)
=============================================================================
