--------------------------- MODULE IngestionProofs ---------------------------
(***************************************************************************)
(* Theorems about the two halves of ingestion, for every value of their    *)
(* constants: the lock of manual runs (IngestionLock) and the watermark of *)
(* a source (IngestionWatermark).                                          *)
(***************************************************************************)
EXTENDS IngestionLock, IngestionWatermark, FiniteSetTheorems, TLAPS

-----------------------------------------------------------------------------
(* The lock, for every set of owners, time to live and time limit, also    *)
(* when the time to live is shorter than the time limit.                   *)

\* A key that is there has time to live left.
KeyAlive == \A t \in Tokens : lock = t => held[t] < TTL

\* From the moment a request has taken the lock to the end of its task, the lock is its own
\* unless its time is over or an earlier delivery released it.
OwnerHolds ==
  \A t \in Tokens :
    phase[t] \in {"acquired", "queued", "running"} => lock = t \/ held[t] = TTL \/ returning[t]

\* The inductive invariant.  RunsUnderLock alone is not inductive: a task starts from
\* "queued", so the lock must be followed from the request on; and it is the time left that
\* ties the key to the request that set it.
LockIInv == LockTypeOK /\ KeyAlive /\ OwnerHolds

LEMMA InitLockIInv == LockInit => LockIInv
BY LockAssumption DEF LockInit, LockIInv, LockTypeOK, Phases, KeyAlive, OwnerHolds

LEMMA NextLockIInv == LockIInv /\ [LockNext]_lockVars => LockIInv'
<1> SUFFICES ASSUME LockIInv, [LockNext]_lockVars PROVE LockIInv'
  OBVIOUS
<1> USE LockAssumption DEF LockIInv, LockTypeOK, Phases, KeyAlive, OwnerHolds
<1>1. ASSUME NEW t \in Tokens, Acquire(t) PROVE LockIInv'
  BY <1>1 DEF Acquire, Free, Move
<1>2. ASSUME NEW t \in Tokens, Enqueue(t) PROVE LockIInv'
  BY <1>2 DEF Enqueue, Move
<1>3. ASSUME NEW t \in Tokens, EnqueueFails(t) PROVE LockIInv'
  BY <1>3 DEF EnqueueFails, Move, Release, Unlocked
<1>4. ASSUME NEW t \in Tokens, RequestLost(t) PROVE LockIInv'
  BY <1>4 DEF RequestLost, Move
<1>5. ASSUME NEW t \in Tokens, Start(t) PROVE LockIInv'
  BY <1>5 DEF Start, Move
<1>6. ASSUME NEW t \in Tokens, Finish(t) PROVE LockIInv'
  BY <1>6 DEF Finish, Move, Release, Unlocked
<1>7. ASSUME NEW t \in Tokens, Acknowledge(t) PROVE LockIInv'
  BY <1>7 DEF Acknowledge, Move
<1>8. ASSUME NEW t \in Tokens, Killed(t) PROVE LockIInv'
  BY <1>8 DEF Killed, Move
<1>9. ASSUME NEW t \in Tokens, WorkerLost(t) PROVE LockIInv'
  BY <1>9 DEF WorkerLost, Move
<1>10. CASE Tick
  BY <1>10 DEF Tick, Expires
<1>11. CASE UNCHANGED lockVars
  BY <1>11 DEF lockVars
<1> QED
  BY <1>1, <1>2, <1>3, <1>4, <1>5, <1>6, <1>7, <1>8, <1>9, <1>10, <1>11 DEF LockNext

LEMMA LockInductive == LockSpec => []LockIInv
BY InitLockIInv, NextLockIInv, PTL DEF LockSpec

\* The key, the requests and their clocks keep their types (worker.py, api/ingestion.py).
THEOREM LockTypeCorrect == LockSpec => []LockTypeOK
<1>1. LockIInv => LockTypeOK
  BY DEF LockIInv
<1> QED
  BY <1>1, LockInductive, PTL

\* A manual run works under its own lock unless its time to live is over or an earlier
\* delivery of the task released it (run_manual_ingestion_locked).
THEOREM WorksUnderLock == LockSpec => []RunsUnderLock
<1>1. LockIInv => RunsUnderLock
  BY DEF LockIInv, OwnerHolds, RunsUnderLock
<1> QED
  BY <1>1, LockInductive, PTL

\* Only late or redelivered tasks overlap another run (acquire_manual_ingestion_lock).
THEOREM OverlapsAreLate == LockSpec => []OverlapExplained
<1>1. LockIInv => OverlapExplained
  BY DEF LockIInv, OwnerHolds, OverlapExplained
<1> QED
  BY <1>1, LockInductive, PTL

\* A key with time to live left disappears only by an action of its owner
\* (_LOCK_RELEASE_LUA), however late the others are.
THEOREM OwnersRelease == LockSpec => NoForeignRelease
<1> DEFINE A == lock # None /\ lock' # lock => phase'[lock] # phase[lock] \/ held'[lock] = TTL
<1>1. LockIInv /\ [LockNext]_lockVars => [A]_lockVars
  <2> SUFFICES ASSUME LockIInv, LockNext, lock # None, lock' # lock
               PROVE  phase'[lock] # phase[lock] \/ held'[lock] = TTL
    BY DEF lockVars
  <2> USE LockAssumption DEF LockIInv, LockTypeOK, Phases, KeyAlive
  <2>0. lock \in Tokens
    OBVIOUS
  <2>1. ASSUME NEW t \in Tokens, Acquire(t) PROVE FALSE
    BY <2>1 DEF Acquire, Free
  <2>2. ASSUME NEW t \in Tokens, EnqueueFails(t) \/ Finish(t) PROVE phase'[lock] # phase[lock]
    BY <2>0, <2>2 DEF EnqueueFails, Finish, Move, Release, Unlocked
  <2>3. CASE Tick
    BY <2>0, <2>3 DEF Tick, Expires
  <2>4. ASSUME NEW t \in Tokens,
               Enqueue(t) \/ RequestLost(t) \/ Start(t) \/ Acknowledge(t) \/ Killed(t) \/ WorkerLost(t)
        PROVE  FALSE
    BY <2>4 DEF Enqueue, RequestLost, Start, Acknowledge, Killed, WorkerLost
  <2> QED
    BY <2>1, <2>2, <2>3, <2>4 DEF LockNext
<1> QED
  BY <1>1, LockInductive, PTL DEF LockSpec, NoForeignRelease

-----------------------------------------------------------------------------
(* The watermark, for every number of workers, days, documents and faults. *)

LEMMA DocumentDay ==
  ASSUME NEW d \in Document
  PROVE  Day(d) \in Nat
BY WatermarkAssumption DEF Document, Day, Days

LEMMA EntriesCounted ==
  ASSUME NEW entries \in SUBSET Document
  PROVE  Cardinality(entries) \in Nat
<1>1. IsFiniteSet(Days) /\ IsFiniteSet(1..PerDay)
  BY FS_Interval, WatermarkAssumption DEF Days
<1>2. IsFiniteSet({day \in Days : day < MaxDay})
  BY <1>1, FS_Subset
<1>3. IsFiniteSet(Document)
  BY <1>1, <1>2, FS_Product DEF Document
<1> QED
  BY <1>3, FS_Subset, FS_CardinalityType

LEMMA DaysFromDays ==
  ASSUME NEW first, NEW last
  PROVE  DaysFrom(first, last) \in SUBSET Days
BY DEF DaysFrom

LEMMA InitTypeOK == Init => TypeOK
BY WatermarkAssumption DEF Init, TypeOK, Days

LEMMA NextTypeOK == TypeOK /\ [Next]_vars => TypeOK'
<1> SUFFICES ASSUME TypeOK, [Next]_vars PROVE TypeOK'
  OBVIOUS
<1>0. /\ today \in Nat /\ today <= MaxDay /\ 0 \in Days
      /\ MaxDay \in Nat /\ MaxFaults \in Nat
      /\ faults \in Nat /\ faults <= MaxFaults
  BY WatermarkAssumption DEF TypeOK, Days
<1>1. CASE Publish
  BY <1>1 DEF Publish, TypeOK
<1>2. CASE NextDay
  BY <1>0, <1>2 DEF NextDay, TypeOK, Days
<1>3. CASE Deactivate \/ Activate
  <2>1. active' \in BOOLEAN
    BY <1>3 DEF Deactivate, Activate
  <2>2. UNCHANGED <<today, watermark, published, handled, reported, run, overlooked>>
    BY <1>3 DEF Deactivate, Activate
  <2>3. Fault \/ UNCHANGED faults
    BY <1>3 DEF Deactivate, Activate
  <2>4. faults' \in 0..MaxFaults
    BY <1>0, <2>3 DEF Fault
  <2> QED
    BY <2>1, <2>2, <2>4 DEF TypeOK
<1>4. ASSUME NEW w \in Workers, NEW start \in Days, Begin(w, start) PROVE TypeOK'
  BY <1>0, <1>4, DaysFromDays DEF Begin, Goto, TypeOK, Run
<1>5. ASSUME NEW w \in Workers, Weekly(w) PROVE TypeOK'
  <2>1. WindowStart \in Days
    BY <1>0 DEF WindowStart, TypeOK
  <2> QED
    BY <1>4, <1>5, <2>1 DEF Weekly
<1>6. ASSUME NEW w \in Workers, Manual(w) PROVE TypeOK'
  BY <1>4, <1>6 DEF Manual
<1>6a. ASSUME NEW w \in Workers, run[w].step = "fetching"
       PROVE  run[w] \in [step : {"fetching"}, start : Days, end : Days, unseen : SUBSET Days]
  BY <1>6a DEF TypeOK, Run, Idle
<1>7. ASSUME NEW entries \in SUBSET Document, NEW end \in Days, NEW unseen \in SUBSET Days
      PROVE  Processing(entries, end, unseen) \in Run
  BY EntriesCounted DEF Processing, Run
<1>8. ASSUME NEW w \in Workers, Fetch(w) PROVE TypeOK'
  <2>1. Listed(run[w].start, run[w].end) \in SUBSET Document
    BY DEF Listed, TypeOK
  <2>2. run[w].end \in Days /\ run[w].unseen \in SUBSET Days
    BY <1>6a, <1>8 DEF Fetch
  <2>3. Processing(Listed(run[w].start, run[w].end), run[w].end, run[w].unseen) \in Run
    BY <1>7, <2>1, <2>2
  <2> QED
    BY <1>8, <2>3 DEF Fetch, Goto, TypeOK
<1>9. ASSUME NEW w \in Workers, FetchError(w) PROVE TypeOK'
  <2> DEFINE unseen == run[w].unseen \cup DaysFrom(run[w].start, run[w].end)
  <2>1. run[w].end \in Days /\ unseen \in SUBSET Days
    BY <1>6a, <1>9, DaysFromDays DEF FetchError
  <2>2. Processing({}, run[w].end, unseen) \in Run
    BY <1>7, <2>1
  <2> QED
    BY <1>0, <1>9, <2>2 DEF FetchError, Fault, Goto, TypeOK
<1>10. ASSUME NEW w \in Workers, run[w].step = "processing"
       PROVE  run[w] \in [step : {"processing"}, todo : SUBSET Document, seen : Nat,
                          errors : SUBSET Document, raised : BOOLEAN,
                          end : Days, unseen : SUBSET Days]
  BY <1>10 DEF TypeOK, Run, Idle
<1>11. ASSUME NEW w \in Workers, ProcessEntry(w) PROVE TypeOK'
  BY <1>10, <1>11 DEF ProcessEntry, Goto, TypeOK, Run
<1>12. ASSUME NEW w \in Workers, EntryError(w) PROVE TypeOK'
  <2>1. PICK d \in run[w].todo :
          run' = [run EXCEPT ![w] = [run[w] EXCEPT !.todo = @ \ {d}, !.errors = @ \cup {d}]]
    BY <1>12 DEF EntryError, Goto
  <2>2. [run[w] EXCEPT !.todo = @ \ {d}, !.errors = @ \cup {d}] \in Run
    <3>1. /\ run[w].todo \ {d} \in SUBSET Document
          /\ run[w].errors \cup {d} \in SUBSET Document
      BY <1>10, <1>12, <2>1 DEF EntryError
    <3> QED
      BY <1>10, <1>12, <3>1 DEF EntryError, Run
  <2>3. run' \in [Workers -> Run \cup {Idle}]
    BY <2>1, <2>2 DEF TypeOK
  <2> QED
    BY <1>12, <2>3 DEF EntryError, TypeOK
<1>13. ASSUME NEW w \in Workers, Interrupt(w) PROVE TypeOK'
  <2>1. [run[w] EXCEPT !.seen = 0, !.raised = TRUE] \in Run
    BY <1>10, <1>13 DEF Interrupt, Run
  <2>2. run' \in [Workers -> Run \cup {Idle}]
    BY <1>13, <2>1 DEF Interrupt, Goto, TypeOK
  <2>3. faults' \in 0..MaxFaults
    BY <1>0, <1>13 DEF Interrupt, Fault
  <2> QED
    BY <1>13, <2>2, <2>3 DEF Interrupt, TypeOK
<1>14. ASSUME NEW w \in Workers, Complete(w) PROVE TypeOK'
  <2> DEFINE done == [step |-> "advancing", completed |-> today,
                      unseen |-> run[w].unseen \cup DaysFrom(run[w].end, today)]
  <2>1. done \in Run
    BY <1>10, <1>14, DaysFromDays DEF Complete, TypeOK, Run
  <2>2. run' = [run EXCEPT ![w] = IF Status(w) = "failed" THEN Idle ELSE done]
    BY <1>14 DEF Complete, Goto
  <2>3. run' \in [Workers -> Run \cup {Idle}]
    BY <2>1, <2>2 DEF TypeOK
  <2>4. reported' \in SUBSET Document
    BY <1>10, <1>14 DEF Complete, TypeOK
  <2> QED
    BY <1>14, <2>3, <2>4 DEF Complete, TypeOK
<1>15. ASSUME NEW w \in Workers, Advance(w) PROVE TypeOK'
  <2>1. run[w].completed \in Days /\ run[w].unseen \in SUBSET Days
    BY <1>15 DEF Advance, TypeOK, Run, Idle
  <2> QED
    BY <1>15, <2>1 DEF Advance, Goto, TypeOK
<1>16. ASSUME NEW w \in Workers, Crash(w) PROVE TypeOK'
  BY <1>0, <1>16 DEF Crash, Fault, Goto, TypeOK
<1>17. CASE UNCHANGED vars
  BY <1>17 DEF vars, TypeOK
<1> QED
  BY <1>1, <1>2, <1>3, <1>5, <1>6, <1>8, <1>9, <1>11, <1>12, <1>13, <1>14, <1>15, <1>16, <1>17
     DEF Next, RunStep

\* The source, the documents and the runs keep their types (_process_source).
THEOREM TypeCorrect == Spec => []TypeOK
BY InitTypeOK, NextTypeOK, PTL DEF Spec
-----------------------------------------------------------------------------
(* Whatever the watermark passes over has an explanation.                  *)

\* What becomes of a document that is no longer asked for, or of one whose day is in days.
Explained(d, days) == Accounted(d) \/ Day(d) \in overlooked \/ Day(d) \in days

\* What a run guarantees while it lasts: what its window leaves out is explained, what it
\* fetched is accounted for or still in its hands, and a run that lost that will fail.
Sound(r) ==
  /\ r.step = "fetching" =>
       /\ r.start <= today /\ r.end <= today
       /\ \A d \in published : Day(d) < r.start => Explained(d, r.unseen)
  /\ r.step = "processing" =>
       /\ r.end <= today
       /\ r.raised => r.seen = 0
       /\ ~r.raised => \A d \in published : Day(d) < r.end =>
                         Explained(d, r.unseen) \/ d \in r.todo \/ d \in r.errors
  /\ r.step = "advancing" =>
       /\ r.completed <= today
       /\ \A d \in published : Day(d) < r.completed => Explained(d, r.unseen)

WatermarkPast == watermark # Never => watermark <= today

\* The inductive invariant.  SkipsAreExplained says nothing of the runs in flight, and it is
\* their windows and results that make the next watermark sound.
IInv ==
  /\ TypeOK
  /\ SkipsAreExplained
  /\ WatermarkPast
  /\ \A w \in Workers : Sound(run[w])

LEMMA InitIInv == Init => IInv
<1> SUFFICES ASSUME Init PROVE IInv
  OBVIOUS
<1> QED
  BY InitTypeOK DEF Init, IInv, SkipsAreExplained, WatermarkPast, Sound, Idle

\* A step that leaves the clock, the watermark and the documents alone, and at most adds to
\* what is accounted for, needs to be looked at for the run of its worker only.
LEMMA OneRun ==
  ASSUME IInv, TypeOK', UNCHANGED <<today, watermark, published, overlooked>>,
         handled \subseteq handled', reported \subseteq reported',
         NEW w \in Workers, \A v \in Workers \ {w} : run'[v] = run[v], Sound(run[w])'
  PROVE  IInv'
<1>1. \A d : Accounted(d) => Accounted(d)'
  BY DEF Accounted
<1>2. SkipsAreExplained' /\ WatermarkPast'
  BY <1>1 DEF IInv, SkipsAreExplained, WatermarkPast
<1>3. ASSUME NEW v \in Workers, v # w PROVE Sound(run[v])'
  <2>1. run'[v] = run[v]
    BY <1>3
  <2>2. Sound(run[v])
    BY DEF IInv
  <2> QED
    BY <1>1, <2>1, <2>2 DEF Sound, Explained
<1> QED
  BY <1>2, <1>3 DEF IInv

LEMMA NextIInv == IInv /\ [Next]_vars => IInv'
<1> SUFFICES ASSUME IInv, [Next]_vars PROVE IInv'
  OBVIOUS
<1>0. TypeOK /\ TypeOK'
  BY NextTypeOK DEF IInv
<1>a. /\ today \in Nat /\ watermark \in Nat \cup {Never}
      /\ \A d \in published : d \in Document /\ Day(d) \in Nat /\ Day(d) \in Days
      /\ Never \notin Days /\ \A d \in Days : d \in Nat
  <2>1. \A d \in Document : Day(d) \in Nat
    BY DocumentDay
  <2>2. \A d \in Document : Day(d) \in Days
    BY DEF Document, Day
  <2> QED
    BY <1>0, <2>1, <2>2, WatermarkAssumption DEF TypeOK, Days
<1>b. ASSUME NEW w \in Workers, run[w].step = "fetching"
      PROVE  /\ run[w] \in [step : {"fetching"}, start : Days, end : Days, unseen : SUBSET Days]
             /\ run[w].start \in Nat /\ run[w].end \in Nat
             /\ Sound(run[w])
  <2>1. run[w] \in [step : {"fetching"}, start : Days, end : Days, unseen : SUBSET Days]
    BY <1>0, <1>b DEF TypeOK, Run, Idle
  <2> QED
    BY <1>a, <2>1 DEF IInv
<1>c. ASSUME NEW w \in Workers, run[w].step = "processing"
      PROVE  /\ run[w] \in [step : {"processing"}, todo : SUBSET Document, seen : Nat,
                             errors : SUBSET Document, raised : BOOLEAN,
                             end : Days, unseen : SUBSET Days]
             /\ run[w].end \in Nat
             /\ Sound(run[w])
  <2>1. run[w] \in [step : {"processing"}, todo : SUBSET Document, seen : Nat,
                    errors : SUBSET Document, raised : BOOLEAN, end : Days, unseen : SUBSET Days]
    BY <1>0, <1>c DEF TypeOK, Run, Idle
  <2> QED
    BY <1>a, <2>1 DEF IInv
<1>d. ASSUME NEW w \in Workers, run[w].step = "advancing"
      PROVE  run[w].completed \in Nat /\ run[w].completed \in Days /\ Sound(run[w])
  <2>1. run[w] \in [step : {"advancing"}, completed : Days, unseen : SUBSET Days]
    BY <1>0, <1>d DEF TypeOK, Run, Idle
  <2> QED
    BY <1>a, <2>1 DEF IInv
<1>1. CASE Publish
  <2>1. PICK d \in Document \ published : Day(d) = today /\ published' = published \cup {d}
    BY <1>1 DEF Publish
  <2>2. UNCHANGED <<today, watermark, handled, reported, run, overlooked>>
    BY <1>1 DEF Publish
  <2>3. SkipsAreExplained' /\ WatermarkPast'
    BY <1>a, <2>1, <2>2 DEF IInv, SkipsAreExplained, WatermarkPast, Accounted
  <2>4. ASSUME NEW w \in Workers PROVE Sound(run[w])'
    <3>1. Sound(run[w])
      BY DEF IInv
    <3>2. /\ run[w].step = "fetching" => run[w].start \in Nat
          /\ run[w].step = "processing" => run[w].end \in Nat
          /\ run[w].step = "advancing" => run[w].completed \in Nat
      BY <1>b, <1>c, <1>d
    <3>3. ASSUME NEW day \in Nat, day <= today, NEW e \in published', Day(e) < day
          PROVE  e \in published
      BY <1>a, <2>1, <3>3
    <3>4. \A e, days : Explained(e, days)' <=> Explained(e, days)
      BY <2>2 DEF Explained, Accounted
    <3> QED
      BY <2>2, <3>1, <3>2, <3>3, <3>4 DEF Sound
  <2> QED
    BY <1>0, <2>3, <2>4 DEF IInv
<1>2. CASE NextDay
  <2>1. /\ today' = today + 1
        /\ UNCHANGED <<watermark, published, handled, reported, run, overlooked>>
    BY <1>2 DEF NextDay
  <2>2. SkipsAreExplained' /\ WatermarkPast'
    BY <1>a, <2>1 DEF IInv, SkipsAreExplained, WatermarkPast, Accounted
  <2>3. ASSUME NEW w \in Workers PROVE Sound(run[w])'
    <3>1. Sound(run[w])
      BY DEF IInv
    <3>2. /\ run[w].step = "fetching" => run[w].start \in Nat /\ run[w].end \in Nat
          /\ run[w].step = "processing" => run[w].end \in Nat
          /\ run[w].step = "advancing" => run[w].completed \in Nat
      BY <1>b, <1>c, <1>d
    <3>3. \A e, days : Explained(e, days)' <=> Explained(e, days)
      BY <2>1 DEF Explained, Accounted
    <3> QED
      BY <1>a, <2>1, <3>1, <3>2, <3>3 DEF Sound
  <2> QED
    BY <1>0, <2>2, <2>3 DEF IInv
<1>3. CASE Deactivate \/ Activate
  <2>1. UNCHANGED <<today, watermark, published, handled, reported, run, overlooked>>
    BY <1>3 DEF Deactivate, Activate
  <2> QED
    BY <1>0, <2>1 DEF IInv, SkipsAreExplained, WatermarkPast, Sound, Explained, Accounted
<1>4. ASSUME NEW w \in Workers, NEW start \in Days, start <= today, Begin(w, start)
      PROVE  IInv'
  <2>0. PICK new : new = [step |-> "fetching", start |-> start, end |-> today,
                          unseen |-> DaysFrom(WindowStart, start)]
    OBVIOUS
  <2>1. /\ run' = [run EXCEPT ![w] = new]
        /\ UNCHANGED <<today, watermark, published, handled, reported, overlooked>>
    BY <1>4, <2>0 DEF Begin, Goto
  <2>2. ASSUME NEW d \in published, Day(d) < start
        PROVE  Explained(d, DaysFrom(WindowStart, start))
    <3>1. Day(d) \in Nat /\ Day(d) \in Days /\ start \in Nat
      BY <1>a
    <3>2. CASE WindowStart <= Day(d)
      BY <2>2, <3>1, <3>2 DEF DaysFrom, Explained
    <3>3. CASE watermark = Never
      <4>1. WindowStart <= Day(d)
        BY <3>1, <3>3 DEF WindowStart
      <4> QED
        BY <3>2, <4>1
    <3>4. CASE watermark # Never /\ ~(WindowStart <= Day(d))
      <4>1. watermark \in Nat /\ Day(d) < watermark
        BY <1>a, <3>1, <3>4 DEF WindowStart
      <4> QED
        BY <3>4, <4>1 DEF IInv, SkipsAreExplained, Explained
    <3> QED
      BY <3>2, <3>3, <3>4
  <2>3. Sound(new)'
    BY <1>a, <1>4, <2>0, <2>1, <2>2 DEF Sound, Explained, Accounted
  <2>4. run'[w] = new /\ \A v \in Workers \ {w} : run'[v] = run[v]
    BY <1>0, <2>1 DEF TypeOK
  <2>5. Sound(run[w])'
    BY <2>3, <2>4
  <2> QED
    BY <1>0, <2>1, <2>4, <2>5, OneRun
<1>5. ASSUME NEW w \in Workers, Weekly(w) PROVE IInv'
  <2>1. WindowStart \in Days /\ WindowStart <= today
    BY <1>0, <1>a, WatermarkAssumption DEF WindowStart, IInv, TypeOK, WatermarkPast, Days
  <2> QED
    BY <1>4, <1>5, <2>1 DEF Weekly
<1>6. ASSUME NEW w \in Workers, Manual(w) PROVE IInv'
  <2>1. PICK start \in Days : (start < today \/ start = 0) /\ Begin(w, start)
    BY <1>6 DEF Manual
  <2>2. start <= today
    BY <1>a, <2>1
  <2> QED
    BY <1>4, <2>1, <2>2
<1>7. ASSUME NEW w \in Workers, Fetch(w) PROVE IInv'
  <2>0. PICK new :
          new = Processing(Listed(run[w].start, run[w].end), run[w].end, run[w].unseen)
    OBVIOUS
  <2>1. /\ run' = [run EXCEPT ![w] = new]
        /\ UNCHANGED <<today, watermark, published, handled, reported, overlooked>>
    BY <1>7, <2>0 DEF Fetch, Goto
  <2>2. run[w].step = "fetching" /\ Sound(run[w]) /\ run[w].start \in Nat /\ run[w].end \in Nat
    BY <1>7, <1>b DEF Fetch
  <2>3. ASSUME NEW d \in published, Day(d) < run[w].end
        PROVE  Explained(d, run[w].unseen) \/ d \in Listed(run[w].start, run[w].end)
    BY <1>a, <2>2, <2>3 DEF Sound, Listed
  <2>4. Sound(new)'
    BY <2>0, <2>1, <2>2, <2>3 DEF Sound, Processing, Explained, Accounted
  <2>5. run'[w] = new /\ \A v \in Workers \ {w} : run'[v] = run[v]
    BY <1>0, <2>1 DEF TypeOK
  <2>6. Sound(run[w])'
    BY <2>4, <2>5
  <2> QED
    BY <1>0, <2>1, <2>5, <2>6, OneRun
<1>8. ASSUME NEW w \in Workers, FetchError(w) PROVE IInv'
  <2>0. PICK unseen, new : /\ unseen = run[w].unseen \cup DaysFrom(run[w].start, run[w].end)
                          /\ new = Processing({}, run[w].end, unseen)
    OBVIOUS
  <2>1. /\ run' = [run EXCEPT ![w] = new]
        /\ UNCHANGED <<today, watermark, published, handled, reported, overlooked>>
    BY <1>8, <2>0 DEF FetchError, Goto
  <2>2. run[w].step = "fetching" /\ Sound(run[w]) /\ run[w].start \in Nat /\ run[w].end \in Nat
    BY <1>8, <1>b DEF FetchError
  <2>3. ASSUME NEW d \in published, Day(d) < run[w].end PROVE Explained(d, unseen)
    <3>1. CASE Day(d) < run[w].start
      BY <2>0, <2>2, <3>1 DEF Sound, Explained
    <3>2. CASE ~(Day(d) < run[w].start)
      <4>1. Day(d) \in DaysFrom(run[w].start, run[w].end)
        BY <1>a, <2>2, <2>3, <3>2 DEF DaysFrom
      <4> QED
        BY <2>0, <4>1 DEF Explained
    <3> QED
      BY <3>1, <3>2
  <2>4. Sound(new)'
    BY <2>0, <2>1, <2>2, <2>3 DEF Sound, Processing, Explained, Accounted
  <2>5. run'[w] = new /\ \A v \in Workers \ {w} : run'[v] = run[v]
    BY <1>0, <2>1 DEF TypeOK
  <2>6. Sound(run[w])'
    BY <2>4, <2>5
  <2> QED
    BY <1>0, <2>1, <2>5, <2>6, OneRun
<1>10. ASSUME NEW w \in Workers, ProcessEntry(w) PROVE IInv'
  <2>1. PICK d \in run[w].todo : /\ run' = [run EXCEPT ![w] = [run[w] EXCEPT !.todo = @ \ {d}]]
                                 /\ handled' = handled \cup {d}
    BY <1>10 DEF ProcessEntry, Goto
  <2>2. /\ run[w].step = "processing"
        /\ UNCHANGED <<today, watermark, published, reported, overlooked>>
    BY <1>10 DEF ProcessEntry
  <2>3. run'[w] = [run[w] EXCEPT !.todo = @ \ {d}]
    BY <1>0, <2>1 DEF TypeOK
  <2>4. Sound(run[w])'
    BY <1>c, <2>1, <2>2, <2>3 DEF Sound, Explained, Accounted
  <2>5. \A v \in Workers \ {w} : run'[v] = run[v]
    BY <1>0, <2>1 DEF TypeOK
  <2> QED
    BY <1>0, <2>1, <2>2, <2>4, <2>5, OneRun
<1>11. ASSUME NEW w \in Workers, EntryError(w) PROVE IInv'
  <2>1. PICK d \in run[w].todo :
          run' = [run EXCEPT ![w] = [run[w] EXCEPT !.todo = @ \ {d}, !.errors = @ \cup {d}]]
    BY <1>11 DEF EntryError, Goto
  <2>2. /\ run[w].step = "processing"
        /\ UNCHANGED <<today, watermark, published, handled, reported, overlooked>>
    BY <1>11 DEF EntryError
  <2>3. run'[w] = [run[w] EXCEPT !.todo = @ \ {d}, !.errors = @ \cup {d}]
    BY <1>0, <2>1 DEF TypeOK
  <2>4. Sound(run[w])'
    BY <1>c, <2>1, <2>2, <2>3 DEF Sound, Explained, Accounted
  <2>5. \A v \in Workers \ {w} : run'[v] = run[v]
    BY <1>0, <2>1 DEF TypeOK
  <2> QED
    BY <1>0, <2>1, <2>2, <2>4, <2>5, OneRun
<1>12. ASSUME NEW w \in Workers, Interrupt(w) PROVE IInv'
  <2>1. /\ run' = [run EXCEPT ![w] = [run[w] EXCEPT !.seen = 0, !.raised = TRUE]]
        /\ run[w].step = "processing"
        /\ UNCHANGED <<today, watermark, published, handled, reported, overlooked>>
    BY <1>12 DEF Interrupt, Goto
  <2>2. run'[w] = [run[w] EXCEPT !.seen = 0, !.raised = TRUE]
    BY <1>0, <2>1 DEF TypeOK
  <2>3. /\ run'[w].step = "processing" /\ run'[w].seen = 0 /\ run'[w].raised = TRUE
        /\ run'[w].end = run[w].end
    <3>1. run'[w].step = "processing"
      BY <1>c, <2>1, <2>2
    <3>2. run'[w].seen = 0
      BY <1>c, <2>1, <2>2
    <3>3. run'[w].raised = TRUE
      BY <1>c, <2>1, <2>2
    <3>4. run'[w].end = run[w].end
      BY <1>c, <2>1, <2>2
    <3> QED
      BY <3>1, <3>2, <3>3, <3>4
  <2>4. Sound(run[w])'
    BY <1>c, <2>1, <2>3 DEF Sound
  <2>5. \A v \in Workers \ {w} : run'[v] = run[v]
    BY <1>0, <2>1 DEF TypeOK
  <2> QED
    BY <1>0, <2>1, <2>4, <2>5, OneRun
<1>13. ASSUME NEW w \in Workers, Complete(w) PROVE IInv'
  <2>0. PICK unseen, done :
          /\ unseen = run[w].unseen \cup DaysFrom(run[w].end, today)
          /\ done = [step |-> "advancing", completed |-> today, unseen |-> unseen]
    OBVIOUS
  <2>1. /\ run[w].step = "processing" /\ run[w].todo = {}
        /\ UNCHANGED <<today, watermark, published, handled, overlooked>>
        /\ reported' = reported \cup (IF run[w].raised THEN {} ELSE run[w].errors)
        /\ run' = [run EXCEPT ![w] = IF Status(w) = "failed" THEN Idle ELSE done]
    BY <1>13, <2>0 DEF Complete, Goto
  <2>2. \A v \in Workers \ {w} : run'[v] = run[v]
    BY <1>0, <2>1 DEF TypeOK
  <2>3. CASE Status(w) = "failed"
    <3>1. run'[w] = Idle
      BY <1>0, <2>1, <2>3 DEF TypeOK
    <3>2. Sound(run[w])'
      BY <3>1 DEF Sound, Idle
    <3> QED
      BY <1>0, <2>1, <2>2, <3>2, OneRun
  <2>4. CASE Status(w) # "failed"
    <3>1. run'[w] = done
      BY <1>0, <2>1, <2>4 DEF TypeOK
    <3>2. run[w].raised => run[w].seen = 0
      BY <1>c, <2>1 DEF Sound
    <3>3. ~run[w].raised
      BY <2>4, <3>2 DEF Status, RunStatus
    <3>4. reported' = reported \cup run[w].errors
      BY <2>1, <3>3
    <3>5. ASSUME NEW d \in published, Day(d) < today PROVE Explained(d, unseen)'
      <4>1. CASE Day(d) < run[w].end
        <5>1. Explained(d, run[w].unseen) \/ d \in run[w].errors
          BY <1>c, <2>1, <3>3, <4>1 DEF Sound
        <5> QED
          BY <2>0, <2>1, <3>4, <5>1 DEF Explained, Accounted
      <4>2. CASE ~(Day(d) < run[w].end)
        <5>1. Day(d) \in DaysFrom(run[w].end, today)
          BY <1>a, <1>c, <2>1, <3>5, <4>2 DEF DaysFrom
        <5> QED
          BY <2>0, <5>1 DEF Explained
      <4> QED
        BY <4>1, <4>2
    <3>6. Sound(done)'
      BY <1>a, <2>0, <2>1, <3>5 DEF Sound
    <3>7. Sound(run[w])'
      BY <3>1, <3>6
    <3> QED
      BY <1>0, <2>1, <2>2, <3>7, OneRun
  <2> QED
    BY <2>3, <2>4
<1>14. ASSUME NEW w \in Workers, Advance(w) PROVE IInv'
  <2>1. /\ run[w].step = "advancing" /\ Sound(run[w])
        /\ watermark' = run[w].completed
        /\ overlooked' = overlooked \cup run[w].unseen
        /\ run' = [run EXCEPT ![w] = Idle]
        /\ UNCHANGED <<today, published, handled, reported>>
    BY <1>14 DEF Advance, Goto, IInv
  <2>2. SkipsAreExplained' /\ WatermarkPast'
    BY <2>1 DEF SkipsAreExplained, WatermarkPast, Sound, Explained, Accounted
  <2>3. ASSUME NEW v \in Workers PROVE Sound(run[v])'
    <3>1. CASE v = w
      <4>1. run'[v] = Idle
        BY <1>0, <2>1, <3>1 DEF TypeOK
      <4> QED
        BY <4>1 DEF Sound, Idle
    <3>2. CASE v # w
      <4>1. run'[v] = run[v] /\ Sound(run[v])
        BY <1>0, <2>1, <3>2 DEF TypeOK, IInv
      <4>2. \A d, days : Explained(d, days) => Explained(d, days)'
        BY <2>1 DEF Explained, Accounted
      <4> QED
        BY <2>1, <4>1, <4>2 DEF Sound
    <3> QED
      BY <3>1, <3>2
  <2> QED
    BY <1>0, <2>2, <2>3 DEF IInv
<1>15. ASSUME NEW w \in Workers, Crash(w) PROVE IInv'
  <2>1. /\ run' = [run EXCEPT ![w] = Idle]
        /\ UNCHANGED <<today, watermark, published, handled, reported, overlooked>>
    BY <1>15 DEF Crash, Goto
  <2>2. run'[w] = Idle /\ \A v \in Workers \ {w} : run'[v] = run[v]
    BY <1>0, <2>1 DEF TypeOK
  <2>3. Sound(run[w])'
    BY <2>2 DEF Sound, Idle
  <2> QED
    BY <1>0, <2>1, <2>2, <2>3, OneRun
<1>16. CASE UNCHANGED vars
  <2>1. UNCHANGED <<today, watermark, published, handled, reported, run, overlooked>>
    BY <1>16 DEF vars
  <2> QED
    BY <1>0, <2>1 DEF IInv, SkipsAreExplained, WatermarkPast, Sound, Explained, Accounted
<1> QED
  BY <1>1, <1>2, <1>3, <1>5, <1>6, <1>7, <1>8, <1>10, <1>11, <1>12, <1>13, <1>14, <1>15, <1>16
     DEF Next, RunStep

\* Whatever fails, overlaps, crashes or is cut short, last_ingested_at passes no document that
\* was neither handled nor reported, except on a day that a run which moved it did not look at:
\* the day before a short manual run, of a swallowed fetch error, of a run past midnight
\* (manager.py, _process_source).
THEOREM SkipsAlwaysExplained == Spec => []SkipsAreExplained
<1>1. IInv => SkipsAreExplained
  BY DEF IInv
<1> QED
  BY InitIInv, NextIInv, <1>1, PTL DEF Spec
=============================================================================
