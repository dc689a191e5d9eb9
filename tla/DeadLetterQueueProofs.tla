------------------------ MODULE DeadLetterQueueProofs ------------------------
(***************************************************************************)
(* Theorems about DeadLetterQueue for every number of workers, documents,  *)
(* items, attempts and upsets.  Retry tasks overlap as they like.          *)
(***************************************************************************)
EXTENDS DeadLetterQueue, SequenceTheorems, WellFoundedInduction, TLAPS

-----------------------------------------------------------------------------
(* Lemmas about rows and queues.                                           *)

\* A batch has a first item.
LEMMA FirstIn ==
  ASSUME NEW ids \in SUBSET Nat, ids # {}
  PROVE  First(ids) \in ids
<1>1. PICK i \in ids : \A j \in ids : ~ (<<j, i>> \in OpToRel(<, Nat))
  BY NatLessThanWellFounded, WFMin
<1>2. ASSUME NEW j \in ids PROVE i <= j
  <2>1. <<j, i>> \in Nat \X Nat /\ <<j, i>>[1] = j /\ <<j, i>>[2] = i
    OBVIOUS
  <2>2. ~ (j < i)
    BY <1>1, <2>1, Zenon DEF OpToRel
  <2> QED
    BY <2>2
<1> QED
  BY <1>2 DEF First

LEMMA IdsAreNat == Ids \in SUBSET Nat
BY QueueAssumption DEF Ids

LEMMA RowsInIds ==
  ASSUME TypeOK
  PROVE  /\ DOMAIN items = 1..Len(items) /\ Len(items) \in Nat
         /\ DOMAIN items \subseteq Ids
         /\ \A i \in DOMAIN items : items[i] \in Item
BY QueueAssumption, LenProperties, ElementOfSeq DEF TypeOK, Ids

LEMMA ItemUpdated ==
  ASSUME NEW item \in Item, NEW n \in Nat,
         NEW status \in {"pending", "retrying", "resolved", "exhausted", "deleted"}
  PROVE  [item EXCEPT !.count = n, !.status = status] \in Item
BY DEF Item

\* Rows are added and failures counted; nothing else happens to them.
RowsGrow ==
  /\ items' \in Seq(Item)
  /\ Len(items') <= MaxItems
  /\ DOMAIN items \subseteq DOMAIN items'
  /\ \A i \in DOMAIN items :
       /\ items'[i].status = items[i].status
       /\ items'[i].count >= items[i].count

\* One row is written.
LEMMA RowWritten ==
  ASSUME TypeOK, NEW i \in DOMAIN items, NEW row \in Item,
         items' = [items EXCEPT ![i] = row]
  PROVE  /\ items' \in Seq(Item) /\ Len(items') = Len(items)
         /\ DOMAIN items' = DOMAIN items
         /\ items'[i] = row
         /\ \A j \in DOMAIN items : j # i => items'[j] = items[j]
<1>1. DOMAIN items = 1..Len(items)
  BY RowsInIds
<1>2. items \in Seq(Item) /\ i \in 1..Len(items)
  BY <1>1 DEF TypeOK
<1> QED
  BY <1>1, <1>2, ExceptSeq

LEMMA RowAdded ==
  ASSUME TypeOK, NEW celex \in Docs \cup {None}, AddItem(celex)
  PROVE  RowsGrow
<1>1. NewItem(celex) \in Item
  BY QueueAssumption DEF NewItem, Item
<1>2. items \in Seq(Item) /\ Len(items) \in Nat /\ DOMAIN items = 1..Len(items)
  BY RowsInIds DEF TypeOK
<1>3. /\ items' \in Seq(Item) /\ Len(items') = Len(items) + 1
      /\ \A i \in 1..Len(items) : items'[i] = items[i]
  BY <1>1, <1>2, AppendProperties DEF AddItem
<1>4. DOMAIN items' = 1..Len(items')
  BY <1>3, LenProperties
<1>5. Len(items') <= MaxItems
  BY <1>2, <1>3, QueueAssumption DEF AddItem
<1>6. \A i \in DOMAIN items : items[i].count \in Nat
  BY RowsInIds DEF Item
<1> QED
  BY <1>2, <1>3, <1>4, <1>5, <1>6 DEF RowsGrow

LEMMA RowsUnchanged ==
  ASSUME TypeOK, UNCHANGED items
  PROVE  RowsGrow
<1>1. \A i \in DOMAIN items : items[i].count \in Nat
  BY RowsInIds DEF Item
<1> QED
  BY <1>1 DEF RowsGrow, TypeOK

LEMMA FailureSaved ==
  ASSUME TypeOK, NEW d \in Docs, SaveAnalysisFailure(d)
  PROVE  RowsGrow
<1>1. CASE UNCHANGED items
  BY <1>1, RowsUnchanged
<1>2. CASE AddItem(d)
  BY <1>2, RowAdded
<1>3. ASSUME NEW i \in DOMAIN items,
             items' = [items EXCEPT ![i].count = @ + 1]
      PROVE  RowsGrow
  <2> DEFINE row == [items[i] EXCEPT !.count = items[i].count + 1]
  <2>1. items[i] \in Item
    BY RowsInIds
  <2>2. row \in Item /\ row.status = items[i].status /\ row.count >= items[i].count
    BY <2>1 DEF Item
  <2>3. items' = [items EXCEPT ![i] = row]
    BY <1>3
  <2>4. \A j \in DOMAIN items : items[j].count \in Nat
    BY RowsInIds DEF Item
  <2> HIDE DEF row
  <2>5. /\ items' \in Seq(Item) /\ Len(items') = Len(items)
        /\ DOMAIN items' = DOMAIN items
        /\ items'[i] = row
        /\ \A j \in DOMAIN items : j # i => items'[j] = items[j]
    BY <2>2, <2>3, RowWritten
  <2> QED
    BY <2>2, <2>4, <2>5 DEF RowsGrow, TypeOK
<1> QED
  BY <1>1, <1>2, <1>3 DEF SaveAnalysisFailure
-----------------------------------------------------------------------------
(* Types.                                                                  *)

Busy(w) == task[w].job \in {"ai", "generic"}

\* A retry task works on items that exist.
QueuesKnown == \A w \in Workers : Busy(w) => task[w].queue \subseteq DOMAIN items

TInv == TypeOK /\ QueuesKnown

LEMMA BusyTask ==
  ASSUME TypeOK, NEW w \in Workers, Busy(w)
  PROVE  /\ task[w] \in Retry
         /\ task[w].job \in {"ai", "generic"}
         /\ task[w].queue \in (SUBSET Ids) \ {{}} /\ First(task[w].queue) \in task[w].queue
         /\ task[w].step \in {"loaded", "trying", "settling"}
         /\ task[w].step # "settling" => task[w].seen \in Item
         /\ task[w].step = "settling" => task[w].verdict \in {"pending", "resolved", "exhausted"}
<1>1. task[w] \in Retry
  BY DEF TypeOK, Busy, Idle, Ingest
<1>2. task[w].queue \in (SUBSET Ids) \ {{}}
  BY <1>1 DEF Retry
<1>3. First(task[w].queue) \in task[w].queue
  <2>1. task[w].queue \in SUBSET Nat /\ task[w].queue # {}
    BY <1>2, IdsAreNat
  <2> QED
    BY <2>1, FirstIn
<1> QED
  BY <1>1, <1>2, <1>3 DEF Retry

LEMMA InitTInv == Init => TInv
<1> SUFFICES ASSUME Init PROVE TInv
  OBVIOUS
<1>1. items \in Seq(Item) /\ Len(items) = 0
  BY EmptySeq DEF Init
<1>2. task \in [Workers -> Retry \cup Ingest \cup {Idle}]
  BY DEF Init
<1>3. /\ docs \in [Docs -> Document] /\ attempts \in [Ids -> 0..(MaxRetries + 1)]
      /\ shared \subseteq Ids /\ upsets \in 0..MaxUpsets
  BY QueueAssumption DEF Init, Document
<1>4. QueuesKnown
  BY DEF Init, QueuesKnown, Busy, Idle
<1> QED
  BY <1>1, <1>2, <1>3, <1>4, QueueAssumption DEF TInv, TypeOK

\* What an analysis writes.
LEMMA AnalysisType ==
  ASSUME TypeOK, NEW d \in Docs, NEW doc \in Document, Analysis(d, doc)
  PROVE  RowsGrow /\ docs' \in [Docs -> Document]
<1>1. PICK outcome \in Outcomes :
        /\ docs' = [docs EXCEPT ![d] = Analysed(doc, outcome)]
        /\ IF outcome \in {"failed", "unseeded"} THEN SaveAnalysisFailure(d) ELSE UNCHANGED items
  BY DEF Analysis
<1>2. Analysed(doc, outcome) \in Document
  BY DEF Analysed, Document
<1>3. RowsGrow
  BY <1>1, RowsUnchanged, FailureSaved
<1> QED
  BY <1>1, <1>2, <1>3 DEF TypeOK

\* The history of the sharing and the number of upsets.
LEMMA HistoryType ==
  ASSUME TypeOK, [Next]_vars
  PROVE  shared' \subseteq Ids /\ upsets' \in 0..MaxUpsets
<1>1. shared \subseteq Ids /\ upsets \in 0..MaxUpsets
  BY DEF TypeOK
<1>2. Upset => upsets' \in 0..MaxUpsets
  BY <1>1, QueueAssumption DEF Upset
<1>3. ASSUME NEW w \in Workers, SelectItems(w) PROVE shared' \subseteq Ids
  BY <1>1, <1>3, RowsInIds DEF SelectItems, Held
<1>4. ASSUME NEW i \in DOMAIN items, RetryByHand(i) PROVE shared' \subseteq Ids
  BY <1>1, <1>4 DEF RetryByHand
<1> QED
  BY <1>1, <1>2, <1>3, <1>4
     DEF Next, RetryTask, vars, IngestEntry, IngestAnalysis, SupervisoryFailure, SelectItems,
         Begin, Analyse, Reprocess, RefuseEntry, Settle, Crash, RetryByHand, DeleteItem

LEMMA FailedVerdictType ==
  ASSUME NEW n
  PROVE  FailedVerdict(n) \in {"pending", "exhausted"}
BY DEF FailedVerdict

\* The types of a step follow from those of what it writes.
LEMMA TypeStep ==
  ASSUME TypeOK, items' \in Seq(Item), Len(items') <= MaxItems,
         docs' \in [Docs -> Document], attempts' \in [Ids -> 0..(MaxRetries + 1)],
         task' \in [Workers -> Retry \cup Ingest \cup {Idle}],
         shared' \subseteq Ids, upsets' \in 0..MaxUpsets
  PROVE  TypeOK'
BY DEF TypeOK

\* A batch is some of the items selected.
LEMMA BatchSelected ==
  ASSUME NEW job, NEW batch \in Batches(job), Selected(job) \in SUBSET Nat
  PROVE  batch \in (SUBSET Selected(job)) \ {{}}
<1>1. Selected(job) # {}
  BY DEF Batches
<1>2. First(Selected(job)) \in Selected(job)
  BY <1>1, FirstIn
<1> QED
  BY <1>1, <1>2 DEF Batches

LEMMA NextTInv == TInv /\ [Next]_vars => TInv'
<1> SUFFICES ASSUME TInv, [Next]_vars PROVE TInv'
  OBVIOUS
<1> USE DEF TInv
<1>0. /\ items \in Seq(Item) /\ Len(items) <= MaxItems
      /\ docs \in [Docs -> Document]
      /\ task \in [Workers -> Retry \cup Ingest \cup {Idle}]
      /\ attempts \in [Ids -> 0..(MaxRetries + 1)]
      /\ shared' \subseteq Ids /\ upsets' \in 0..MaxUpsets
  BY HistoryType DEF TypeOK
\* Steps after which the retry tasks hold the batches they held.
<1>1. ASSUME RowsGrow, docs' \in [Docs -> Document], UNCHANGED attempts,
             task' \in [Workers -> Retry \cup Ingest \cup {Idle}],
             \A v \in Workers : Busy(v)' => Busy(v) /\ task'[v].queue = task[v].queue
      PROVE  TInv'
  <2>1. TypeOK'
    BY <1>0, <1>1, TypeStep DEF RowsGrow
  <2>2. QueuesKnown'
    BY <1>1 DEF QueuesKnown, RowsGrow
  <2> QED
    BY <2>1, <2>2
<1>2. ASSUME NEW w \in Workers, IngestEntry(w) PROVE TInv'
  <2>1. PICK d \in Docs : task' = [task EXCEPT ![w] = [job |-> "ingest", doc |-> d]]
    BY <1>2 DEF IngestEntry
  <2>2. RowsGrow /\ UNCHANGED <<docs, attempts>>
    BY <1>2, RowsUnchanged DEF IngestEntry
  <2>3. task' \in [Workers -> Retry \cup Ingest \cup {Idle}]
    BY <1>0, <2>1 DEF Ingest
  <2>4. \A v \in Workers : Busy(v)' => Busy(v) /\ task'[v].queue = task[v].queue
    BY <1>0, <2>1 DEF Busy
  <2> QED
    BY <1>0, <1>1, <2>2, <2>3, <2>4
<1>3. ASSUME NEW w \in Workers, IngestAnalysis(w) PROVE TInv'
  <2>1. task[w].doc \in Docs
    BY <1>0, <1>3 DEF IngestAnalysis, Ingest, Retry, Idle
  <2>2. Analysis(task[w].doc, docs[task[w].doc])
    BY <1>3 DEF IngestAnalysis
  <2>3. task' = [task EXCEPT ![w] = Idle] /\ UNCHANGED attempts
    BY <1>3 DEF IngestAnalysis
  <2>4. RowsGrow /\ docs' \in [Docs -> Document]
    BY <1>0, <2>1, <2>2, AnalysisType
  <2>5. task' \in [Workers -> Retry \cup Ingest \cup {Idle}]
    BY <1>0, <2>3
  <2>6. \A v \in Workers : Busy(v)' => Busy(v) /\ task'[v].queue = task[v].queue
    BY <1>0, <2>3 DEF Busy, Idle
  <2> QED
    BY <1>1, <2>3, <2>4, <2>5, <2>6
<1>4. CASE SupervisoryFailure
  <2>1. RowsGrow
    BY <1>4, RowAdded DEF SupervisoryFailure
  <2>2. UNCHANGED <<docs, task, attempts>>
    BY <1>4 DEF SupervisoryFailure
  <2>3. \A v \in Workers : Busy(v)' => Busy(v) /\ task'[v].queue = task[v].queue
    BY <2>2 DEF Busy
  <2> QED
    BY <1>0, <1>1, <2>1, <2>2, <2>3
<1>5. ASSUME NEW w \in Workers, Crash(w) PROVE TInv'
  <2>1. task' = [task EXCEPT ![w] = Idle] /\ UNCHANGED <<items, docs, attempts>>
    BY <1>5 DEF Crash
  <2>2. task' \in [Workers -> Retry \cup Ingest \cup {Idle}]
    BY <1>0, <2>1
  <2>3. \A v \in Workers : Busy(v)' => Busy(v) /\ task'[v].queue = task[v].queue
    BY <1>0, <2>1 DEF Busy, Idle
  <2> QED
    BY <1>0, <1>1, <2>1, <2>2, <2>3, RowsUnchanged
\* The verdict of an attempt.
<1>6. ASSUME NEW w \in Workers, Busy(w), NEW v \in {"pending", "resolved", "exhausted"},
             RowsGrow, docs' \in [Docs -> Document], UNCHANGED attempts, Verdict(w, v)
      PROVE  TInv'
  <2>1. task[w].job \in {"ai", "generic"} /\ task[w].queue \in (SUBSET Ids) \ {{}}
    BY <1>6, BusyTask
  <2>2. task' \in [Workers -> Retry \cup Ingest \cup {Idle}]
    BY <1>0, <1>6, <2>1 DEF Verdict, Retry
  <2>3. \A u \in Workers : Busy(u)' => Busy(u) /\ task'[u].queue = task[u].queue
    BY <1>0, <1>6 DEF Busy, Verdict
  <2> QED
    BY <1>1, <1>6, <2>2, <2>3
\* The row of the head of a batch is written and the batch goes on or ends.
<1>7. ASSUME NEW w \in Workers, Busy(w), NEW next \in Retry \cup {Idle},
             next \in Retry => next.queue \subseteq task[w].queue,
             task' = [task EXCEPT ![w] = next],
             items' \in Seq(Item), Len(items') = Len(items), DOMAIN items' = DOMAIN items,
             attempts' \in [Ids -> 0..(MaxRetries + 1)], UNCHANGED docs
      PROVE  TInv'
  <2>1. TypeOK'
    BY <1>0, <1>7, TypeStep
  <2>2. ASSUME NEW v \in Workers, Busy(v)' PROVE task'[v].queue \subseteq DOMAIN items'
    <3>1. CASE v = w
      <4>1. task'[v] = next
        BY <1>0, <1>7, <3>1
      <4>2. next \in Retry
        BY <1>7, <2>2, <4>1 DEF Busy, Idle
      <4> QED
        BY <1>7, <3>1, <4>1, <4>2 DEF QueuesKnown
    <3>2. CASE v # w
      BY <1>0, <1>7, <2>2, <3>2 DEF QueuesKnown, Busy
    <3> QED
      BY <3>1, <3>2
  <2> QED
    BY <2>1, <2>2 DEF QueuesKnown
<1>8. ASSUME NEW w \in Workers, SelectItems(w) PROVE TInv'
  <2>0. PICK job \in {"ai", "generic"} :
          \E batch \in Batches(job) : task' = [task EXCEPT ![w] = Loaded(job, batch)]
    BY <1>8 DEF SelectItems
  <2>1. PICK batch \in Batches(job) : task' = [task EXCEPT ![w] = Loaded(job, batch)]
    BY <2>0
  <2>2. Selected(job) \subseteq DOMAIN items /\ DOMAIN items \subseteq Ids
    BY RowsInIds DEF Selected
  <2>3. Selected(job) \in SUBSET Nat
    BY <2>2, IdsAreNat
  <2>4. batch \in (SUBSET Selected(job)) \ {{}}
    BY <2>1, <2>3, BatchSelected
  <2>5. First(batch) \in batch
    BY <2>3, <2>4, FirstIn
  <2>6. Loaded(job, batch) \in Retry /\ Loaded(job, batch).queue = batch
    BY <2>2, <2>4, <2>5, RowsInIds DEF Loaded, Retry
  <2>7. UNCHANGED <<items, docs>> /\ attempts' \in [Ids -> 0..(MaxRetries + 1)]
    BY <1>0, <1>8, QueueAssumption DEF SelectItems
  <2>8. TypeOK'
    BY <1>0, <2>1, <2>6, <2>7, TypeStep
  <2>9. QueuesKnown'
    BY <1>0, <2>1, <2>2, <2>4, <2>6, <2>7 DEF QueuesKnown, Busy
  <2> QED
    BY <2>8, <2>9
<1>9. ASSUME NEW w \in Workers, Busy(w)
      PROVE  /\ First(task[w].queue) \in DOMAIN items
             /\ items[First(task[w].queue)] \in Item
  BY <1>9, BusyTask, RowsInIds DEF QueuesKnown
<1>10. ASSUME NEW w \in Workers, Begin(w) PROVE TInv'
  <2> DEFINE i == First(task[w].queue)
  <2>1. Busy(w) /\ task[w].step = "loaded" /\ UNCHANGED docs
    BY <1>10 DEF Begin, Busy
  <2>2. CASE items[i].status = "deleted"
    <3>1. task' = [task EXCEPT ![w] = Idle] /\ UNCHANGED <<items, attempts>>
      BY <1>10, <2>2 DEF Begin
    <3>2. Idle \notin Retry
      BY DEF Idle, Retry
    <3> QED
      BY <1>0, <1>7, <2>1, <3>1, <3>2
  <2>3. CASE items[i].status # "deleted"
    <3> DEFINE seen == task[w].seen
               row == [items[i] EXCEPT !.count = Counted(seen.count),
                                       !.status = IF seen.status = "retrying" THEN @ ELSE "retrying"]
    <3>1. /\ items' = [items EXCEPT ![i] = row]
          /\ task' = [task EXCEPT ![w] = [@ EXCEPT !.step = "trying", !.seen = row]]
          /\ attempts' = [attempts EXCEPT ![i] = IF i \in shared \/ @ > MaxRetries THEN @ ELSE @ + 1]
      BY <1>10, <2>3 DEF Begin
    <3>2. seen \in Item /\ items[i] \in Item /\ i \in DOMAIN items
      BY <1>9, <2>1, BusyTask
    <3>3. row \in Item
      <4>1. seen.count + 1 \in Nat
        BY <3>2 DEF Item
      <4>2. items[i].status \in {"pending", "retrying", "resolved", "exhausted", "deleted"}
        BY <3>2 DEF Item
      <4> QED
        BY <3>2, <4>1, <4>2, ItemUpdated DEF Counted
    <3> HIDE DEF row
    <3>4. items' \in Seq(Item) /\ Len(items') = Len(items) /\ DOMAIN items' = DOMAIN items
      BY <3>1, <3>2, <3>3, RowWritten
    <3>5. attempts' \in [Ids -> 0..(MaxRetries + 1)]
      <4>1. i \in Ids
        BY <3>2, RowsInIds
      <4>2. (IF i \in shared \/ attempts[i] > MaxRetries THEN attempts[i] ELSE attempts[i] + 1) \in 0..(MaxRetries + 1)
        BY <1>0, <4>1, QueueAssumption
      <4> QED
        BY <1>0, <3>1, <4>1, <4>2
    <3>6. [task[w] EXCEPT !.step = "trying", !.seen = row] \in Retry
      BY <2>1, <3>3, BusyTask DEF Retry
    <3>7. [task[w] EXCEPT !.step = "trying", !.seen = row].queue = task[w].queue
      BY <2>1, BusyTask DEF Retry
    <3>8. task' = [task EXCEPT ![w] = [task[w] EXCEPT !.step = "trying", !.seen = row]]
      BY <3>1
    <3> QED
      BY <1>7, <2>1, <3>4, <3>5, <3>6, <3>7, <3>8
  <2> QED
    BY <2>2, <2>3
<1>11. ASSUME NEW w \in Workers, Analyse(w) PROVE TInv'
  <2> DEFINE i == First(task[w].queue)
  <2>1. Busy(w)
    BY <1>11 DEF Analyse, Busy
  <2>2. PICK outcome \in Outcomes \ {"no text"} :
          /\ docs' = [docs EXCEPT ![items[i].celex] = Analysed(@, outcome)]
          /\ Verdict(w, AnalysisVerdict(outcome, task[w].seen.count, items[i].count))
    BY <1>11 DEF Analyse
  <2>3. docs' \in [Docs -> Document]
    BY <1>0, <2>2 DEF Analysed, Document
  <2>4. AnalysisVerdict(outcome, task[w].seen.count, items[i].count) \in {"pending", "resolved", "exhausted"}
    BY FailedVerdictType DEF AnalysisVerdict, Outcomes
  <2>5. RowsGrow /\ UNCHANGED attempts
    BY <1>11, RowsUnchanged DEF Analyse
  <2> QED
    BY <1>6, <2>1, <2>2, <2>3, <2>4, <2>5
<1>12. ASSUME NEW w \in Workers, Reprocess(w) PROVE TInv'
  <2>1. PICK i, d : i = First(task[w].queue) /\ d = items[i].celex
    OBVIOUS
  <2>2. Busy(w) /\ d # None /\ UNCHANGED attempts
    BY <1>12, <2>1 DEF Reprocess, Busy
  <2>3. d \in Docs
    BY <1>9, <2>1, <2>2 DEF Item
  <2>4. PICK updated \in BOOLEAN :
          /\ IF docs[d].analyzed /\ ~updated
             THEN UNCHANGED <<items, docs>>
             ELSE Analysis(d, [docs[d] EXCEPT !.relinked = TRUE])
          /\ Verdict(w, IF updated THEN "resolved" ELSE FailedVerdict(items'[i].count))
    BY <1>12, <2>1 DEF Reprocess
  <2>5. [docs[d] EXCEPT !.relinked = TRUE] \in Document
    BY <1>0, <2>3 DEF Document
  <2>6. RowsGrow /\ docs' \in [Docs -> Document]
    BY <1>0, <2>3, <2>4, <2>5, RowsUnchanged, AnalysisType
  <2>7. (IF updated THEN "resolved" ELSE FailedVerdict(items'[i].count)) \in {"pending", "resolved", "exhausted"}
    BY FailedVerdictType
  <2> QED
    BY <1>6, <2>2, <2>4, <2>6, <2>7
<1>13. ASSUME NEW w \in Workers, RefuseEntry(w) PROVE TInv'
  <2>1. /\ Busy(w) /\ UNCHANGED <<items, docs, attempts>>
        /\ Verdict(w, FailedVerdict(items[First(task[w].queue)].count))
    BY <1>13 DEF RefuseEntry, Busy
  <2> QED
    BY <1>0, <1>6, <2>1, RowsUnchanged, FailedVerdictType
<1>14. ASSUME NEW w \in Workers, Settle(w) PROVE TInv'
  <2> DEFINE i == First(task[w].queue)
             rest == task[w].queue \ {i}
             next == [job |-> task[w].job, step |-> "loaded", queue |-> rest, seen |-> items[First(rest)]]
  <2>1. Busy(w) /\ task[w].step = "settling" /\ UNCHANGED <<docs, attempts>>
    BY <1>14 DEF Settle, Busy
  <2>2. i \in DOMAIN items /\ items[i] \in Item
    BY <1>9, <2>1
  <2>3. items' \in Seq(Item) /\ Len(items') = Len(items) /\ DOMAIN items' = DOMAIN items
    <3>1. CASE UNCHANGED items
      BY <1>0, <3>1
    <3>2. CASE items' = [items EXCEPT ![i].status = task[w].verdict]
      <4> DEFINE row == [items[i] EXCEPT !.status = task[w].verdict]
      <4>1. row \in Item
        BY <2>1, <2>2, BusyTask DEF Item
      <4>2. items' = [items EXCEPT ![i] = row]
        BY <3>2
      <4> QED
        BY <2>2, <4>1, <4>2, RowWritten
    <3> QED
      BY <1>14, <3>1, <3>2 DEF Settle
  <2>4. rest \subseteq DOMAIN items /\ rest \in SUBSET Ids
    BY <2>1, BusyTask DEF QueuesKnown
  <2>5. CASE rest = {} \/ items[i].status = "deleted"
    <3>1. task' = [task EXCEPT ![w] = Idle]
      BY <1>14, <2>5 DEF Settle
    <3>2. Idle \notin Retry
      BY DEF Idle, Retry
    <3> QED
      BY <1>0, <1>7, <2>1, <2>3, <3>1, <3>2
  <2>6. CASE ~ (rest = {} \/ items[i].status = "deleted")
    <3>1. task' = [task EXCEPT ![w] = next]
      BY <1>14, <2>6 DEF Settle
    <3>2. First(rest) \in rest
      BY <2>4, <2>6, IdsAreNat, FirstIn
    <3>3. items[First(rest)] \in Item
      BY <2>4, <3>2, RowsInIds
    <3>4. task[w].job \in {"ai", "generic"}
      BY <2>1, BusyTask
    <3>5. next \in Retry /\ next.queue \subseteq task[w].queue
      BY <2>4, <2>6, <3>3, <3>4 DEF Retry
    <3> QED
      BY <1>0, <1>7, <2>1, <2>3, <3>1, <3>5
  <2> QED
    BY <2>5, <2>6
<1>15. ASSUME NEW i \in DOMAIN items, RetryByHand(i) \/ DeleteItem(i) PROVE TInv'
  <2>1. UNCHANGED <<docs, task>>
    BY <1>15 DEF RetryByHand, DeleteItem
  <2>2. attempts' \in [Ids -> 0..(MaxRetries + 1)]
    BY <1>0, <1>15, QueueAssumption DEF RetryByHand, DeleteItem
  <2>3. items[i] \in Item
    BY RowsInIds
  <2>4. PICK row \in Item : items' = [items EXCEPT ![i] = row]
    <3>1. CASE RetryByHand(i)
      <4>1. items' = [items EXCEPT ![i] = [items[i] EXCEPT !.status = "pending", !.count = AnotherChance(items[i].count)]]
        BY <3>1 DEF RetryByHand
      <4>2. AnotherChance(items[i].count) \in Nat
        BY <2>3 DEF Item, AnotherChance
      <4>3. [items[i] EXCEPT !.status = "pending", !.count = AnotherChance(items[i].count)] \in Item
        BY <2>3, <4>2 DEF Item
      <4> QED
        BY <4>1, <4>3
    <3>2. CASE DeleteItem(i)
      <4>1. items' = [items EXCEPT ![i] = [items[i] EXCEPT !.status = "deleted"]]
        BY <3>2 DEF DeleteItem
      <4>2. [items[i] EXCEPT !.status = "deleted"] \in Item
        BY <2>3 DEF Item
      <4> QED
        BY <4>1, <4>2
    <3> QED
      BY <1>15, <3>1, <3>2
  <2>5. items' \in Seq(Item) /\ Len(items') = Len(items) /\ DOMAIN items' = DOMAIN items
    BY <2>4, RowWritten
  <2>6. TypeOK'
    BY <1>0, <2>1, <2>2, <2>5, TypeStep
  <2>7. QueuesKnown'
    BY <2>1, <2>5 DEF QueuesKnown, Busy
  <2> QED
    BY <2>6, <2>7
<1>16. CASE UNCHANGED vars
  BY <1>16 DEF vars, TypeOK, QueuesKnown, Busy
<1> QED
  BY <1>2, <1>3, <1>4, <1>5, <1>8, <1>10, <1>11, <1>12, <1>13, <1>14, <1>15, <1>16
     DEF Next, RetryTask

LEMMA TInvInductive == Spec => []TInv
BY InitTInv, NextTInv, PTL DEF Spec

\* The rows, the documents and the tasks keep their types, and a retry task only ever works on
\* rows that exist (worker.py, ingestion/processor.py).
THEOREM TypeCorrect == Spec => []TypeOK
<1>1. TInv => TypeOK
  BY DEF TInv
<1> QED
  BY <1>1, TInvInductive, PTL
-----------------------------------------------------------------------------
(* Attempts are bounded and resolved items final, item by item: what no    *)
(* two retry tasks held at once is written by the task that holds it only. *)

Current(w) == First(task[w].queue)

\* The items of its batch a task has not begun.
Waiting(w) == IF task[w].step = "loaded" THEN task[w].queue ELSE task[w].queue \ {Current(w)}

\* Nobody else begins or settles an item that is not shared: until its turn comes, it has an
\* attempt left and stays pending unless it is deleted; in its turn it is being retried.
BatchOK(w) ==
  Busy(w) =>
    /\ \A i \in Waiting(w) \ shared :
         attempts[i] < MaxRetries /\ items[i].status \in {"pending", "deleted"}
    /\ task[w].step = "loaded" /\ Current(w) \notin shared =>
         /\ attempts[Current(w)] <= task[w].seen.count
         /\ task[w].seen.status \in {"pending", "deleted"}
    /\ task[w].step # "loaded" /\ Current(w) \notin shared =>
         items[Current(w)].status \in {"retrying", "deleted"}

\* retry_count never falls behind the attempts begun, although Begin writes it from a value
\* read earlier; none is counted while an item is shared.
AttemptsCounted ==
  \A i \in Ids :
    /\ i \in DOMAIN items => attempts[i] <= items[i].count /\ attempts[i] <= MaxRetries
    /\ i \notin DOMAIN items => attempts[i] = 0
    /\ i \in shared => attempts[i] = 0

\* What two tasks hold is shared, and only items that exist are.
SharedKnown ==
  /\ shared \subseteq DOMAIN items
  /\ \A v, w \in Workers : \A i \in Ids : Holds(v, i) /\ Holds(w, i) /\ v # w => i \in shared

\* The inductive invariant.
IInv ==
  /\ TInv
  /\ AttemptsCounted
  /\ SharedKnown
  /\ \A w \in Workers : BatchOK(w)

\* What ResolvedIsFinal says of a step.
StaysResolved ==
  \A i \in DOMAIN items :
    items[i].status = "resolved" /\ i \notin shared \cap Held =>
      items'[i].status \in {"resolved", "deleted"}

LEMMA InitIInv == Init => IInv
<1> SUFFICES ASSUME Init PROVE IInv
  OBVIOUS
<1>1. Len(items) = 0 /\ DOMAIN items = {}
  BY EmptySeq DEF Init
<1>2. AttemptsCounted
  BY <1>1 DEF Init, AttemptsCounted
<1>3. \A w \in Workers : ~Busy(w)
  BY DEF Init, Busy, Idle
<1>4. SharedKnown
  BY <1>3 DEF Init, SharedKnown, Holds, Busy
<1> QED
  BY <1>2, <1>3, <1>4, InitTInv DEF IInv, BatchOK

\* Numbers of the rows and the attempts.
LEMMA CountsAreNat ==
  ASSUME TypeOK
  PROVE  /\ \A i \in DOMAIN items : items[i].count \in Nat
         /\ \A i \in Ids : attempts[i] \in Nat
         /\ MaxRetries \in Nat /\ MaxRetries > 0
         /\ DOMAIN items \subseteq Ids
BY RowsInIds, QueueAssumption DEF TypeOK, Item

\* What is known of the batch of a task.
LEMMA BatchFacts ==
  ASSUME IInv, NEW w \in Workers, Busy(w)
  PROVE  /\ task[w].queue \subseteq DOMAIN items /\ task[w].queue \in SUBSET Ids
         /\ Current(w) \in task[w].queue
         /\ task[w].step \in {"loaded", "trying", "settling"}
         /\ task[w].step # "settling" => task[w].seen \in Item
         /\ Waiting(w) \subseteq task[w].queue
         /\ \A i \in task[w].queue : Holds(w, i)
         /\ \A v \in Workers : Busy(v) /\ v # w =>
              \A i \in task[v].queue \ shared : i \notin task[w].queue
<1>1. TypeOK /\ QueuesKnown /\ SharedKnown
  BY DEF IInv, TInv
<1>2. /\ task[w].queue \subseteq DOMAIN items /\ task[w].queue \in SUBSET Ids
      /\ Current(w) \in task[w].queue
      /\ task[w].step \in {"loaded", "trying", "settling"}
      /\ task[w].step # "settling" => task[w].seen \in Item
  BY <1>1, BusyTask DEF QueuesKnown, Current
<1>3. \A v \in Workers : Busy(v) /\ v # w =>
        \A i \in task[v].queue \ shared : i \notin task[w].queue
  BY <1>1, <1>2 DEF SharedKnown, Holds, Busy
<1> QED
  BY <1>2, <1>3 DEF Waiting, Holds, Busy

\* Steps that count failures or add rows, and take the retry tasks at most to a verdict.
LEMMA QuietStep ==
  ASSUME IInv, TInv', RowsGrow, UNCHANGED <<attempts, shared>>,
         \A v \in Workers : Busy(v)' =>
           /\ Busy(v) /\ task'[v].queue = task[v].queue
           /\ task'[v] = task[v] \/ (task[v].step # "loaded" /\ task'[v].step # "loaded")
  PROVE  IInv' /\ StaysResolved
<1>1. TypeOK /\ TypeOK'
  BY DEF IInv, TInv
<1>2. AttemptsCounted'
  <2>1. \A i \in DOMAIN items : items[i].count \in Nat
    BY <1>1, CountsAreNat
  <2>2. \A i \in DOMAIN items' : items'[i].count \in Nat
    <3>1. items' \in Seq(Item)
      BY DEF RowsGrow
    <3>2. \A i \in DOMAIN items' : items'[i] \in Item
      BY <3>1, LenProperties, ElementOfSeq
    <3> QED
      BY <3>2 DEF Item
  <2>3. \A i \in Ids : attempts[i] \in Nat
    BY <1>1, CountsAreNat
  <2> QED
    BY <2>1, <2>2, <2>3, QueueAssumption DEF IInv, AttemptsCounted, RowsGrow
<1>3. SharedKnown'
  BY DEF IInv, SharedKnown, RowsGrow, Holds, Busy
<1>4. ASSUME NEW w \in Workers, Busy(w)' PROVE BatchOK(w)'
  <2>1. Busy(w) /\ task'[w].queue = task[w].queue
    BY <1>4
  <2>2. task'[w] = task[w] \/ (task[w].step # "loaded" /\ task'[w].step # "loaded")
    BY <1>4
  <2>3. task[w].queue \subseteq DOMAIN items /\ Current(w) \in task[w].queue
    BY <2>1, BatchFacts
  <2>4. Waiting(w)' = Waiting(w) /\ Current(w)' = Current(w)
    BY <2>1, <2>2 DEF Waiting, Current
  <2>5. BatchOK(w)
    BY DEF IInv
  <2> QED
    BY <2>1, <2>2, <2>3, <2>4, <2>5 DEF BatchOK, RowsGrow, Waiting
<1>5. StaysResolved
  BY DEF StaysResolved, RowsGrow
<1> QED
  BY <1>2, <1>3, <1>4, <1>5 DEF IInv, BatchOK

\* Steps that write one row and leave the tasks alone: the administrator's.
LEMMA PutBackStep ==
  ASSUME IInv, TInv', NEW i \in DOMAIN items, RetryByHand(i)
  PROVE  IInv' /\ StaysResolved
<1>1. TypeOK /\ i \in Ids /\ items[i] \in Item
  BY RowsInIds DEF IInv, TInv
<1>2. UNCHANGED task
  BY DEF RetryByHand
<1>3. PICK row : row = [items[i] EXCEPT !.status = "pending", !.count = AnotherChance(items[i].count)]
  OBVIOUS
<1>4. /\ items[i].status \notin {"resolved", "retrying", "deleted"}
      /\ items' = [items EXCEPT ![i] = row]
      /\ attempts' = [attempts EXCEPT ![i] = 0]
      /\ shared' = IF i \in Held THEN shared ELSE shared \ {i}
  BY <1>3 DEF RetryByHand, RefusedByHand
<1>5. row \in Item /\ row.status = "pending" /\ row.count \in Nat
  <2>1. AnotherChance(items[i].count) \in Nat
    BY <1>1 DEF Item, AnotherChance
  <2>2. row \in Item
    BY <1>1, <1>3, <2>1 DEF Item
  <2> QED
    BY <1>1, <1>3, <2>2 DEF Item
<1>6. /\ DOMAIN items' = DOMAIN items /\ items'[i] = row
      /\ \A j \in DOMAIN items : j # i => items'[j] = items[j]
  BY <1>1, <1>4, <1>5, RowWritten
<1>7. attempts'[i] = 0 /\ \A j \in Ids : j # i => attempts'[j] = attempts[j]
  BY <1>1, <1>4 DEF TypeOK
<1>8. AttemptsCounted'
  BY <1>1, <1>4, <1>5, <1>6, <1>7, CountsAreNat DEF IInv, AttemptsCounted
<1>9. SharedKnown'
  <2>1. \A w \in Workers : Holds(w, i) => i \in Held
    BY DEF Held
  <2> QED
    BY <1>2, <1>4, <1>6, <2>1 DEF IInv, SharedKnown, Holds
<1>10. ASSUME NEW w \in Workers, Busy(w) PROVE BatchOK(w)'
  <2>1. /\ task[w].queue \subseteq DOMAIN items /\ Current(w) \in task[w].queue
        /\ task[w].step # "settling" => task[w].seen \in Item
        /\ task[w].step \in {"loaded", "trying", "settling"}
        /\ Waiting(w) \subseteq task[w].queue /\ DOMAIN items \subseteq Ids
    BY <1>1, <1>10, BatchFacts, RowsInIds
  <2>2. task[w].step = "loaded" => task[w].seen.count \in Nat
    BY <2>1 DEF Item
  <2>3. i \in task[w].queue => shared' = shared
    BY <1>4, <1>10 DEF Held, Holds, Busy
  <2>4. \A j \in task[w].queue : j \notin shared' => j \notin shared
    BY <1>4, <2>3
  <2>5. Waiting(w)' = Waiting(w) /\ Current(w)' = Current(w)
    BY <1>2 DEF Waiting, Current
  <2>6. BatchOK(w)
    BY DEF IInv
  <2>7. \A j \in Waiting(w) \ shared' :
          attempts'[j] < MaxRetries /\ items'[j].status \in {"pending", "deleted"}
    BY <1>1, <1>5, <1>6, <1>7, <1>10, <2>1, <2>4, <2>6, CountsAreNat DEF BatchOK
  <2>8. task[w].step = "loaded" /\ Current(w) \notin shared' =>
          attempts'[Current(w)] <= task[w].seen.count /\ task[w].seen.status \in {"pending", "deleted"}
    BY <1>1, <1>7, <1>10, <2>1, <2>2, <2>4, <2>6, CountsAreNat DEF BatchOK
  <2>9. task[w].step # "loaded" /\ Current(w) \notin shared' =>
          items'[Current(w)].status \in {"retrying", "deleted"}
    BY <1>4, <1>6, <1>10, <2>1, <2>4, <2>6 DEF BatchOK
  <2> QED
    BY <1>2, <1>10, <2>5, <2>7, <2>8, <2>9 DEF BatchOK
<1>11. \A w \in Workers : BatchOK(w)'
  BY <1>2, <1>10 DEF BatchOK, Busy
<1>12. StaysResolved
  BY <1>4, <1>6 DEF StaysResolved
<1> QED
  BY <1>8, <1>9, <1>11, <1>12 DEF IInv

LEMMA DeleteStep ==
  ASSUME IInv, TInv', NEW i \in DOMAIN items, DeleteItem(i)
  PROVE  IInv' /\ StaysResolved
<1>1. TypeOK /\ i \in Ids /\ items[i] \in Item
  BY RowsInIds DEF IInv, TInv
<1>2. UNCHANGED <<task, attempts, shared>>
  BY DEF DeleteItem
<1>3. PICK row : row = [items[i] EXCEPT !.status = "deleted"]
  OBVIOUS
<1>4. items' = [items EXCEPT ![i] = row]
  BY <1>3 DEF DeleteItem
<1>5. row \in Item /\ row.status = "deleted" /\ row.count = items[i].count
  BY <1>1, <1>3 DEF Item
<1>6. /\ DOMAIN items' = DOMAIN items /\ items'[i] = row
      /\ \A j \in DOMAIN items : j # i => items'[j] = items[j]
  BY <1>1, <1>4, <1>5, RowWritten
<1>7. AttemptsCounted'
  BY <1>2, <1>5, <1>6 DEF IInv, AttemptsCounted
<1>8. SharedKnown'
  BY <1>2, <1>6 DEF IInv, SharedKnown, Holds
<1>9. ASSUME NEW w \in Workers, Busy(w) PROVE BatchOK(w)'
  <2>1. task[w].queue \subseteq DOMAIN items /\ Current(w) \in task[w].queue
    BY <1>9, BatchFacts
  <2>2. Waiting(w)' = Waiting(w) /\ Current(w)' = Current(w) /\ Waiting(w) \subseteq DOMAIN items
    BY <1>2, <2>1 DEF Waiting, Current
  <2>3. BatchOK(w)
    BY DEF IInv
  <2> QED
    BY <1>2, <1>5, <1>6, <1>9, <2>1, <2>2, <2>3 DEF BatchOK
<1>10. \A w \in Workers : BatchOK(w)'
  BY <1>2, <1>9 DEF BatchOK, Busy
<1>11. StaysResolved
  BY <1>5, <1>6 DEF StaysResolved
<1> QED
  BY <1>7, <1>8, <1>10, <1>11 DEF IInv
-----------------------------------------------------------------------------
(* The steps of a retry task on its batch.                                 *)

\* What the other tasks know of their batches is not disturbed by a step that writes one row
\* of a task's batch, for the items that are not shared.
LEMMA OthersStep ==
  ASSUME IInv, NEW w \in Workers, Busy(w), NEW i \in task[w].queue,
         NEW v \in Workers, v # w, task'[v] = task[v], Busy(v), UNCHANGED shared,
         \A j \in DOMAIN items : j # i => items'[j] = items[j],
         \A j \in Ids : j # i => attempts'[j] = attempts[j]
  PROVE  BatchOK(v)'
<1>1. /\ task[v].queue \subseteq DOMAIN items /\ task[v].queue \in SUBSET Ids
      /\ Current(v) \in task[v].queue /\ Waiting(v) \subseteq task[v].queue
  BY BatchFacts
<1>2. i \in task[v].queue => i \in shared
  BY BatchFacts
<1>3. \A j \in task[v].queue \ shared : items'[j] = items[j] /\ attempts'[j] = attempts[j]
  BY <1>1, <1>2
<1>4. Waiting(v)' = Waiting(v) /\ Current(v)' = Current(v)
  BY DEF Waiting, Current
<1>5. BatchOK(v)
  BY DEF IInv
<1> QED
  BY <1>1, <1>3, <1>4, <1>5 DEF BatchOK

\* A task that ends or goes on with its batch holds nothing new.
LEMMA SharedStep ==
  ASSUME IInv, NEW w \in Workers, Busy(w), NEW next,
         next.job \in {"ai", "generic"} => next.queue \subseteq task[w].queue,
         task' = [task EXCEPT ![w] = next], UNCHANGED shared, DOMAIN items' = DOMAIN items
  PROVE  SharedKnown'
<1>1. \A v \in Workers : task'[v] = IF v = w THEN next ELSE task[v]
  BY DEF IInv, TInv, TypeOK
<1>2. \A v \in Workers, i \in Ids : Holds(v, i)' => Holds(v, i)
  BY <1>1 DEF Holds, Busy
<1> QED
  BY <1>2 DEF IInv, SharedKnown

\* The selection: items with attempts left, and what another task holds is shared.
LEMMA SelectStep ==
  ASSUME IInv, TInv', NEW w \in Workers, SelectItems(w)
  PROVE  IInv' /\ StaysResolved
<1>1. UNCHANGED items /\ ~Busy(w)
  BY DEF SelectItems, Busy, Idle
<1>2. TypeOK
  BY DEF IInv, TInv
<1>3. PICK job \in {"ai", "generic"} :
        \E batch \in Batches(job) :
          /\ task' = [task EXCEPT ![w] = Loaded(job, batch)]
          /\ shared' = shared \cup (batch \cap Held)
          /\ attempts' = [i \in Ids |-> IF i \in batch \cap Held THEN 0 ELSE attempts[i]]
  BY DEF SelectItems
<1>4. Selected(job) \subseteq DOMAIN items /\ DOMAIN items \subseteq Ids
  BY <1>2, RowsInIds DEF Selected
<1>5. Selected(job) \in SUBSET Nat
  BY <1>4, IdsAreNat
<1>6. PICK batch \in (SUBSET Selected(job)) \ {{}} :
        /\ task' = [task EXCEPT ![w] = Loaded(job, batch)]
        /\ shared' = shared \cup (batch \cap Held)
        /\ attempts' = [i \in Ids |-> IF i \in batch \cap Held THEN 0 ELSE attempts[i]]
  BY <1>3, <1>5, BatchSelected
<1>7. First(batch) \in batch
  BY <1>5, <1>6, FirstIn
<1>8. task'[w] = Loaded(job, batch) /\ \A v \in Workers : v # w => task'[v] = task[v]
  BY <1>2, <1>6 DEF TypeOK
<1>9. /\ Loaded(job, batch).step = "loaded" /\ Loaded(job, batch).queue = batch
      /\ Loaded(job, batch).seen = items[First(batch)] /\ Loaded(job, batch).job = job
  BY DEF Loaded
<1>10. \A i \in batch : /\ i \in Ids /\ items[i].status = "pending"
                         /\ attempts[i] <= items[i].count /\ items[i].count < MaxRetries
  BY <1>4, <1>6 DEF Selected, Retryable, IInv, AttemptsCounted
<1>11. \A i \in batch : attempts[i] < MaxRetries
  BY <1>2, <1>4, <1>6, <1>10, CountsAreNat
<1>12. \A i \in Ids \ shared' : i \in batch => attempts'[i] = attempts[i]
  BY <1>6
<1>13. BatchOK(w)'
  <2>1. Current(w)' = First(batch) /\ Waiting(w)' = batch
    BY <1>8, <1>9 DEF Current, Waiting
  <2> QED
    BY <1>1, <1>7, <1>8, <1>9, <1>10, <1>11, <1>12, <2>1 DEF BatchOK
<1>14. ASSUME NEW v \in Workers, v # w, Busy(v) PROVE BatchOK(v)'
  <2>1. /\ task[v].queue \in SUBSET Ids /\ Current(v) \in task[v].queue
        /\ Waiting(v) \subseteq task[v].queue
    BY <1>14, BatchFacts
  <2>2. Waiting(v)' = Waiting(v) /\ Current(v)' = Current(v)
    BY <1>8, <1>14 DEF Waiting, Current
  <2>3. \A i \in Ids : i \notin shared' => i \notin shared /\ attempts'[i] = attempts[i]
    BY <1>6
  <2>4. BatchOK(v)
    BY DEF IInv
  <2> QED
    BY <1>1, <1>8, <1>14, <2>1, <2>2, <2>3, <2>4 DEF BatchOK
<1>15. \A v \in Workers : BatchOK(v)'
  BY <1>8, <1>13, <1>14 DEF BatchOK, Busy
<1>16. SharedKnown'
  <2>1. shared' \subseteq DOMAIN items'
    BY <1>1, <1>6 DEF IInv, SharedKnown, Held
  <2>2. ASSUME NEW v \in Workers, NEW u \in Workers, v # u, NEW i \in Ids, Holds(v, i)', Holds(u, i)'
        PROVE  i \in shared'
    <3>1. \A x \in Workers : x # w /\ Holds(x, i)' => Holds(x, i)
      BY <1>8 DEF Holds
    <3>2. Holds(w, i)' => i \in batch
      BY <1>8, <1>9 DEF Holds
    <3>3. \A x \in Workers : i \in batch /\ Holds(x, i) => i \in Held
      BY <1>4, <1>6 DEF Held
    <3> QED
      BY <1>6, <2>2, <3>1, <3>2, <3>3 DEF IInv, SharedKnown
  <2> QED
    BY <2>1, <2>2 DEF SharedKnown
<1>17. AttemptsCounted'
  <2>1. \A i \in Ids : attempts'[i] = (IF i \in batch \cap Held THEN 0 ELSE attempts[i])
    BY <1>6
  <2>2. \A i \in DOMAIN items : 0 <= items[i].count /\ 0 <= MaxRetries
    BY <1>2, CountsAreNat
  <2> QED
    BY <1>1, <1>6, <2>1, <2>2 DEF IInv, AttemptsCounted
<1>18. StaysResolved
  BY <1>1 DEF StaysResolved
<1> QED
  BY <1>15, <1>16, <1>17, <1>18 DEF IInv

\* An attempt begins: it is counted before it is made.
LEMMA BeginStep ==
  ASSUME IInv, TInv', NEW w \in Workers, Begin(w)
  PROVE  IInv' /\ StaysResolved
<1> PICK i, seen : i = Current(w) /\ seen = task[w].seen
  OBVIOUS
<1>1. TypeOK /\ Busy(w) /\ task[w].step = "loaded" /\ UNCHANGED shared
  BY DEF IInv, TInv, Begin, Busy
<1>2. /\ i \in task[w].queue /\ i \in DOMAIN items /\ i \in Ids
      /\ items[i] \in Item /\ seen \in Item /\ Holds(w, i)
      /\ DOMAIN items \subseteq Ids
  BY <1>1, BatchFacts, RowsInIds
<1>3. CASE items[i].status = "deleted"
  <2>1. task' = [task EXCEPT ![w] = Idle] /\ UNCHANGED <<items, attempts>>
    BY <1>3 DEF Begin, Current
  <2>2. ~Busy(w)' /\ \A v \in Workers : v # w => task'[v] = task[v]
    BY <1>1, <2>1 DEF TypeOK, Busy, Idle
  <2>3. AttemptsCounted' /\ StaysResolved
    BY <1>1, <2>1 DEF IInv, AttemptsCounted, StaysResolved
  <2>4. SharedKnown'
    BY <1>1, <2>1, SharedStep DEF Idle
  <2>5. \A v \in Workers : v # w /\ Busy(v) => BatchOK(v)'
    BY <1>1, <1>2, <2>1, <2>2, OthersStep
  <2>6. \A v \in Workers : BatchOK(v)'
    BY <2>2, <2>5 DEF BatchOK, Busy
  <2> QED
    BY <2>3, <2>4, <2>6 DEF IInv
<1>4. CASE items[i].status # "deleted"
  <2> PICK row : row = [items[i] EXCEPT !.count = Counted(seen.count),
                                        !.status = IF seen.status = "retrying" THEN @ ELSE "retrying"]
    OBVIOUS
  <2>1. /\ items' = [items EXCEPT ![i] = row]
        /\ task' = [task EXCEPT ![w] = [@ EXCEPT !.step = "trying", !.seen = row]]
        /\ attempts' = [attempts EXCEPT ![i] = IF i \in shared \/ @ > MaxRetries THEN @ ELSE @ + 1]
    BY <1>4 DEF Begin, Current
  <2>2. /\ attempts[i] \in Nat /\ MaxRetries \in Nat /\ seen.count \in Nat
        /\ i \in shared => attempts[i] = 0
    BY <1>1, <1>2, CountsAreNat DEF Item, IInv, AttemptsCounted
  <2>3. i \notin shared =>
          /\ attempts[i] < MaxRetries /\ items[i].status \in {"pending", "deleted"}
          /\ attempts[i] <= seen.count /\ seen.status \in {"pending", "deleted"}
    BY <1>1, <1>2 DEF IInv, BatchOK, Waiting
  <2>4. row \in Item /\ row.count = seen.count + 1 /\ (i \notin shared => row.status = "retrying")
    <3>1. items[i].status \in {"pending", "retrying", "resolved", "exhausted", "deleted"}
      BY <1>2 DEF Item
    <3>2. seen.count + 1 \in Nat
      BY <2>2
    <3>3. row \in Item
      BY <1>2, <3>1, <3>2, ItemUpdated DEF Counted
    <3>4. row.count = seen.count + 1
      BY <1>2 DEF Counted, Item
    <3>5. i \notin shared => row.status = "retrying"
      BY <1>2, <2>3 DEF Item
    <3> QED
      BY <3>3, <3>4, <3>5
  <2>5. /\ DOMAIN items' = DOMAIN items /\ items'[i] = row
        /\ \A j \in DOMAIN items : j # i => items'[j] = items[j]
    BY <1>1, <1>2, <2>1, <2>4, RowWritten
  <2>6. /\ attempts'[i] = (IF i \in shared \/ attempts[i] > MaxRetries THEN attempts[i] ELSE attempts[i] + 1)
        /\ \A j \in Ids : j # i => attempts'[j] = attempts[j]
    BY <1>1, <1>2, <2>1 DEF TypeOK
  <2>7. attempts'[i] = IF i \in shared THEN 0 ELSE attempts[i] + 1
    BY <2>2, <2>3, <2>6
  <2>8. AttemptsCounted'
    <3>1. attempts'[i] <= items'[i].count /\ attempts'[i] <= MaxRetries
      BY <2>2, <2>3, <2>4, <2>5, <2>7
    <3> QED
      BY <1>1, <1>2, <2>5, <2>6, <2>7, <3>1 DEF IInv, AttemptsCounted
  <2>9. PICK next : next = [task[w] EXCEPT !.step = "trying", !.seen = row]
    OBVIOUS
  <2>10. /\ next.step = "trying" /\ next.queue = task[w].queue
         /\ task' = [task EXCEPT ![w] = next]
         /\ task'[w] = next
         /\ \A v \in Workers : v # w => task'[v] = task[v]
    <3>1. task[w] \in Retry
      BY <1>1, BusyTask
    <3>2. next.step = "trying" /\ next.queue = task[w].queue
      BY <1>1, <2>9, <3>1 DEF Retry
    <3> QED
      BY <1>1, <2>1, <2>9, <3>2 DEF TypeOK
  <2>11. SharedKnown'
    BY <1>1, <2>5, <2>10, SharedStep
  <2>12. BatchOK(w)'
    <3>1. Current(w)' = i /\ Waiting(w)' = Waiting(w) \ {i} /\ Waiting(w) = task[w].queue
      BY <1>1, <2>10 DEF Current, Waiting
    <3>2. task[w].queue \subseteq DOMAIN items
      BY <1>1, BatchFacts
    <3>3. \A j \in Waiting(w) \ {i} : j \notin shared =>
            attempts'[j] < MaxRetries /\ items'[j].status \in {"pending", "deleted"}
      BY <1>1, <1>2, <2>5, <2>6, <3>1, <3>2 DEF IInv, BatchOK
    <3> QED
      BY <1>1, <2>4, <2>5, <2>10, <3>1, <3>3 DEF BatchOK
  <2>13. \A v \in Workers : v # w /\ Busy(v) => BatchOK(v)'
    BY <1>1, <1>2, <2>5, <2>6, <2>10, OthersStep
  <2>14. \A v \in Workers : BatchOK(v)'
    BY <2>10, <2>12, <2>13 DEF BatchOK, Busy
  <2>15. StaysResolved
    <3>1. i \in Held
      BY <1>2 DEF Held
    <3> QED
      BY <2>3, <2>5, <3>1 DEF StaysResolved
  <2> QED
    BY <2>8, <2>11, <2>14, <2>15 DEF IInv
<1> QED
  BY <1>3, <1>4

\* The verdict is written on the item in its turn only; the next item is loaded.
LEMMA SettleStep ==
  ASSUME IInv, TInv', NEW w \in Workers, Settle(w)
  PROVE  IInv' /\ StaysResolved
<1> PICK i, verdict : i = Current(w) /\ verdict = task[w].verdict
  OBVIOUS
<1> PICK rest : rest = task[w].queue \ {i}
  OBVIOUS
<1>1. TypeOK /\ Busy(w) /\ task[w].step = "settling" /\ UNCHANGED <<attempts, shared>>
  BY DEF IInv, TInv, Settle, Busy
<1>2. /\ i \in task[w].queue /\ i \in DOMAIN items /\ DOMAIN items \subseteq Ids
      /\ rest \subseteq DOMAIN items /\ rest \in SUBSET Nat
      /\ items[i] \in Item /\ Holds(w, i)
      /\ verdict \in {"pending", "resolved", "exhausted"}
  BY <1>1, BatchFacts, BusyTask, RowsInIds, IdsAreNat
<1>3. i \notin shared => items[i].status \in {"retrying", "deleted"}
  BY <1>1 DEF IInv, BatchOK
<1>4. /\ DOMAIN items' = DOMAIN items /\ items'[i].count = items[i].count
      /\ \A j \in DOMAIN items : j # i => items'[j] = items[j]
  <2>1. CASE UNCHANGED items
    BY <2>1
  <2>2. CASE items' = [items EXCEPT ![i].status = verdict]
    <3>1. PICK row : row = [items[i] EXCEPT !.status = verdict]
      OBVIOUS
    <3>2. row \in Item /\ row.count = items[i].count
      BY <1>2, <3>1 DEF Item
    <3>3. items' = [items EXCEPT ![i] = row]
      BY <2>2, <3>1
    <3> QED
      BY <1>1, <1>2, <3>2, <3>3, RowWritten
  <2> QED
    BY <2>1, <2>2 DEF Settle, Current
<1>5. AttemptsCounted'
  BY <1>1, <1>4 DEF IInv, AttemptsCounted
<1>6. StaysResolved
  <2>1. i \in Held
    BY <1>2 DEF Held
  <2> QED
    BY <1>3, <1>4, <2>1 DEF StaysResolved
<1>7. CASE rest = {} \/ items[i].status = "deleted"
  <2>1. task' = [task EXCEPT ![w] = Idle]
    BY <1>7 DEF Settle, Current
  <2>2. ~Busy(w)' /\ \A v \in Workers : v # w => task'[v] = task[v]
    BY <1>1, <2>1 DEF TypeOK, Busy, Idle
  <2>3. SharedKnown'
    BY <1>1, <1>4, <2>1, SharedStep DEF Idle
  <2>4. \A v \in Workers : v # w /\ Busy(v) => BatchOK(v)'
    BY <1>1, <1>2, <1>4, <2>2, OthersStep
  <2>5. \A v \in Workers : BatchOK(v)'
    BY <2>2, <2>4 DEF BatchOK, Busy
  <2> QED
    BY <1>5, <1>6, <2>3, <2>5 DEF IInv
<1>8. CASE ~ (rest = {} \/ items[i].status = "deleted")
  <2>1. PICK next : next = [job |-> task[w].job, step |-> "loaded", queue |-> rest,
                            seen |-> items[First(rest)]]
    OBVIOUS
  <2>2. task' = [task EXCEPT ![w] = next]
    BY <1>8, <2>1 DEF Settle, Current
  <2>3. First(rest) \in rest
    BY <1>2, <1>8, FirstIn
  <2>4. task'[w] = next /\ \A v \in Workers : v # w => task'[v] = task[v]
    BY <1>1, <2>2 DEF TypeOK
  <2>5. /\ next.step = "loaded" /\ next.queue = rest /\ next.seen = items[First(rest)]
        /\ rest \subseteq task[w].queue
    BY <2>1
  <2>6. Current(w)' = First(rest) /\ Waiting(w)' = rest /\ Waiting(w) = rest
    BY <1>1, <2>4, <2>5 DEF Current, Waiting
  <2>7. \A j \in rest \ shared :
          attempts'[j] < MaxRetries /\ items'[j].status \in {"pending", "deleted"}
    BY <1>1, <1>2, <1>4, <2>6 DEF IInv, BatchOK
  <2>8. First(rest) \notin shared =>
          attempts'[First(rest)] <= next.seen.count /\ next.seen.status \in {"pending", "deleted"}
    BY <1>1, <1>2, <1>4, <2>3, <2>5, <2>7 DEF IInv, AttemptsCounted
  <2>9. BatchOK(w)'
    BY <1>1, <2>4, <2>5, <2>6, <2>7, <2>8 DEF BatchOK
  <2>10. SharedKnown'
    BY <1>1, <1>4, <2>2, <2>5, SharedStep
  <2>11. \A v \in Workers : v # w /\ Busy(v) => BatchOK(v)'
    BY <1>1, <1>2, <1>4, <2>4, OthersStep
  <2>12. \A v \in Workers : BatchOK(v)'
    BY <2>4, <2>9, <2>11 DEF BatchOK, Busy
  <2> QED
    BY <1>5, <1>6, <2>10, <2>12 DEF IInv
<1> QED
  BY <1>7, <1>8

\* The document and the rows of a step of the processor.
LEMMA IngestedDoc ==
  ASSUME TypeOK, NEW w \in Workers, IngestAnalysis(w)
  PROVE  task[w].doc \in Docs
BY DEF TypeOK, IngestAnalysis, Ingest, Retry, Idle

LEMMA ReprocessedItem ==
  ASSUME IInv, NEW w \in Workers, Reprocess(w)
  PROVE  UNCHANGED items \/ \E d \in Docs : SaveAnalysisFailure(d)
<1>1. PICK i, d : i = Current(w) /\ d = items[i].celex
  OBVIOUS
<1>2. Busy(w) /\ d # None
  BY <1>1 DEF Reprocess, Busy, Current
<1>3. items[i] \in Item
  BY <1>1, <1>2, BatchFacts, RowsInIds DEF IInv, TInv
<1>4. d \in Docs
  BY <1>1, <1>2, <1>3 DEF Item
<1>5. UNCHANGED items \/ \E doc : Analysis(d, doc)
  BY <1>1 DEF Reprocess, Current
<1> QED
  BY <1>4, <1>5 DEF Analysis

\* The steps that leave the rows of a batch to its task.
LEMMA OtherSteps ==
  ASSUME IInv, TInv', NEW w \in Workers,
         \/ IngestEntry(w) \/ IngestAnalysis(w) \/ Crash(w)
         \/ Analyse(w) \/ Reprocess(w) \/ RefuseEntry(w)
  PROVE  IInv' /\ StaysResolved
<1>1. TypeOK
  BY DEF IInv, TInv
<1>2. UNCHANGED <<attempts, shared>>
  BY DEF IngestEntry, IngestAnalysis, Crash, Analyse, Reprocess, RefuseEntry
<1>3. RowsGrow
  <2>1. CASE UNCHANGED items
    BY <1>1, <2>1, RowsUnchanged
  <2>2. CASE IngestAnalysis(w)
    BY <1>1, <2>1, <2>2, FailureSaved, IngestedDoc DEF IngestAnalysis, Analysis
  <2>3. CASE Reprocess(w)
    BY <1>1, <2>1, <2>3, ReprocessedItem, FailureSaved
  <2> QED
    BY <2>1, <2>2, <2>3 DEF IngestEntry, Crash, Analyse, RefuseEntry
<1>4. ASSUME NEW v \in Workers, Busy(v)'
      PROVE  /\ Busy(v) /\ task'[v].queue = task[v].queue
             /\ task'[v] = task[v] \/ (task[v].step # "loaded" /\ task'[v].step # "loaded")
  <2>1. CASE v # w
    <3>1. task'[v] = task[v]
      BY <1>1, <2>1 DEF TypeOK, IngestEntry, IngestAnalysis, Crash, Analyse, Reprocess, RefuseEntry, Verdict
    <3> QED
      BY <1>4, <3>1 DEF Busy
  <2>2. CASE v = w
    <3>1. CASE IngestEntry(w) \/ IngestAnalysis(w) \/ Crash(w)
      <4>1. PICK t \in Ingest \cup {Idle} : task' = [task EXCEPT ![w] = t]
        BY <3>1 DEF IngestEntry, IngestAnalysis, Crash, Ingest
      <4>2. task'[w] = t
        BY <1>1, <4>1 DEF TypeOK
      <4> QED
        BY <1>4, <2>2, <4>1, <4>2 DEF Busy, Ingest, Idle
    <3>2. CASE Analyse(w) \/ Reprocess(w) \/ RefuseEntry(w)
      <4>1. Busy(w) /\ task[w].step = "trying"
        BY <3>2 DEF Analyse, Reprocess, RefuseEntry, Busy
      <4>2. PICK verdict : Verdict(w, verdict)
        BY <3>2 DEF Analyse, Reprocess, RefuseEntry
      <4>3. task'[w].step = "settling" /\ task'[w].queue = task[w].queue
        BY <1>1, <4>2 DEF TypeOK, Verdict
      <4> QED
        BY <2>2, <4>1, <4>3
    <3> QED
      BY <3>1, <3>2
  <2> QED
    BY <2>1, <2>2
<1> QED
  BY <1>2, <1>3, <1>4, QuietStep

\* Every step of the queue.
LEMMA NextIInv ==
  ASSUME IInv, [Next]_vars
  PROVE  IInv' /\ (StaysResolved \/ UNCHANGED vars)
<1>1. TInv /\ TInv'
  BY NextTInv DEF IInv
<1>2. CASE SupervisoryFailure
  <2>1. RowsGrow
    BY <1>1, <1>2, RowAdded DEF SupervisoryFailure, TInv
  <2>2. UNCHANGED <<task, attempts, shared>>
    BY <1>2 DEF SupervisoryFailure
  <2>3. \A v \in Workers : Busy(v)' => Busy(v) /\ task'[v].queue = task[v].queue /\ task'[v] = task[v]
    BY <2>2 DEF Busy
  <2> QED
    BY <1>1, <2>1, <2>2, <2>3, QuietStep
<1>3. CASE UNCHANGED vars
  BY <1>1, <1>3 DEF vars, IInv, AttemptsCounted, SharedKnown, Holds, BatchOK, Busy, Waiting, Current
<1> QED
  BY <1>1, <1>2, <1>3, SelectStep, BeginStep, SettleStep, OtherSteps, PutBackStep, DeleteStep
     DEF Next, RetryTask

\* At most max_retries attempts are begun on an item between two retries by hand, whatever
\* crashes in between and whatever retry tasks run beside (worker.py counts an attempt before
\* it makes it), as long as no two of them hold the item at once.
THEOREM AttemptsAreBounded == Spec => []AttemptsBounded
<1>1. IInv /\ [Next]_vars => IInv'
  BY NextIInv
<1>2. IInv => AttemptsBounded
  BY RowsInIds DEF IInv, TInv, AttemptsCounted, AttemptsBounded
<1> QED
  BY <1>1, <1>2, InitIInv, PTL DEF Spec

\* A resolved item stays resolved until it is deleted: no batch selected earlier and no retry
\* by hand opens it again, except a second task that held it together with the first and has
\* not settled it (worker.py, api/ingestion.py).
THEOREM ResolvedStaysFinal == Spec => ResolvedIsFinal
<1>1. IInv /\ [Next]_vars => IInv'
  BY NextIInv
<1>2. IInv /\ [Next]_vars =>
        [\A i \in DOMAIN items :
           items[i].status = "resolved" /\ i \notin shared \cap Held =>
             items'[i].status \in {"resolved", "deleted"}]_vars
  BY NextIInv DEF StaysResolved
<1> QED
  BY <1>1, <1>2, InitIInv, PTL DEF Spec, ResolvedIsFinal
-----------------------------------------------------------------------------
(* The promise.  DeadLetterQueue implements RetryQueue: Begin is its       *)
(* Attempt, Settle its Conclude, a selection that takes what another task  *)
(* holds its Contend, and whatever else runs adds an item, is the          *)
(* administrator's step or leaves every status alone.                      *)

\* The variable of RetryQueue that is not one of DeadLetterQueue.
Shown(i, status) == IF i \in shared /\ status # "deleted" THEN "contended" ELSE status

Status ==
  [i \in Ids |-> IF i \notin DOMAIN items THEN "none"
                 ELSE IF Contended(i) THEN "contended" ELSE items[i].status]

PromisedStep == [RetryQueue!Next]_(RetryQueue!vars)

LEMMA SameStatus ==
  ASSUME UNCHANGED <<Status, attempts>>
  PROVE  PromisedStep
BY DEF PromisedStep, RetryQueue!vars, Status

LEMMA SameRows ==
  ASSUME UNCHANGED <<items, shared, attempts>>
  PROVE  PromisedStep
BY SameStatus DEF Status, Contended

\* One row is written: one status changes.
LEMMA StatusWritten ==
  ASSUME TypeOK, UNCHANGED shared, NEW i \in DOMAIN items, NEW row \in Item,
         items' = [items EXCEPT ![i] = row]
  PROVE  i \in Ids /\ Status[i] = Shown(i, items[i].status)
         /\ Status' = [Status EXCEPT ![i] = Shown(i, row.status)]
<1>1. /\ DOMAIN items' = DOMAIN items /\ items'[i] = row
      /\ \A j \in DOMAIN items : j # i => items'[j] = items[j]
  BY RowWritten
<1>2. i \in Ids
  BY RowsInIds
<1> QED
  BY <1>1, <1>2 DEF Status, Contended, Shown

LEMMA AddPromised ==
  ASSUME TypeOK, SharedKnown, NEW celex \in Docs \cup {None}, AddItem(celex),
         UNCHANGED <<attempts, shared>>
  PROVE  PromisedStep
<1>1. NewItem(celex) \in Item /\ NewItem(celex).status = "pending"
  BY QueueAssumption DEF NewItem, Item
<1>2. items \in Seq(Item) /\ Len(items) \in Nat /\ DOMAIN items = 1..Len(items)
  BY RowsInIds DEF TypeOK
<1>3. PICK n : n = Len(items) + 1
  OBVIOUS
<1>4. /\ items' \in Seq(Item) /\ Len(items') = n /\ items'[n] = NewItem(celex)
      /\ \A i \in 1..Len(items) : items'[i] = items[i]
  BY <1>1, <1>2, <1>3, AppendProperties DEF AddItem
<1>5. DOMAIN items' = DOMAIN items \cup {n} /\ n \notin DOMAIN items /\ n \in Ids
  <2>1. DOMAIN items' = 1..n
    BY <1>4, LenProperties
  <2> QED
    BY <1>2, <1>3, <2>1, QueueAssumption DEF AddItem, Ids
<1>6. n \notin shared
  BY <1>5 DEF SharedKnown
<1>7. Status[n] = "none" /\ Status' = [Status EXCEPT ![n] = "pending"]
  BY <1>1, <1>2, <1>4, <1>5, <1>6 DEF Status, Contended
<1>8. RetryQueue!Add(n)
  BY <1>7 DEF RetryQueue!Add, Status
<1> QED
  BY <1>5, <1>8 DEF PromisedStep, RetryQueue!Next

\* A failure that is written to the queue adds an item, or one to the count of an open one.
LEMMA FailurePromised ==
  ASSUME TypeOK, SharedKnown, NEW d \in Docs, SaveAnalysisFailure(d),
         UNCHANGED <<attempts, shared>>
  PROVE  PromisedStep
<1>1. CASE UNCHANGED items
  BY <1>1, SameRows
<1>2. CASE AddItem(d)
  BY <1>2, AddPromised
<1>3. ASSUME NEW i \in DOMAIN items, items' = [items EXCEPT ![i].count = @ + 1]
      PROVE  PromisedStep
  <2> PICK row : row = [items[i] EXCEPT !.count = items[i].count + 1]
    OBVIOUS
  <2>1. items[i] \in Item
    BY RowsInIds
  <2>2. row \in Item /\ row.status = items[i].status
    BY <2>1 DEF Item
  <2>3. items' = [items EXCEPT ![i] = row]
    BY <1>3
  <2>4. /\ i \in Ids /\ Status[i] = Shown(i, items[i].status)
        /\ Status' = [Status EXCEPT ![i] = Shown(i, row.status)]
    BY <2>2, <2>3, StatusWritten
  <2>5. Status' = Status
    BY <2>2, <2>4 DEF Status
  <2> QED
    BY <2>5, SameStatus
<1> QED
  BY <1>1, <1>2, <1>3 DEF SaveAnalysisFailure

\* A selection: what another task holds is contended from now on.
LEMMA SelectPromised ==
  ASSUME IInv, NEW w \in Workers, SelectItems(w)
  PROVE  PromisedStep
<1>1. TypeOK /\ UNCHANGED items
  BY DEF IInv, TInv, SelectItems
<1>2. PICK job \in {"ai", "generic"} :
        \E batch \in Batches(job) :
          /\ shared' = shared \cup (batch \cap Held)
          /\ attempts' = [i \in Ids |-> IF i \in batch \cap Held THEN 0 ELSE attempts[i]]
  BY DEF SelectItems
<1>3. Selected(job) \in SUBSET Nat /\ DOMAIN items \subseteq Ids /\ Selected(job) \subseteq DOMAIN items
  BY <1>1, RowsInIds, IdsAreNat DEF Selected
<1>4. PICK batch \in (SUBSET Selected(job)) \ {{}} :
        /\ shared' = shared \cup (batch \cap Held)
        /\ attempts' = [i \in Ids |-> IF i \in batch \cap Held THEN 0 ELSE attempts[i]]
  BY <1>2, <1>3, BatchSelected
<1>5. PICK taken : taken = (batch \cap Held) \ shared
  OBVIOUS
<1>6. \A i \in batch : i \in DOMAIN items /\ i \in Ids /\ items[i].status = "pending"
  BY <1>3, <1>4 DEF Selected, Retryable
<1>7. taken \in SUBSET Ids /\ \A i \in taken : Status[i] = "pending"
  BY <1>5, <1>6 DEF Status, Contended
<1>8. Status' = [i \in Ids |-> IF i \in taken THEN "contended" ELSE Status[i]]
  BY <1>1, <1>4, <1>5, <1>6 DEF Status, Contended
<1>9. attempts' = [i \in Ids |-> IF i \in taken THEN 0 ELSE attempts[i]]
  BY <1>4, <1>5 DEF IInv, AttemptsCounted
<1>10. RetryQueue!Contend(taken)
  BY <1>7, <1>8, <1>9 DEF RetryQueue!Contend, Status
<1> QED
  BY <1>7, <1>10 DEF PromisedStep, RetryQueue!Next

\* An attempt begins on a pending item that has one left, unless the item is contended.
LEMMA BeginPromised ==
  ASSUME IInv, NEW w \in Workers, Begin(w)
  PROVE  PromisedStep
<1> PICK i, seen : i = Current(w) /\ seen = task[w].seen
  OBVIOUS
<1>1. TypeOK /\ Busy(w) /\ task[w].step = "loaded" /\ UNCHANGED shared
  BY DEF IInv, TInv, Begin, Busy
<1>2. i \in DOMAIN items /\ items[i] \in Item /\ seen \in Item /\ i \in Waiting(w)
  BY <1>1, BatchFacts, RowsInIds DEF Waiting
<1>3. i \notin shared =>
        /\ attempts[i] < MaxRetries /\ items[i].status \in {"pending", "deleted"}
        /\ seen.status \in {"pending", "deleted"}
  BY <1>1, <1>2 DEF IInv, BatchOK
<1>4. CASE items[i].status = "deleted"
  BY <1>1, <1>4, SameRows DEF Begin, Current
<1>5. CASE items[i].status # "deleted"
  <2> PICK row : row = [items[i] EXCEPT !.count = Counted(seen.count),
                                        !.status = IF seen.status = "retrying" THEN @ ELSE "retrying"]
    OBVIOUS
  <2>1. /\ items' = [items EXCEPT ![i] = row]
        /\ attempts' = [attempts EXCEPT ![i] = IF i \in shared \/ @ > MaxRetries THEN @ ELSE @ + 1]
    BY <1>5 DEF Begin, Current
  <2>2. row \in Item
    <3>1. items[i].status \in {"pending", "retrying", "resolved", "exhausted", "deleted"}
      BY <1>2 DEF Item
    <3>2. seen.count + 1 \in Nat
      BY <1>2 DEF Item
    <3> QED
      BY <1>2, <3>1, <3>2, ItemUpdated DEF Counted
  <2>3. row.status = IF seen.status = "retrying" THEN items[i].status ELSE "retrying"
    BY <1>2 DEF Item
  <2>4. /\ i \in Ids /\ Status[i] = Shown(i, items[i].status)
        /\ Status' = [Status EXCEPT ![i] = Shown(i, row.status)]
    BY <1>1, <1>2, <2>1, <2>2, StatusWritten
  <2>5. CASE i \in shared
    <3>1. Shown(i, row.status) = Shown(i, items[i].status)
      BY <1>5, <2>3, <2>5 DEF Shown
    <3>2. Status' = Status
      BY <2>4, <3>1 DEF Status
    <3>3. attempts' = attempts
      BY <1>1, <2>1, <2>5 DEF TypeOK
    <3> QED
      BY <3>2, <3>3, SameStatus
  <2>6. CASE i \notin shared
    <3>1. attempts' = [attempts EXCEPT ![i] = attempts[i] + 1]
      <4>1. attempts[i] \in Nat /\ MaxRetries \in Nat /\ attempts[i] < MaxRetries
        BY <1>1, <1>3, <2>4, <2>6, CountsAreNat
      <4>2. ~(i \in shared \/ attempts[i] > MaxRetries)
        BY <2>6, <4>1
      <4> QED
        BY <2>1, <4>2
    <3>2. Shown(i, items[i].status) = "pending" /\ Shown(i, row.status) = "retrying"
      BY <1>3, <1>5, <2>3, <2>6 DEF Shown
    <3>3. RetryQueue!Attempt(i)
      BY <1>3, <2>4, <2>6, <3>1, <3>2 DEF RetryQueue!Attempt, Status
    <3> QED
      BY <2>4, <3>3 DEF PromisedStep, RetryQueue!Next
  <2> QED
    BY <2>5, <2>6
<1> QED
  BY <1>4, <1>5

\* The verdict concludes the attempt, unless the item was deleted under it or is contended.
LEMMA SettlePromised ==
  ASSUME IInv, NEW w \in Workers, Settle(w)
  PROVE  PromisedStep
<1> PICK i, verdict : i = Current(w) /\ verdict = task[w].verdict
  OBVIOUS
<1>1. TypeOK /\ Busy(w) /\ task[w].step = "settling" /\ UNCHANGED <<attempts, shared>>
  BY DEF IInv, TInv, Settle, Busy
<1>2. /\ i \in DOMAIN items /\ items[i] \in Item
      /\ verdict \in {"pending", "resolved", "exhausted"}
  BY <1>1, BatchFacts, BusyTask, RowsInIds
<1>3. i \notin shared => items[i].status \in {"retrying", "deleted"}
  BY <1>1 DEF IInv, BatchOK
<1>4. CASE items[i].status = "deleted"
  BY <1>1, <1>4, SameRows DEF Settle, Current
<1>5. CASE items[i].status # "deleted"
  <2> PICK row : row = [items[i] EXCEPT !.status = verdict]
    OBVIOUS
  <2>1. row \in Item /\ row.status = verdict
    BY <1>2 DEF Item
  <2>2. items' = [items EXCEPT ![i] = row]
    BY <1>5 DEF Settle, Current
  <2>3. /\ i \in Ids /\ Status[i] = Shown(i, items[i].status)
        /\ Status' = [Status EXCEPT ![i] = Shown(i, verdict)]
    <3>1. /\ i \in Ids /\ Status[i] = Shown(i, items[i].status)
          /\ Status' = [Status EXCEPT ![i] = Shown(i, row.status)]
      BY <1>1, <1>2, <2>1, <2>2, StatusWritten
    <3> QED
      BY <2>1, <3>1
  <2>4. CASE i \in shared
    <3>1. Shown(i, verdict) = Shown(i, items[i].status)
      BY <1>2, <1>5, <2>4 DEF Shown
    <3>2. Status' = Status
      BY <2>3, <3>1 DEF Status
    <3> QED
      BY <1>1, <3>2, SameStatus
  <2>5. CASE i \notin shared
    <3>1. Status[i] = "retrying" /\ Status' = [Status EXCEPT ![i] = verdict]
      BY <1>3, <1>5, <2>3, <2>5 DEF Shown
    <3>2. RetryQueue!Conclude(i, verdict)
      BY <1>1, <3>1 DEF RetryQueue!Conclude, Status
    <3> QED
      BY <1>2, <2>3, <3>2 DEF PromisedStep, RetryQueue!Next
  <2> QED
    BY <2>4, <2>5
<1> QED
  BY <1>4, <1>5

\* The administrator puts an item back.
LEMMA PutBackPromised ==
  ASSUME IInv, NEW i \in DOMAIN items, RetryByHand(i)
  PROVE  PromisedStep
<1>1. TypeOK /\ items[i] \in Item /\ i \in Ids
  BY RowsInIds DEF IInv, TInv
<1>2. PICK row : row = [items[i] EXCEPT !.status = "pending", !.count = AnotherChance(items[i].count)]
  OBVIOUS
<1>3. /\ items' = [items EXCEPT ![i] = row] /\ attempts' = [attempts EXCEPT ![i] = 0]
      /\ shared' = IF i \in Held THEN shared ELSE shared \ {i}
  BY <1>2 DEF RetryByHand
<1>4. row \in Item /\ row.status = "pending"
  <2>1. AnotherChance(items[i].count) \in Nat
    BY <1>1 DEF Item, AnotherChance
  <2>2. row \in Item
    BY <1>1, <1>2, <2>1 DEF Item
  <2> QED
    BY <1>1, <1>2, <2>2 DEF Item
<1>5. items[i].status \in {"pending", "exhausted"}
  BY <1>1 DEF RetryByHand, RefusedByHand, Item
<1>6. /\ DOMAIN items' = DOMAIN items /\ items'[i] = row
      /\ \A j \in DOMAIN items : j # i => items'[j] = items[j]
  BY <1>1, <1>3, <1>4, RowWritten
<1>7. Status' = [Status EXCEPT ![i] = IF i \in shared' THEN "contended" ELSE "pending"]
  BY <1>1, <1>3, <1>4, <1>6 DEF Status, Contended
<1>8. Status[i] \in {"pending", "exhausted", "contended"}
      /\ (i \in shared => Status[i] = "contended" /\ attempts[i] = 0)
  BY <1>1, <1>5 DEF Status, Contended, IInv, AttemptsCounted
<1>9. CASE i \in shared'
  <2>1. i \in shared
    BY <1>3, <1>9
  <2>2. Status' = Status /\ attempts' = attempts
    BY <1>1, <1>3, <1>7, <1>8, <1>9, <2>1 DEF Status, TypeOK
  <2> QED
    BY <2>2, SameStatus
<1>10. CASE i \notin shared'
  <2>1. RetryQueue!PutBack(i)
    BY <1>3, <1>7, <1>8, <1>10 DEF RetryQueue!PutBack, Status
  <2> QED
    BY <1>1, <2>1 DEF PromisedStep, RetryQueue!Next
<1> QED
  BY <1>9, <1>10

LEMMA DeletePromised ==
  ASSUME IInv, NEW i \in DOMAIN items, DeleteItem(i)
  PROVE  PromisedStep
<1>1. TypeOK /\ items[i] \in Item
  BY RowsInIds DEF IInv, TInv
<1>2. PICK row : row = [items[i] EXCEPT !.status = "deleted"]
  OBVIOUS
<1>3. /\ items' = [items EXCEPT ![i] = row] /\ items[i].status # "deleted"
      /\ UNCHANGED <<attempts, shared>>
  BY <1>2 DEF DeleteItem
<1>4. row \in Item /\ row.status = "deleted" /\ items[i].status # "none"
  BY <1>1, <1>2 DEF Item
<1>5. /\ i \in Ids /\ Status[i] \notin {"none", "deleted"}
      /\ Status' = [Status EXCEPT ![i] = "deleted"]
  BY <1>1, <1>3, <1>4, StatusWritten DEF Shown
<1>6. RetryQueue!Delete(i)
  BY <1>3, <1>5 DEF RetryQueue!Delete, Status
<1> QED
  BY <1>5, <1>6 DEF PromisedStep, RetryQueue!Next

\* The steps that write no status themselves: they add a failure to the queue at most.
LEMMA AsidePromised ==
  ASSUME IInv, NEW w \in Workers,
         \/ IngestEntry(w) \/ IngestAnalysis(w) \/ Crash(w)
         \/ Analyse(w) \/ Reprocess(w) \/ RefuseEntry(w)
  PROVE  PromisedStep
<1>1. TypeOK /\ SharedKnown
  BY DEF IInv, TInv
<1>2. UNCHANGED <<attempts, shared>>
  BY DEF IngestEntry, IngestAnalysis, Crash, Analyse, Reprocess, RefuseEntry
<1>3. CASE UNCHANGED items
  BY <1>2, <1>3, SameRows
<1>4. CASE IngestAnalysis(w)
  BY <1>1, <1>2, <1>3, <1>4, IngestedDoc, FailurePromised DEF IngestAnalysis, Analysis
<1>5. CASE Reprocess(w)
  BY <1>1, <1>2, <1>3, <1>5, ReprocessedItem, FailurePromised
<1> QED
  BY <1>3, <1>4, <1>5 DEF IngestEntry, Crash, Analyse, RefuseEntry

LEMMA NextPromised ==
  ASSUME IInv, [Next]_vars
  PROVE  PromisedStep
<1>1. CASE SupervisoryFailure
  <2>1. AddItem(None) /\ UNCHANGED <<attempts, shared>>
    BY <1>1 DEF SupervisoryFailure
  <2>2. TypeOK /\ SharedKnown
    BY DEF IInv, TInv
  <2> QED
    BY <2>1, <2>2, AddPromised
<1>2. CASE UNCHANGED vars
  BY <1>2, SameRows DEF vars
<1> QED
  BY <1>1, <1>2, SelectPromised, BeginPromised, SettlePromised, PutBackPromised,
     DeletePromised, AsidePromised
     DEF Next, RetryTask

LEMMA InitPromised == Init => RetryQueue!Init
<1> SUFFICES ASSUME Init PROVE RetryQueue!Init
  OBVIOUS
<1>1. DOMAIN items = {}
  BY EmptySeq DEF Init
<1> QED
  BY <1>1 DEF Init, RetryQueue!Init

\* The queue keeps its promise (KeepsPromise) to every item that no two tasks held at once:
\* only a pending item with an attempt left is attempted, an attempt is concluded once, and
\* what is resolved is not touched again.
THEOREM QueueKeepsPromise == Spec => KeepsPromise
<1>1. IInv /\ [Next]_vars => IInv'
  BY NextIInv
<1>2. IInv /\ [Next]_vars => [RetryQueue!Next]_(RetryQueue!vars)
  BY NextPromised DEF PromisedStep
<1> QED
  BY <1>1, <1>2, InitIInv, InitPromised, PTL DEF Spec, KeepsPromise, RetryQueue!Spec
=============================================================================
