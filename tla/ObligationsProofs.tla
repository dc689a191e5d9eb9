-------------------------- MODULE ObligationsProofs --------------------------
(***************************************************************************)
(* Theorems about the register of obligations and its policies             *)
(* (PolicyLibrary, Obligations), for every set of users, policies,         *)
(* obligations, jobs and overlapping requests, and every set of endpoints  *)
(* in use.                                                                 *)
(***************************************************************************)
EXTENDS Obligations, TLAPS

-----------------------------------------------------------------------------
(* The policies and the generation jobs.                                   *)

\* What a request may write: an approval comes with its approver, in an UPDATE of both
\* columns; no row that is gone, and no origin in a generation job.
WriteOK(write) ==
  /\ write \in Write
  /\ "status" \in write.cols => write.new.status \in PolicyStatus
  /\ "origin" \in write.cols => write.new.origin \notin Jobs
  /\ "status" \in write.cols /\ write.new.status = "approved" =>
       ~write.insert /\ "meta" \in write.cols /\ write.new.meta.approvedBy # None

WritesOK(writes) ==
  /\ \E S \in SUBSET Policies : writes \in [S -> Write]
  /\ \A p \in DOMAIN writes : WriteOK(writes[p])

\* The metadata of an UPDATE in flight still name the creator of the row, and an approval is
\* not his, unless a client has replaced the creator or the row is gone.
Faithful(write, row, kept) ==
  ~write.insert =>
    /\ row.status # "absent"
    /\ "meta" \in write.cols /\ row.status # "deleted" /\ kept =>
         /\ write.new.meta.createdBy = row.meta.createdBy
         /\ "status" \in write.cols /\ write.new.status = "approved" =>
              write.new.meta.approvedBy # row.meta.createdBy

AllFaithful(writes, pol, rw) ==
  \A p \in DOMAIN writes : Faithful(writes[p], pol[p], p \notin rw)

PoliciesOK ==
  \A w \in Workers : work[w].step = "ready" =>
    WritesOK(work[w].writes) /\ AllFaithful(work[w].writes, policies, rewritten)

\* What a step does to a row: it is neither forgotten nor brought back, and its creator stays
\* unless a client replaced him.
RowsStand ==
  /\ rewritten \subseteq rewritten'
  /\ \A p \in Policies :
       /\ policies[p].status # "absent" => policies'[p].status # "absent"
       /\ policies[p].status = "deleted" => policies'[p].status = "deleted"
       /\ Exists(p) /\ Exists(p)' /\ p \notin rewritten' =>
            policies'[p].meta.createdBy = policies[p].meta.createdBy

\* An approval names as its approver somebody else than the creator the row named.
ApprovalsStand ==
  \A p \in Policies \ rewritten' :
    Exists(p) /\ Exists(p)' /\ policies[p].status # "approved" /\ policies'[p].status = "approved" =>
      policies'[p].meta.approvedBy \notin {None, policies[p].meta.createdBy}

\* A job that was approved without overlap and without a crash has one policy: while it still
\* counts as completed, the approval that inserted the policy is under way.
JobsOK ==
  /\ \A j \in Jobs : jobs[j].status = "completed" => jobs[j].at = "done"
  /\ \A w \in Workers :
       work[w].step \in {"insert_policy", "approve_job"} => jobs[work[w].job].at = "done"
  /\ \A v, w \in Workers :
       /\ v # w
       /\ work[v].step \in {"insert_policy", "approve_job"}
       /\ work[w].step \in {"insert_policy", "approve_job"}
       /\ work[v].job = work[w].job
       => work[v].job \in reworked
  /\ \A p \in Policies : policies[p].origin \in Jobs \ reworked =>
       /\ jobs[policies[p].origin].at = "done"
       /\ jobs[policies[p].origin].status = "completed" =>
            \E w \in Workers : work[w].step = "approve_job" /\ work[w].job = policies[p].origin
       /\ \A w \in Workers : work[w].step = "insert_policy" => work[w].job # policies[p].origin
  /\ GeneratedOnce

LibraryInv == LibraryTypeOK /\ PoliciesOK /\ JobsOK

LEMMA InitLibrary == LibraryInit => LibraryInv
<1> SUFFICES ASSUME LibraryInit PROVE LibraryInv
  OBVIOUS
<1> USE LibraryAssumption DEF LibraryInit
<1>1. LibraryTypeOK
  BY DEF LibraryTypeOK, Policy, Meta, Blank, NoMeta, JobStatus, JobSteps
<1>2. PoliciesOK
  BY DEF PoliciesOK, Idle
<1>3. JobsOK
  BY DEF JobsOK, GeneratedOnce, Blank, Idle
<1> QED
  BY <1>1, <1>2, <1>3 DEF LibraryInv

\* A policy as its type has it, and a request about policies.
LEMMA PolicyFacts ==
  ASSUME LibraryInv, NEW p \in Policies
  PROVE  /\ policies[p] \in Policy
         /\ policies[p].status \in PolicyStatus \cup {"absent", "deleted"}
         /\ policies[p].meta \in Meta
BY DEF LibraryInv, LibraryTypeOK, Policy

LEMMA MultistepFacts ==
  ASSUME LibraryInv, NEW w \in Workers
  PROVE  /\ work[w].step \in {"insert_policy", "approve_job", "suggest_rules"} =>
              work[w].job \in Jobs /\ work[w].by \in Users
         /\ work[w].step \in {"approve_job", "suggest_rules"} => work[w].policy \in Policies
         /\ work[w].step = "delete" => work[w].policy \in Policies
         /\ work[w].step = "approve_job" =>
              work[w] \in [step : {"approve_job", "suggest_rules"}, job : Jobs, by : Users,
                           policy : Policies]
BY DEF LibraryInv, LibraryTypeOK, Multistep, Idle

\* Applying what a request may write keeps the rows in order and makes no policy of a job.
LEMMA AppliedOK ==
  ASSUME LibraryInv, NEW writes, WritesOK(writes), Applies(writes)
  PROVE  /\ Applied(writes) \in [Policies -> Policy]
         /\ \A p \in Policies :
              /\ Applied(writes)[p].origin \in Jobs => Applied(writes)[p].origin = policies[p].origin
              /\ policies[p].status # "absent" => Applied(writes)[p].status # "absent"
              /\ policies[p].status = "deleted" => Applied(writes)[p].status = "deleted"
              /\ Exists(p) => Applied(writes)[p].status \notin {"absent", "deleted"}
<1> SUFFICES ASSUME NEW p \in Policies
             PROVE  /\ Applied(writes)[p] \in Policy
                    /\ Applied(writes)[p].origin \in Jobs =>
                         Applied(writes)[p].origin = policies[p].origin
                    /\ policies[p].status # "absent" => Applied(writes)[p].status # "absent"
                    /\ policies[p].status = "deleted" => Applied(writes)[p].status = "deleted"
                    /\ Exists(p) => Applied(writes)[p].status \notin {"absent", "deleted"}
  BY DEF Applied
<1>1. policies[p] \in Policy
  BY PolicyFacts
<1>2. CASE p \notin DOMAIN writes
  BY <1>1, <1>2 DEF Applied, Exists
<1>3. CASE p \in DOMAIN writes
  <2> DEFINE wr == writes[p]
             new == Written(policies[p], wr)
  <2>1. Applied(writes)[p] = new /\ WriteOK(wr) /\ wr \in Write
    BY <1>3 DEF Applied, WritesOK, WriteOK
  <2>2. IF wr.insert THEN policies[p].status = "absent" ELSE Exists(p)
    BY <1>3 DEF Applies
  <2> HIDE DEF wr
  <2>3. new \in Policy
    BY <1>1, <2>1 DEF Policy, Write, Written, Columns
  <2>4. /\ new.status = (IF "status" \in wr.cols THEN wr.new.status ELSE policies[p].status)
        /\ new.origin = (IF "origin" \in wr.cols THEN wr.new.origin ELSE policies[p].origin)
    BY DEF Written, Columns
  <2> HIDE DEF new
  <2>5. policies[p].status = "deleted" => ~wr.insert /\ ~Exists(p)
    BY <2>2 DEF Exists
  <2>6. /\ Exists(p) => new.status \notin {"absent", "deleted"}
        /\ policies[p].status # "absent" => new.status # "absent"
    BY <2>1, <2>4 DEF WriteOK, PolicyStatus, Exists
  <2> QED
    BY <2>1, <2>2, <2>3, <2>4, <2>5, <2>6 DEF WriteOK
<1> QED
  BY <1>2, <1>3

\* Applying a faithful write keeps the creator and approves for another.
LEMMA AppliedFaithful ==
  ASSUME LibraryInv, NEW writes, WritesOK(writes), Applies(writes), AllFaithful(writes, policies, rewritten),
         policies' = Applied(writes), UNCHANGED rewritten
  PROVE  RowsStand /\ ApprovalsStand
<1> SUFFICES ASSUME NEW p \in Policies
             PROVE  /\ policies[p].status # "absent" => policies'[p].status # "absent"
                    /\ policies[p].status = "deleted" => policies'[p].status = "deleted"
                    /\ Exists(p) /\ Exists(p)' /\ p \notin rewritten =>
                         /\ policies'[p].meta.createdBy = policies[p].meta.createdBy
                         /\ policies[p].status # "approved" /\ policies'[p].status = "approved" =>
                              policies'[p].meta.approvedBy \notin {None, policies[p].meta.createdBy}
  BY DEF RowsStand, ApprovalsStand
<1>1. /\ policies[p].status # "absent" => policies'[p].status # "absent"
      /\ policies[p].status = "deleted" => policies'[p].status = "deleted"
  BY AppliedOK
<1>2. ASSUME Exists(p), p \notin rewritten
      PROVE  /\ policies'[p].meta.createdBy = policies[p].meta.createdBy
             /\ policies[p].status # "approved" /\ policies'[p].status = "approved" =>
                  policies'[p].meta.approvedBy \notin {None, policies[p].meta.createdBy}
  <2>1. CASE p \notin DOMAIN writes
    BY <2>1 DEF Applied
  <2>2. CASE p \in DOMAIN writes
    <3>1. PICK wr : wr = writes[p]
      OBVIOUS
    <3>2. WriteOK(wr) /\ Faithful(wr, policies[p], p \notin rewritten) /\ ~wr.insert
      BY <1>2, <2>2, <3>1 DEF WritesOK, AllFaithful, Applies, Exists
    <3>3. policies'[p] = Written(policies[p], wr)
      BY <2>2, <3>1 DEF Applied
    <3>4. /\ policies'[p].status = IF "status" \in wr.cols THEN wr.new.status ELSE policies[p].status
          /\ policies'[p].meta = IF "meta" \in wr.cols THEN wr.new.meta ELSE policies[p].meta
      BY <3>3 DEF Written, Columns
    <3>5. "meta" \in wr.cols =>
            /\ wr.new.meta.createdBy = policies[p].meta.createdBy
            /\ "status" \in wr.cols /\ wr.new.status = "approved" =>
                 wr.new.meta.approvedBy # policies[p].meta.createdBy
      BY <1>2, <3>2 DEF Faithful, Exists
    <3>6. "status" \in wr.cols /\ wr.new.status = "approved" =>
            "meta" \in wr.cols /\ wr.new.meta.approvedBy # None
      BY <3>2 DEF WriteOK
    <3> QED
      BY <3>4, <3>5, <3>6
  <2> QED
    BY <2>1, <2>2
<1> QED
  BY <1>1, <1>2

\* What is in flight stays faithful while rows stand.
LEMMA FaithfulKept ==
  ASSUME RowsStand, NEW writes, DOMAIN writes \subseteq Policies, AllFaithful(writes, policies, rewritten)
  PROVE  AllFaithful(writes, policies', rewritten')
<1> SUFFICES ASSUME NEW p \in DOMAIN writes, ~writes[p].insert
             PROVE  /\ policies'[p].status # "absent"
                    /\ "meta" \in writes[p].cols /\ policies'[p].status # "deleted"
                       /\ p \notin rewritten' =>
                         /\ writes[p].new.meta.createdBy = policies'[p].meta.createdBy
                         /\ "status" \in writes[p].cols /\ writes[p].new.status = "approved" =>
                              writes[p].new.meta.approvedBy # policies'[p].meta.createdBy
  BY DEF AllFaithful, Faithful
<1>1. Faithful(writes[p], policies[p], p \notin rewritten) /\ p \in Policies
  BY DEF AllFaithful
<1>2. policies'[p].status # "absent"
  BY <1>1 DEF Faithful, RowsStand
<1>3. policies'[p].status # "deleted" /\ p \notin rewritten' =>
        Exists(p) /\ Exists(p)' /\ p \notin rewritten
  BY <1>1, <1>2 DEF Faithful, RowsStand, Exists
<1> QED
  BY <1>1, <1>2, <1>3 DEF Faithful, RowsStand, Exists

LEMMA UnchangedStands ==
  ASSUME UNCHANGED policies, rewritten \subseteq rewritten'
  PROVE  RowsStand /\ ApprovalsStand
BY DEF RowsStand, ApprovalsStand, Exists

\* The requests in flight, when rows stand.
LEMMA PoliciesKept ==
  ASSUME LibraryInv, RowsStand,
         \A v \in Workers : work'[v].step = "ready" => work'[v] = work[v]
  PROVE  PoliciesOK'
<1> SUFFICES ASSUME NEW v \in Workers, work'[v].step = "ready"
             PROVE  WritesOK(work'[v].writes) /\ AllFaithful(work'[v].writes, policies', rewritten')
  BY DEF PoliciesOK
<1>1. PICK old : old = work[v].writes
  OBVIOUS
<1>2. work'[v].writes = old /\ WritesOK(old) /\ AllFaithful(old, policies, rewritten)
  BY <1>1 DEF LibraryInv, PoliciesOK
<1>3. AllFaithful(old, policies', rewritten')
  BY <1>2, FaithfulKept DEF WritesOK
<1> QED
  BY <1>2, <1>3

\* The rows of policies change, but no row becomes one of a job.
LEMMA PolicyStep ==
  ASSUME LibraryInv, UNCHANGED <<doors, jobs>>,
         LibraryTypeOK', PoliciesOK',
         \A p \in Policies : policies'[p].origin \in Jobs => policies'[p].origin = policies[p].origin,
         reworked \subseteq reworked',
         \A w \in Workers : work'[w].step \in {"insert_policy", "approve_job"} => work'[w] = work[w],
         \A w \in Workers : work[w].step = "approve_job" => work'[w] = work[w] \/ work[w].job \in reworked'
  PROVE  LibraryInv'
<1>1. \A j \in Jobs : jobs'[j].status = "completed" => jobs'[j].at = "done"
  BY DEF LibraryInv, JobsOK
<1>2. \A w \in Workers :
        work'[w].step \in {"insert_policy", "approve_job"} => jobs'[work'[w].job].at = "done"
  BY DEF LibraryInv, JobsOK
<1>3. \A v, w \in Workers :
        /\ v # w
        /\ work'[v].step \in {"insert_policy", "approve_job"}
        /\ work'[w].step \in {"insert_policy", "approve_job"}
        /\ work'[v].job = work'[w].job
        => work'[v].job \in reworked'
  BY DEF LibraryInv, JobsOK
<1>4. ASSUME NEW p \in Policies, policies'[p].origin \in Jobs \ reworked'
      PROVE  /\ jobs'[policies'[p].origin].at = "done"
             /\ jobs'[policies'[p].origin].status = "completed" =>
                  \E w \in Workers : work'[w].step = "approve_job" /\ work'[w].job = policies'[p].origin
             /\ \A w \in Workers : work'[w].step = "insert_policy" => work'[w].job # policies'[p].origin
  <2>1. policies'[p].origin = policies[p].origin /\ policies[p].origin \in Jobs \ reworked
    BY <1>4
  <2>2. /\ jobs[policies[p].origin].at = "done"
        /\ jobs[policies[p].origin].status = "completed" =>
             \E w \in Workers : work[w].step = "approve_job" /\ work[w].job = policies[p].origin
        /\ \A w \in Workers : work[w].step = "insert_policy" => work[w].job # policies[p].origin
    BY <2>1 DEF LibraryInv, JobsOK
  <2> QED
    BY <1>4, <2>1, <2>2
<1>5. GeneratedOnce'
  BY DEF LibraryInv, JobsOK, GeneratedOnce
<1>6. JobsOK'
  BY <1>1, <1>2, <1>3, <1>4, <1>5 DEF JobsOK
<1> QED
  BY <1>6 DEF LibraryInv

\* A request that is about to start: an UPDATE is of a row that is there, and an approval that
\* leaves the creator alone is not his.
Honest(p, write) ==
  ~write.insert =>
    /\ Exists(p)
    /\ /\ {"status", "meta"} \subseteq write.cols
       /\ write.new.status = "approved"
       /\ write.new.meta.createdBy = policies[p].meta.createdBy
       => write.new.meta.approvedBy # policies[p].meta.createdBy

AllHonest(writes) == \A p \in DOMAIN writes : Honest(p, writes[p])

LEMMA StartStep ==
  ASSUME LibraryInv, NEW w \in Workers, NEW writes, WritesOK(writes), AllHonest(writes),
         StartPolicy(w, writes), UNCHANGED doors
  PROVE  LibraryInv'
<1>1. /\ work' = [work EXCEPT ![w] = [step |-> "ready", writes |-> writes]]
      /\ UNCHANGED <<policies, jobs, reworked>> /\ work[w] = Idle
      /\ rewritten' = rewritten \cup {p \in DOMAIN writes : Rewrites(p, writes[p])}
  BY DEF StartPolicy
<1>2. PICK request : request = [step |-> "ready", writes |-> writes]
  OBVIOUS
<1>3. \E S \in SUBSET Policies : request \in [step : {"ready"}, writes : [S -> Write]]
  BY <1>2 DEF WritesOK
<1>4. DOMAIN work' = Workers /\ work'[w] = request /\ \A v \in Workers \ {w} : work'[v] = work[v]
  BY <1>1, <1>2 DEF LibraryInv, LibraryTypeOK
<1>5. DOMAIN writes \subseteq Policies
  BY DEF WritesOK
<1>6. LibraryTypeOK'
  BY <1>1, <1>3, <1>4, <1>5 DEF LibraryInv, LibraryTypeOK
<1>7. RowsStand
  BY <1>1, UnchangedStands
<1>8. AllFaithful(writes, policies', rewritten')
  <2> SUFFICES ASSUME NEW p \in DOMAIN writes, ~writes[p].insert
               PROVE  /\ policies'[p].status # "absent"
                      /\ "meta" \in writes[p].cols /\ policies'[p].status # "deleted"
                         /\ p \notin rewritten' =>
                           /\ writes[p].new.meta.createdBy = policies'[p].meta.createdBy
                           /\ "status" \in writes[p].cols /\ writes[p].new.status = "approved" =>
                                writes[p].new.meta.approvedBy # policies'[p].meta.createdBy
    BY DEF AllFaithful, Faithful
  <2>1. Honest(p, writes[p]) /\ Exists(p)
    BY DEF AllHonest, Honest
  <2>2. p \notin rewritten' /\ "meta" \in writes[p].cols =>
          writes[p].new.meta.createdBy = policies[p].meta.createdBy
    BY <1>1 DEF Rewrites
  <2> QED
    BY <1>1, <2>1, <2>2 DEF Honest, Exists
<1>9. PoliciesOK'
  <2> SUFFICES ASSUME NEW v \in Workers, work'[v].step = "ready"
               PROVE  WritesOK(work'[v].writes) /\ AllFaithful(work'[v].writes, policies', rewritten')
    BY DEF PoliciesOK
  <2>1. CASE v = w
    BY <1>2, <1>4, <1>8, <2>1
  <2>2. CASE v # w
    <3>1. PICK old : old = work[v].writes
      OBVIOUS
    <3>2. work'[v].writes = old /\ WritesOK(old) /\ AllFaithful(old, policies, rewritten)
      BY <1>4, <2>2, <3>1 DEF LibraryInv, PoliciesOK
    <3>3. AllFaithful(old, policies', rewritten')
      BY <1>7, <3>2, FaithfulKept DEF WritesOK
    <3> QED
      BY <3>2, <3>3
  <2> QED
    BY <2>1, <2>2
<1> QED
  BY <1>1, <1>2, <1>4, <1>6, <1>9, PolicyStep DEF Idle

\* One row at a time.
LEMMA OnRowOK ==
  ASSUME NEW p \in Policies, NEW write, WriteOK(write), Honest(p, write)
  PROVE  WritesOK(OnRow(p, write)) /\ AllHonest(OnRow(p, write))
<1>1. OnRow(p, write) \in [{p} -> Write] /\ {p} \in SUBSET Policies
  BY DEF OnRow, WriteOK
<1> QED
  BY <1>1 DEF OnRow, WritesOK, AllHonest

LEMMA WriteOfOK ==
  ASSUME NEW insert \in BOOLEAN, NEW cols \in SUBSET Columns, NEW new \in Policy,
         "status" \in cols => new.status \in PolicyStatus,
         "origin" \in cols => new.origin \notin Jobs,
         "status" \in cols /\ new.status = "approved" =>
           ~insert /\ "meta" \in cols /\ new.meta.approvedBy # None
  PROVE  /\ WriteOK(WriteOf(insert, cols, new))
         /\ WriteOf(insert, cols, new).cols = cols
         /\ "status" \in cols => WriteOf(insert, cols, new).new.status = new.status
         /\ "meta" \in cols => WriteOf(insert, cols, new).new.meta = new.meta
<1>1. PICK row : row = [c \in Columns |-> IF c \in cols THEN new[c] ELSE Blank[c]]
  OBVIOUS
<1>2. row \in Policy
  BY <1>1, LibraryAssumption DEF Policy, Meta, Columns, Blank, NoMeta
<1>3. /\ "meta" \in cols => row.meta = new.meta
      /\ "status" \in cols => row.status = new.status
      /\ "origin" \in cols => row.origin = new.origin
  BY <1>1 DEF Columns
<1>4. PICK write : write = [insert |-> insert, cols |-> cols, new |-> row]
  OBVIOUS
<1>5. write \in Write /\ write.insert = insert /\ write.cols = cols /\ write.new = row
  BY <1>2, <1>4 DEF Write
<1>6. WriteOK(write)
  BY <1>3, <1>5 DEF WriteOK
<1>7. WriteOf(insert, cols, new) = write
  BY <1>1, <1>4 DEF WriteOf
<1> QED
  BY <1>3, <1>5, <1>6, <1>7

\* An INSERT, and an UPDATE of a row that is there which approves nothing.
LEMMA InsertOK ==
  ASSUME NEW p \in Policies, NEW row \in Policy, row.status \in PolicyStatus \ {"approved"},
         row.origin \notin Jobs
  PROVE  WriteOK(Insert(row)) /\ Insert(row).insert /\ Honest(p, Insert(row))
<1>1. WriteOK(Insert(row))
  BY WriteOfOK DEF Insert
<1>2. Insert(row).insert
  BY DEF Insert, WriteOf
<1> QED
  BY <1>1, <1>2 DEF Honest

LEMMA UpdateOK ==
  ASSUME NEW p \in Policies, Exists(p), NEW cols \in SUBSET Columns, NEW new \in Policy,
         "origin" \notin cols,
         "status" \in cols => new.status \in PolicyStatus \ {"approved"}
  PROVE  WriteOK(WriteOf(FALSE, cols, new)) /\ Honest(p, WriteOf(FALSE, cols, new))
<1>1. /\ WriteOK(WriteOf(FALSE, cols, new))
      /\ WriteOf(FALSE, cols, new).cols = cols
      /\ "status" \in cols => WriteOf(FALSE, cols, new).new.status = new.status
  BY WriteOfOK
<1> QED
  BY <1>1 DEF Honest

\* The writes that come with a request for the master policy: its metadata only with its row.
MastersOK(writes) ==
  WritesOK(writes) /\ \A p \in DOMAIN writes : writes[p].insert \/ "meta" \notin writes[p].cols

LEMMA MastersFaithful ==
  ASSUME NEW writes, MastersOK(writes), Applies(writes)
  PROVE  AllFaithful(writes, policies, rewritten)
BY DEF MastersOK, AllFaithful, Faithful, Applies, Exists

LEMMA NoMasters == MastersOK(<<>>) /\ AllHonest(<<>>)
<1>1. <<>> \in [{} -> Write] /\ DOMAIN <<>> = {} /\ {} \in SUBSET Policies
  OBVIOUS
<1> QED
  BY <1>1 DEF MastersOK, WritesOK, AllHonest

LEMMA EnsureMasterOK ==
  ASSUME LibraryInv
  PROVE  /\ MastersOK(EnsureMaster) /\ AllHonest(EnsureMaster)
         /\ \E M \in SUBSET {Master} : EnsureMaster \in [M -> Write]
<1>1. Master \in Policies
  BY LibraryAssumption
<1>2. MasterRow \in Policy /\ MasterRow.status \in PolicyStatus \ {"approved"}
      /\ MasterRow.origin \notin Jobs
  BY LibraryAssumption DEF MasterRow, Policy, Meta, NoMeta, PolicyStatus
<1>3. CASE ~Exists(Master)
  <2>1. /\ WriteOK(Insert(MasterRow)) /\ Insert(MasterRow).insert
        /\ Honest(Master, Insert(MasterRow))
    BY <1>1, <1>2, InsertOK
  <2>2. PICK row : row = Insert(MasterRow)
    OBVIOUS
  <2>3. WritesOK(OnRow(Master, row)) /\ AllHonest(OnRow(Master, row))
    BY <1>1, <2>1, <2>2, OnRowOK
  <2>4. OnRow(Master, row) \in [{Master} -> Write] /\ {Master} \in SUBSET {Master}
        /\ \A p \in DOMAIN OnRow(Master, row) : OnRow(Master, row)[p].insert
    BY <2>1, <2>2 DEF OnRow, WriteOK
  <2>5. EnsureMaster = OnRow(Master, row)
    BY <1>3, <2>2 DEF EnsureMaster
  <2> QED
    BY <2>3, <2>4, <2>5 DEF MastersOK
<1>4. CASE Exists(Master) /\ policies[Master].status # "active"
  <2>1. PICK wr : wr = WriteOf(FALSE, {"status"}, MasterRow)
    OBVIOUS
  <2>2. WriteOK(wr) /\ Honest(Master, wr)
    BY <1>1, <1>2, <1>4, <2>1, UpdateOK DEF Columns
  <2>3. wr.cols = {"status"}
    BY <2>1 DEF WriteOf
  <2>4. WritesOK(OnRow(Master, wr)) /\ AllHonest(OnRow(Master, wr))
    BY <1>1, <2>2, OnRowOK
  <2>5. OnRow(Master, wr) \in [{Master} -> Write] /\ {Master} \in SUBSET {Master}
        /\ \A p \in DOMAIN OnRow(Master, wr) : "meta" \notin OnRow(Master, wr)[p].cols
    BY <2>2, <2>3 DEF OnRow, WriteOK
  <2>6. EnsureMaster = OnRow(Master, wr)
    BY <1>4, <2>1 DEF EnsureMaster
  <2> QED
    BY <2>4, <2>5, <2>6 DEF MastersOK
<1>5. CASE Exists(Master) /\ policies[Master].status = "active"
  <2>1. <<>> \in [{} -> Write] /\ {} \in SUBSET {Master}
    OBVIOUS
  <2>2. EnsureMaster = <<>>
    BY <1>5 DEF EnsureMaster
  <2> QED
    BY <2>1, <2>2, NoMasters
<1> QED
  BY <1>3, <1>4, <1>5

LEMMA BothOK ==
  ASSUME NEW f, NEW g, WritesOK(f), WritesOK(g), AllHonest(f), AllHonest(g)
  PROVE  WritesOK(Both(f, g)) /\ AllHonest(Both(f, g))
<1>1. DOMAIN f \subseteq Policies /\ DOMAIN g \subseteq Policies
  BY DEF WritesOK
<1>2. \A p \in DOMAIN Both(f, g) : WriteOK(Both(f, g)[p]) /\ Honest(p, Both(f, g)[p])
  BY DEF Both, WritesOK, AllHonest
<1>3. Both(f, g) \in [DOMAIN f \cup DOMAIN g -> Write]
  BY DEF Both, WritesOK
<1>4. DOMAIN f \cup DOMAIN g \in SUBSET Policies
  BY <1>1
<1> QED
  BY <1>2, <1>3, <1>4 DEF WritesOK, AllHonest

LEMMA SentTyped ==
  ASSUME NEW meta \in Meta, NEW sent \in Sent(meta)
  PROVE  sent \in Meta
BY DEF Sent

\* The handlers that insert policies.
LEMMA NewRow ==
  ASSUME NEW p \in Policies, NEW u \in Users, NEW s \in PolicyStatus \ {"approved"},
         NEW meta \in Meta, NEW origin \in {"own", "copy"}, NEW writes,
         writes = OnRow(p, Insert([status |-> s, owner |-> u, origin |-> origin,
                                   meta |-> [meta EXCEPT !.createdBy = u]]))
  PROVE  WritesOK(writes) /\ AllHonest(writes)
<1>1. PICK row : row = [status |-> s, owner |-> u, origin |-> origin,
                        meta |-> [meta EXCEPT !.createdBy = u]]
  OBVIOUS
<1>2. row \in Policy /\ row.status \in PolicyStatus \ {"approved"} /\ row.origin \notin Jobs
  BY <1>1, LibraryAssumption DEF Policy, Meta
<1>3. WriteOK(Insert(row)) /\ Honest(p, Insert(row))
  BY <1>2, InsertOK
<1> QED
  BY <1>1, <1>3, OnRowOK

LEMMA UpdateCopyStep ==
  ASSUME LibraryInv, NEW w \in Workers, UNCHANGED doors, NEW p \in Policies, NEW u \in Users,
         Exists(p), UpdateCopy(w, p, u)
  PROVE  LibraryInv'
<1>1. PICK s \in (PolicyStatus \ {"approved"}) \cup {policies[p].status},
           meta \in Sent(policies[p].meta), others \in SUBSET {"meta"} :
        LET new == [policies[p] EXCEPT !.status = s, !.meta = WithCreator(meta, u)]
            changed == {c \in Columns : new[c] # policies[p][c]} IN
        StartPolicy(w, Both(EnsureMaster, OnRow(p, WriteOf(FALSE, changed \cup others, new))))
  BY DEF UpdateCopy
<1>2. PICK new : new = [policies[p] EXCEPT !.status = s, !.meta = WithCreator(meta, u)]
  OBVIOUS
<1>3. PICK cols : cols = {c \in Columns : new[c] # policies[p][c]} \cup others
  OBVIOUS
<1>4. StartPolicy(w, Both(EnsureMaster, OnRow(p, WriteOf(FALSE, cols, new))))
  BY <1>1, <1>2, <1>3
<1>5. /\ policies[p] \in Policy /\ policies[p].status \in PolicyStatus
      /\ meta \in Meta
  BY PolicyFacts, SentTyped DEF Exists
<1>6. /\ new \in Policy /\ new.status = s /\ new.origin = policies[p].origin
  BY <1>2, <1>5 DEF Policy, Meta, WithCreator
<1>7. /\ cols \in SUBSET Columns /\ "origin" \notin cols
      /\ "status" \in cols => new.status \in PolicyStatus \ {"approved"}
  BY <1>3, <1>6 DEF Columns
<1>8. WriteOK(WriteOf(FALSE, cols, new)) /\ Honest(p, WriteOf(FALSE, cols, new))
  BY <1>6, <1>7, UpdateOK
<1>9. WritesOK(OnRow(p, WriteOf(FALSE, cols, new))) /\ AllHonest(OnRow(p, WriteOf(FALSE, cols, new)))
  BY <1>8, OnRowOK
<1>10. WritesOK(EnsureMaster) /\ AllHonest(EnsureMaster)
  BY EnsureMasterOK DEF MastersOK
<1> QED
  BY <1>4, <1>9, <1>10, BothOK, StartStep

LEMMA CreateSteps ==
  ASSUME LibraryInv, NEW w \in Workers, UNCHANGED doors,
         EnsureMasterPolicies(w) \/ CreatePolicy(w) \/ CreateFromTemplate(w)
  PROVE  LibraryInv'
<1>1. CASE EnsureMasterPolicies(w)
  BY <1>1, EnsureMasterOK, StartStep DEF EnsureMasterPolicies, MastersOK
<1>2. CASE CreatePolicy(w)
  <2>1. PICK p \in Handmade, u \in Users, s \in PolicyStatus \ {"approved"},
             meta \in Sent(NoMeta) :
          StartPolicy(w, OnRow(p, Insert([status |-> s, owner |-> u, origin |-> "own",
                                          meta |-> [meta EXCEPT !.createdBy = u]])))
    BY <1>2 DEF CreatePolicy
  <2>2. p \in Policies /\ NoMeta \in Meta
    BY LibraryAssumption DEF NoMeta, Meta
  <2>3. meta \in Meta
    BY <2>2, SentTyped
  <2>4. PICK writes : writes = OnRow(p, Insert([status |-> s, owner |-> u, origin |-> "own",
                                                meta |-> [meta EXCEPT !.createdBy = u]]))
    OBVIOUS
  <2>5. WritesOK(writes) /\ AllHonest(writes)
    BY <2>2, <2>3, <2>4, NewRow
  <2> QED
    BY <2>1, <2>4, <2>5, StartStep
<1>3. ASSUME NEW p \in Handmade, NEW u \in Users, CopyMaster(w, p, u)
      PROVE  LibraryInv'
  <2>1. PICK s \in PolicyStatus \ {"approved"}, meta \in Sent(policies[Master].meta) :
          StartPolicy(w, Both(EnsureMaster, OnRow(p, Insert(
            [status |-> s, owner |-> u, origin |-> "copy",
             meta |-> [meta EXCEPT !.createdBy = u]]))))
    BY <1>3 DEF CopyMaster
  <2>2. p \in Policies /\ meta \in Meta
    BY LibraryAssumption, PolicyFacts, SentTyped
  <2>3. PICK writes : writes = OnRow(p, Insert([status |-> s, owner |-> u, origin |-> "copy",
                                                meta |-> [meta EXCEPT !.createdBy = u]]))
    OBVIOUS
  <2>4. WritesOK(writes) /\ AllHonest(writes)
    BY <2>2, <2>3, NewRow
  <2>5. WritesOK(EnsureMaster) /\ AllHonest(EnsureMaster)
    BY EnsureMasterOK DEF MastersOK
  <2> QED
    BY <2>1, <2>3, <2>4, <2>5, BothOK, StartStep
<1>4. CASE CreateFromTemplate(w)
  BY <1>3, <1>4, UpdateCopyStep DEF CreateFromTemplate
<1> QED
  BY <1>1, <1>2, <1>4

\* The approver is not the creator the metadata name; if they name none, it is not the owner.
LEMMA ApprovalOK ==
  ASSUME LibraryInv, NEW p \in Policies, NEW u \in Users, Exists(p), PolicyFourEyesCheck(p, u),
         NEW meta \in Meta
  PROVE  WritesOK(OnRow(p, Approval(p, u, meta))) /\ AllHonest(OnRow(p, Approval(p, u, meta)))
<1>1. PICK new : new = [policies[p] EXCEPT !.status = "approved",
                                           !.meta = [meta EXCEPT !.approvedBy = u]]
  OBVIOUS
<1>2. /\ new \in Policy
      /\ new.status = "approved"
      /\ new.meta.approvedBy = u /\ new.meta.createdBy = meta.createdBy
  BY <1>1, PolicyFacts DEF Policy, PolicyStatus, Meta
<1>3. u # policies[p].meta.createdBy /\ u # None
  BY LibraryAssumption DEF PolicyFourEyesCheck, Creator
<1>4. PICK write : write = WriteOf(FALSE, {"status", "meta"}, new)
  OBVIOUS
<1>5. WriteOK(write) /\ write.new.meta = new.meta
  BY <1>2, <1>3, <1>4, WriteOfOK DEF Columns, PolicyStatus
<1>6. Honest(p, write)
  BY <1>2, <1>3, <1>5 DEF Honest
<1> QED
  BY <1>1, <1>4, <1>5, <1>6, OnRowOK DEF Approval

LEMMA PatchStep ==
  ASSUME LibraryInv, NEW w \in Workers, UNCHANGED doors, NEW p \in Policies, NEW u \in Users,
         Exists(p), NEW metas \in SUBSET Meta, Patch(w, p, u, metas)
  PROVE  LibraryInv'
<1>1. ASSUME PolicyFourEyesCheck(p, u), NEW meta \in metas \cup {policies[p].meta},
             StartPolicy(w, OnRow(p, Approval(p, u, meta)))
      PROVE  LibraryInv'
  <2>1. meta \in Meta
    BY PolicyFacts
  <2> QED
    BY <1>1, <2>1, ApprovalOK, StartStep
<1>2. ASSUME NEW s \in PolicyStatus \ {"approved"},
             StartPolicy(w, OnRow(p, WriteOf(FALSE, {"status"}, [policies[p] EXCEPT !.status = s])))
      PROVE  LibraryInv'
  <2>1. PICK new : new = [policies[p] EXCEPT !.status = s]
    OBVIOUS
  <2>2. new \in Policy /\ new.status = s
    BY <2>1, PolicyFacts DEF Policy
  <2>3. WriteOK(WriteOf(FALSE, {"status"}, new)) /\ Honest(p, WriteOf(FALSE, {"status"}, new))
    BY <2>2, UpdateOK DEF Columns
  <2> QED
    BY <1>2, <2>1, <2>3, OnRowOK, StartStep
<1>3. ASSUME NEW o \in Users,
             StartPolicy(w, OnRow(p, WriteOf(FALSE, {"owner"}, [policies[p] EXCEPT !.owner = o])))
      PROVE  LibraryInv'
  <2>1. PICK new : new = [policies[p] EXCEPT !.owner = o]
    OBVIOUS
  <2>2. new \in Policy
    BY <2>1, PolicyFacts DEF Policy
  <2>3. WriteOK(WriteOf(FALSE, {"owner"}, new)) /\ Honest(p, WriteOf(FALSE, {"owner"}, new))
    BY <2>2, UpdateOK DEF Columns
  <2> QED
    BY <1>3, <2>1, <2>3, OnRowOK, StartStep
<1>4. ASSUME NEW meta \in metas,
             StartPolicy(w, OnRow(p, WriteOf(FALSE, {"meta"}, [policies[p] EXCEPT !.meta = meta])))
      PROVE  LibraryInv'
  <2>1. PICK new : new = [policies[p] EXCEPT !.meta = meta]
    OBVIOUS
  <2>2. new \in Policy
    BY <2>1, PolicyFacts DEF Policy
  <2>3. WriteOK(WriteOf(FALSE, {"meta"}, new)) /\ Honest(p, WriteOf(FALSE, {"meta"}, new))
    BY <2>2, UpdateOK DEF Columns
  <2> QED
    BY <1>4, <2>1, <2>3, OnRowOK, StartStep
<1> QED
  BY <1>1, <1>2, <1>3, <1>4 DEF Patch

LEMMA ReviewSteps ==
  ASSUME LibraryInv, NEW w \in Workers, UNCHANGED doors,
         ApprovePolicy(w) \/ UpdatePolicy(w) \/ WorkflowUpdatePolicy(w)
  PROVE  LibraryInv'
<1>1. CASE ApprovePolicy(w)
  <2>1. PICK p \in Policies, u \in Users :
          /\ policies[p].status = "draft" /\ PolicyFourEyesCheck(p, u)
          /\ StartPolicy(w, OnRow(p, Approval(p, u, policies[p].meta)))
    BY <1>1 DEF ApprovePolicy
  <2>2. Exists(p) /\ policies[p].meta \in Meta
    BY <2>1, PolicyFacts DEF Exists
  <2> QED
    BY <2>1, <2>2, ApprovalOK, StartStep
<1>2. CASE UpdatePolicy(w)
  <2>1. PICK p \in Policies, u \in Users : Exists(p) /\ Patch(w, p, u, Sent(policies[p].meta))
    BY <1>2 DEF UpdatePolicy
  <2>2. Sent(policies[p].meta) \in SUBSET Meta
    BY PolicyFacts, SentTyped
  <2> QED
    BY <2>1, <2>2, PatchStep
<1>3. CASE WorkflowUpdatePolicy(w)
  BY <1>3, PatchStep DEF WorkflowUpdatePolicy
<1> QED
  BY <1>1, <1>2, <1>3

\* A commit of policies: the request's own, or the master policy of a request about obligations.
LEMMA AppliedStep ==
  ASSUME LibraryInv, NEW writes, WritesOK(writes), Applies(writes), AllFaithful(writes, policies, rewritten),
         policies' = Applied(writes), UNCHANGED <<doors, jobs, reworked, rewritten>>,
         \/ UNCHANGED work
         \/ \E w \in Workers : work[w].step = "ready" /\ work' = [work EXCEPT ![w] = Idle]
  PROVE  LibraryInv'
<1>1. DOMAIN work' = Workers /\ \A v \in Workers : work'[v] = work[v] \/ work'[v] = Idle
  BY DEF LibraryInv, LibraryTypeOK
<1>2. LibraryTypeOK'
  BY <1>1, AppliedOK DEF LibraryInv, LibraryTypeOK
<1>3. RowsStand
  BY AppliedFaithful
<1>4. PoliciesOK'
  BY <1>1, <1>3, PoliciesKept DEF Idle
<1>5. \A v \in Workers :
        /\ work'[v].step \in {"insert_policy", "approve_job"} => work'[v] = work[v]
        /\ work[v].step = "approve_job" => work'[v] = work[v]
  BY <1>1 DEF Idle, LibraryInv, LibraryTypeOK
<1> QED
  BY <1>2, <1>4, <1>5, AppliedOK, PolicyStep

LEMMA CommitPolicyStep ==
  ASSUME LibraryInv, NEW w \in Workers, UNCHANGED doors, CommitPolicy(w)
  PROVE  LibraryInv'
<1>1. WritesOK(work[w].writes) /\ AllFaithful(work[w].writes, policies, rewritten)
  BY DEF CommitPolicy, LibraryInv, PoliciesOK
<1> QED
  BY <1>1, AppliedStep DEF CommitPolicy

-----------------------------------------------------------------------------
(* The generation jobs.                                                    *)

\* A job that can still take this step has no policy and no approval under way.
LEMMA JobStepOK ==
  ASSUME LibraryInv, NEW j \in Jobs, NEW from \in SUBSET {"idle", "created", "generating"},
         NEW to \in JobSteps, NEW status \in JobStatus, JobStep(j, from, to, status),
         status = "completed" => to = "done", UNCHANGED doors
  PROVE  LibraryInv'
<1>1. /\ jobs' = [jobs EXCEPT ![j] = [status |-> status, at |-> to]]
      /\ UNCHANGED <<policies, work, reworked, rewritten>> /\ jobs[j].at # "done"
  BY DEF JobStep
<1>2. LibraryTypeOK'
  BY <1>1 DEF LibraryInv, LibraryTypeOK
<1>3. PoliciesOK'
  BY <1>1, PoliciesKept, UnchangedStands
<1>4. /\ \A i \in Jobs : jobs'[i] = IF i = j THEN [status |-> status, at |-> to] ELSE jobs[i]
  BY <1>1 DEF LibraryInv, LibraryTypeOK
<1>5. \A w \in Workers : work[w].step \in {"insert_policy", "approve_job"} => work[w].job # j
  BY <1>1 DEF LibraryInv, JobsOK
<1>6. \A p \in Policies : policies[p].origin \in Jobs \ reworked => policies[p].origin # j
  BY <1>1 DEF LibraryInv, JobsOK
<1>7. \A i \in Jobs : jobs'[i].status = "completed" => jobs'[i].at = "done"
  BY <1>4 DEF LibraryInv, JobsOK
<1>8. \A w \in Workers :
        work'[w].step \in {"insert_policy", "approve_job"} => jobs'[work'[w].job].at = "done"
  BY <1>1, <1>4, <1>5, MultistepFacts DEF LibraryInv, JobsOK
<1>9. \A v, w \in Workers :
        /\ v # w
        /\ work'[v].step \in {"insert_policy", "approve_job"}
        /\ work'[w].step \in {"insert_policy", "approve_job"}
        /\ work'[v].job = work'[w].job
        => work'[v].job \in reworked'
  BY <1>1 DEF LibraryInv, JobsOK
<1>10. ASSUME NEW p \in Policies, policies'[p].origin \in Jobs \ reworked'
       PROVE  /\ jobs'[policies'[p].origin].at = "done"
              /\ jobs'[policies'[p].origin].status = "completed" =>
                   \E w \in Workers : work'[w].step = "approve_job" /\ work'[w].job = policies'[p].origin
              /\ \A w \in Workers : work'[w].step = "insert_policy" => work'[w].job # policies'[p].origin
  <2>1. /\ policies'[p].origin = policies[p].origin
        /\ jobs'[policies[p].origin] = jobs[policies[p].origin]
    BY <1>1, <1>4, <1>6, <1>10
  <2> QED
    BY <1>1, <1>10, <2>1 DEF LibraryInv, JobsOK
<1>11. GeneratedOnce'
  BY <1>1 DEF LibraryInv, JobsOK, GeneratedOnce
<1>12. JobsOK'
  BY <1>7, <1>8, <1>9, <1>10, <1>11 DEF JobsOK
<1> QED
  BY <1>2, <1>3, <1>12 DEF LibraryInv

LEMMA GenerationSteps ==
  ASSUME LibraryInv, NEW j \in Jobs, UNCHANGED doors,
         CreateJob(j) \/ StartGenerating(j) \/ CompleteJob(j) \/ FailJob(j)
  PROVE  LibraryInv'
<1> USE DEF JobSteps, JobStatus
<1>1. CASE CreateJob(j)
  BY <1>1, JobStepOK DEF CreateJob
<1>2. CASE StartGenerating(j)
  BY <1>2, JobStepOK DEF StartGenerating
<1>3. CASE CompleteJob(j)
  BY <1>3, JobStepOK DEF CompleteJob
<1>4. CASE FailJob(j)
  BY <1>4, JobStepOK DEF FailJob
<1> QED
  BY <1>1, <1>2, <1>3, <1>4

\* A job's row is decided, and its approvals go on.
LEMMA DecidedStep ==
  ASSUME LibraryInv, UNCHANGED <<doors, policies, reworked, rewritten>>, NEW j \in Jobs,
         NEW status \in {"approved", "rejected"},
         jobs' = [jobs EXCEPT ![j].status = status],
         LibraryTypeOK',
         \A v \in Workers :
           \/ work'[v] = work[v]
           \/ work'[v].step = "suggest_rules" /\ work[v].step = "approve_job" /\ work[v].job = j
  PROVE  LibraryInv'
<1>1. PoliciesOK'
  BY PoliciesKept, UnchangedStands
<1>2. /\ jobs'[j].status = status /\ jobs'[j].at = jobs[j].at
      /\ \A i \in Jobs \ {j} : jobs'[i] = jobs[i]
  BY DEF LibraryInv, LibraryTypeOK
<1>3. \A i \in Jobs : jobs'[i].status = "completed" => jobs'[i].at = "done"
  BY <1>2 DEF LibraryInv, JobsOK
<1>4. \A v \in Workers : work'[v].step \in {"insert_policy", "approve_job"} => work'[v] = work[v]
  OBVIOUS
<1>5. \A w \in Workers :
        work'[w].step \in {"insert_policy", "approve_job"} => jobs'[work'[w].job].at = "done"
  BY <1>2, <1>4, MultistepFacts DEF LibraryInv, JobsOK
<1>6. \A v, w \in Workers :
        /\ v # w
        /\ work'[v].step \in {"insert_policy", "approve_job"}
        /\ work'[w].step \in {"insert_policy", "approve_job"}
        /\ work'[v].job = work'[w].job
        => work'[v].job \in reworked'
  BY <1>4 DEF LibraryInv, JobsOK
<1>7. ASSUME NEW p \in Policies, policies'[p].origin \in Jobs \ reworked'
      PROVE  /\ jobs'[policies'[p].origin].at = "done"
             /\ jobs'[policies'[p].origin].status = "completed" =>
                  \E w \in Workers : work'[w].step = "approve_job" /\ work'[w].job = policies'[p].origin
             /\ \A w \in Workers : work'[w].step = "insert_policy" => work'[w].job # policies'[p].origin
  <2> DEFINE i == policies[p].origin
  <2>1. i \in Jobs \ reworked /\ policies'[p].origin = i
    BY <1>7
  <2>2. /\ jobs[i].at = "done"
        /\ jobs[i].status = "completed" =>
             \E w \in Workers : work[w].step = "approve_job" /\ work[w].job = i
        /\ \A w \in Workers : work[w].step = "insert_policy" => work[w].job # i
    BY <2>1 DEF LibraryInv, JobsOK
  <2> HIDE DEF i
  <2>3. jobs'[i].at = "done" /\ (jobs'[i].status = "completed" => i # j /\ jobs[i].status = "completed")
    BY <1>2, <2>1, <2>2
  <2>4. \A w \in Workers : work'[w].step = "insert_policy" => work'[w].job # i
    BY <1>4, <2>2
  <2>5. ASSUME NEW w \in Workers, work[w].step = "approve_job", work[w].job = i, i # j
        PROVE  work'[w].step = "approve_job" /\ work'[w].job = i
    BY <2>5
  <2> QED
    BY <2>1, <2>2, <2>3, <2>4, <2>5
<1>8. GeneratedOnce'
  BY DEF LibraryInv, JobsOK, GeneratedOnce
<1>9. JobsOK'
  BY <1>3, <1>5, <1>6, <1>7, <1>8 DEF JobsOK
<1> QED
  BY <1>1, <1>9 DEF LibraryInv

LEMMA RejectJobStep ==
  ASSUME LibraryInv, NEW j \in Jobs, UNCHANGED doors, RejectJob(j)
  PROVE  LibraryInv'
<1>1. LibraryTypeOK'
  BY DEF RejectJob, LibraryInv, LibraryTypeOK, JobStatus
<1> QED
  BY <1>1, DecidedStep DEF RejectJob

LEMMA CommitApprovedJobStep ==
  ASSUME LibraryInv, NEW w \in Workers, UNCHANGED doors, CommitApprovedJob(w)
  PROVE  LibraryInv'
<1>1. /\ work[w].step = "approve_job" /\ work' = [work EXCEPT ![w].step = "suggest_rules"]
      /\ jobs' = [jobs EXCEPT ![work[w].job].status = "approved"] /\ UNCHANGED <<policies, reworked, rewritten>>
  BY DEF CommitApprovedJob
<1>2. /\ work[w] \in [step : {"approve_job", "suggest_rules"}, job : Jobs, by : Users,
                      policy : Policies]
      /\ work[w].job \in Jobs
  BY <1>1, MultistepFacts
<1>3. DOMAIN work' = Workers /\ \A v \in Workers \ {w} : work'[v] = work[v]
  BY <1>1 DEF LibraryInv, LibraryTypeOK
<1>4. work'[w] \in Multistep /\ work'[w].step = "suggest_rules"
  BY <1>1, <1>2 DEF LibraryInv, LibraryTypeOK, Multistep
<1>5. jobs' \in [Jobs -> [status : JobStatus, at : JobSteps]]
  BY <1>1, <1>2 DEF LibraryInv, LibraryTypeOK, JobStatus
<1>6. LibraryTypeOK'
  BY <1>1, <1>3, <1>4, <1>5 DEF LibraryInv, LibraryTypeOK
<1> QED
  BY <1>1, <1>2, <1>3, <1>4, <1>6, DecidedStep

LEMMA SuggestRulesStep ==
  ASSUME LibraryInv, NEW w \in Workers, UNCHANGED doors, SuggestRules(w)
  PROVE  LibraryInv'
<1>1. /\ work[w].step = "suggest_rules" /\ work' = [work EXCEPT ![w] = Idle]
      /\ UNCHANGED <<policies, jobs, reworked, rewritten>>
  BY DEF SuggestRules
<1>2. DOMAIN work' = Workers /\ work'[w] = Idle /\ \A v \in Workers \ {w} : work'[v] = work[v]
  BY <1>1 DEF LibraryInv, LibraryTypeOK
<1>3. LibraryTypeOK'
  BY <1>1, <1>2 DEF LibraryInv, LibraryTypeOK
<1>4. PoliciesOK'
  BY <1>1, <1>2, PoliciesKept, UnchangedStands DEF Idle
<1> QED
  BY <1>1, <1>2, <1>3, <1>4, PolicyStep DEF Idle

LEMMA AbortPolicyStep ==
  ASSUME LibraryInv, NEW w \in Workers, UNCHANGED doors, AbortPolicy(w)
  PROVE  LibraryInv'
<1>1. /\ work' = [work EXCEPT ![w] = Idle] /\ UNCHANGED <<policies, jobs, rewritten>>
      /\ reworked' = IF work[w].step = "approve_job" THEN reworked \cup {work[w].job} ELSE reworked
  BY DEF AbortPolicy
<1>2. DOMAIN work' = Workers /\ work'[w] = Idle /\ \A v \in Workers \ {w} : work'[v] = work[v]
  BY <1>1 DEF LibraryInv, LibraryTypeOK
<1>3. reworked' \subseteq Jobs
  BY <1>1, MultistepFacts DEF LibraryInv, LibraryTypeOK
<1>4. LibraryTypeOK'
  BY <1>1, <1>2, <1>3 DEF LibraryInv, LibraryTypeOK
<1>5. PoliciesOK'
  BY <1>1, <1>2, PoliciesKept, UnchangedStands DEF Idle
<1> QED
  BY <1>1, <1>2, <1>4, <1>5, PolicyStep DEF Idle

\* A second approval while the first is under way is noted; after it, the job is not completed
\* any more and there is none.
LEMMA ApproveJobStep ==
  ASSUME LibraryInv, NEW w \in Workers, NEW j \in Jobs, UNCHANGED doors, ApproveJob(w, j)
  PROVE  LibraryInv'
<1>1. PICK u \in Users :
        work' = [work EXCEPT ![w] = [step |-> "insert_policy", job |-> j, by |-> u]]
  BY DEF ApproveJob
<1>2. /\ work[w] = Idle /\ jobs[j].status = "completed" /\ UNCHANGED <<policies, jobs, rewritten>>
      /\ reworked' = IF Approving(j) = {} THEN reworked ELSE reworked \cup {j}
  BY DEF ApproveJob, Approvable
<1>3. /\ DOMAIN work' = Workers
      /\ work'[w] = [step |-> "insert_policy", job |-> j, by |-> u]
      /\ \A v \in Workers \ {w} : work'[v] = work[v]
  BY <1>1 DEF LibraryInv, LibraryTypeOK
<1>4. LibraryTypeOK'
  BY <1>2, <1>3 DEF LibraryInv, LibraryTypeOK, Multistep
<1>5. PoliciesOK'
  BY <1>2, <1>3, PoliciesKept, UnchangedStands
<1>6. jobs[j].at = "done" /\ \A i \in Jobs : jobs'[i].status = "completed" => jobs'[i].at = "done"
  BY <1>2 DEF LibraryInv, JobsOK
<1>7. \A v \in Workers :
        work'[v].step \in {"insert_policy", "approve_job"} => jobs'[work'[v].job].at = "done"
  BY <1>2, <1>3, <1>6 DEF LibraryInv, JobsOK
<1>8. ASSUME j \notin reworked'
      PROVE  \A v \in Workers : work[v].step \in {"insert_policy", "approve_job"} => work[v].job # j
  BY <1>2, <1>8 DEF Approving
<1>9. \A v, x \in Workers :
        /\ v # x
        /\ work'[v].step \in {"insert_policy", "approve_job"}
        /\ work'[x].step \in {"insert_policy", "approve_job"}
        /\ work'[v].job = work'[x].job
        => work'[v].job \in reworked'
  <2> SUFFICES ASSUME NEW v \in Workers, NEW x \in Workers, v # x,
                      work'[v].step \in {"insert_policy", "approve_job"},
                      work'[x].step \in {"insert_policy", "approve_job"},
                      work'[v].job = work'[x].job
               PROVE  work'[v].job \in reworked'
    OBVIOUS
  <2>1. CASE v = w \/ x = w
    BY <1>3, <1>8, <2>1
  <2>2. CASE v # w /\ x # w
    BY <1>2, <1>3, <2>2 DEF LibraryInv, JobsOK
  <2> QED
    BY <2>1, <2>2
<1>10. ASSUME NEW p \in Policies, policies'[p].origin \in Jobs \ reworked'
       PROVE  /\ jobs'[policies'[p].origin].at = "done"
              /\ jobs'[policies'[p].origin].status = "completed" =>
                   \E v \in Workers : work'[v].step = "approve_job" /\ work'[v].job = policies'[p].origin
              /\ \A v \in Workers : work'[v].step = "insert_policy" => work'[v].job # policies'[p].origin
  <2> DEFINE i == policies[p].origin
  <2>1. i \in Jobs \ reworked /\ policies'[p].origin = i /\ jobs' = jobs
    BY <1>2, <1>10
  <2>2. /\ jobs[i].at = "done"
        /\ jobs[i].status = "completed" =>
             \E v \in Workers : work[v].step = "approve_job" /\ work[v].job = i
        /\ \A v \in Workers : work[v].step = "insert_policy" => work[v].job # i
    BY <2>1 DEF LibraryInv, JobsOK
  <2>3. i # j
    BY <1>2, <1>8, <1>10, <2>1, <2>2
  <2> HIDE DEF i
  <2>4. \A v \in Workers : work'[v].step = "insert_policy" => work'[v].job # i
    BY <1>3, <2>2, <2>3
  <2>5. ASSUME NEW v \in Workers, work[v].step = "approve_job"
        PROVE  work'[v] = work[v]
    BY <1>2, <1>3, <2>5 DEF Idle
  <2> QED
    BY <2>1, <2>2, <2>4, <2>5
<1>11. GeneratedOnce'
  BY <1>2 DEF LibraryInv, JobsOK, GeneratedOnce
<1>12. JobsOK'
  BY <1>6, <1>7, <1>9, <1>10, <1>11 DEF JobsOK
<1> QED
  BY <1>4, <1>5, <1>12 DEF LibraryInv

LEMMA InsertGeneratedPolicyStep ==
  ASSUME LibraryInv, NEW w \in Workers, UNCHANGED doors, InsertGeneratedPolicy(w)
  PROVE  LibraryInv'
<1> DEFINE j == work[w].job
           u == work[w].by
<1>1. /\ work[w].step = "insert_policy" /\ UNCHANGED <<jobs, reworked, rewritten>>
      /\ j \in Jobs /\ u \in Users
  BY MultistepFacts DEF InsertGeneratedPolicy
<1>2. PICK p \in Policies :
        /\ Fresh(p)
        /\ policies' = [policies EXCEPT ![p] =
             [status |-> "draft", owner |-> u, meta |-> NoMeta, origin |-> j]]
        /\ work' = [work EXCEPT ![w] = [step |-> "approve_job", job |-> j, by |-> u, policy |-> p]]
  BY DEF InsertGeneratedPolicy
<1> HIDE DEF j, u
<1>3. /\ DOMAIN work' = Workers
      /\ work'[w] = [step |-> "approve_job", job |-> j, by |-> u, policy |-> p]
      /\ \A v \in Workers \ {w} : work'[v] = work[v]
  BY <1>2 DEF LibraryInv, LibraryTypeOK
<1>4. /\ policies'[p] = [status |-> "draft", owner |-> u, meta |-> NoMeta, origin |-> j]
      /\ \A q \in Policies \ {p} : policies'[q] = policies[q]
      /\ policies' \in [Policies -> Policy]
  BY <1>1, <1>2 DEF LibraryInv, LibraryTypeOK, Policy, Meta, PolicyStatus, NoMeta
<1>5. LibraryTypeOK'
  BY <1>1, <1>3, <1>4 DEF LibraryInv, LibraryTypeOK, Multistep
<1>6. PoliciesOK'
  <2>1. RowsStand
    BY <1>1, <1>2, <1>4 DEF RowsStand, Fresh, Exists
  <2> QED
    BY <1>3, <2>1, PoliciesKept
<1>7. jobs[j].at = "done" /\ work[w].job = j /\ work'[w].job = j
  BY <1>1, <1>3 DEF LibraryInv, JobsOK, j
<1>8. \A v \in Workers :
        work'[v].step \in {"insert_policy", "approve_job"} => jobs'[work'[v].job].at = "done"
  BY <1>1, <1>3, <1>7 DEF LibraryInv, JobsOK
<1>9. ASSUME NEW v \in Workers \ {w}, work[v].step \in {"insert_policy", "approve_job"},
             work[v].job = j
      PROVE  j \in reworked
  BY <1>1, <1>7, <1>9 DEF LibraryInv, JobsOK
<1>10. \A v, x \in Workers :
         /\ v # x
         /\ work'[v].step \in {"insert_policy", "approve_job"}
         /\ work'[x].step \in {"insert_policy", "approve_job"}
         /\ work'[v].job = work'[x].job
         => work'[v].job \in reworked'
  <2> SUFFICES ASSUME NEW v \in Workers, NEW x \in Workers, v # x,
                      work'[v].step \in {"insert_policy", "approve_job"},
                      work'[x].step \in {"insert_policy", "approve_job"},
                      work'[v].job = work'[x].job
               PROVE  work'[v].job \in reworked'
    OBVIOUS
  <2>1. CASE v = w \/ x = w
    BY <1>1, <1>3, <1>7, <1>9, <2>1
  <2>2. CASE v # w /\ x # w
    BY <1>1, <1>3, <2>2 DEF LibraryInv, JobsOK
  <2> QED
    BY <2>1, <2>2
<1>11. ASSUME NEW q \in Policies, policies[q].origin = j PROVE j \in reworked
  BY <1>1, <1>7, <1>11 DEF LibraryInv, JobsOK
<1>12. ASSUME NEW q \in Policies, policies'[q].origin \in Jobs \ reworked'
       PROVE  /\ jobs'[policies'[q].origin].at = "done"
              /\ jobs'[policies'[q].origin].status = "completed" =>
                   \E v \in Workers : work'[v].step = "approve_job" /\ work'[v].job = policies'[q].origin
              /\ \A v \in Workers : work'[v].step = "insert_policy" => work'[v].job # policies'[q].origin
  <2>1. CASE q = p
    BY <1>1, <1>3, <1>4, <1>7, <1>9, <1>12, <2>1
  <2>2. CASE q # p
    <3> DEFINE i == policies[q].origin
    <3>1. i \in Jobs \ reworked /\ policies'[q].origin = i /\ jobs' = jobs
      BY <1>1, <1>4, <1>12, <2>2
    <3>2. /\ jobs[i].at = "done"
          /\ jobs[i].status = "completed" =>
               \E v \in Workers : work[v].step = "approve_job" /\ work[v].job = i
          /\ \A v \in Workers : work[v].step = "insert_policy" => work[v].job # i
      BY <3>1 DEF LibraryInv, JobsOK
    <3> HIDE DEF i
    <3>3. \A v \in Workers : work'[v].step = "insert_policy" => work'[v].job # i
      BY <1>3, <3>2
    <3>4. ASSUME NEW v \in Workers, work[v].step = "approve_job"
          PROVE  work'[v] = work[v]
      BY <1>1, <1>3, <3>4
    <3> QED
      BY <3>1, <3>2, <3>3, <3>4
  <2> QED
    BY <2>1, <2>2
<1>13. GeneratedOnce'
  <2> SUFFICES ASSUME NEW i \in Jobs, NEW q \in Policies, NEW r \in Policies,
                      policies'[q].origin = i, policies'[r].origin = i
               PROVE  q = r \/ i \in reworked'
    BY DEF GeneratedOnce
  <2>1. CASE q # p /\ r # p
    BY <1>1, <1>4, <2>1 DEF LibraryInv, JobsOK, GeneratedOnce
  <2>2. CASE q = p \/ r = p
    BY <1>1, <1>4, <1>11, <2>2
  <2> QED
    BY <2>1, <2>2
<1>14. \A i \in Jobs : jobs'[i].status = "completed" => jobs'[i].at = "done"
  BY <1>1 DEF LibraryInv, JobsOK
<1>15. JobsOK'
  BY <1>8, <1>10, <1>12, <1>13, <1>14 DEF JobsOK
<1> QED
  BY <1>5, <1>6, <1>15 DEF LibraryInv

LEMMA PolicyHandlerStep ==
  ASSUME LibraryInv, NEW w \in Workers, UNCHANGED doors, PolicyHandler(w)
  PROVE  LibraryInv'
BY CreateSteps, ReviewSteps, CommitPolicyStep, InsertGeneratedPolicyStep, AbortPolicyStep,
   ApproveJobStep DEF PolicyHandler

LEMMA GenerationStep ==
  ASSUME LibraryInv, UNCHANGED doors, Generation
  PROVE  LibraryInv'
BY GenerationSteps, RejectJobStep DEF Generation

\* The policy half of a deletion.
LEMMA DeleteStarts ==
  ASSUME LibraryInv, NEW w \in Workers, NEW p \in Policies, work[w] = Idle,
         work' = [work EXCEPT ![w] = [step |-> "delete", policy |-> p]],
         UNCHANGED <<doors, policies, jobs, reworked, rewritten>>
  PROVE  LibraryInv'
<1>1. /\ DOMAIN work' = Workers /\ work'[w] = [step |-> "delete", policy |-> p]
      /\ \A v \in Workers \ {w} : work'[v] = work[v]
  BY DEF LibraryInv, LibraryTypeOK
<1>2. LibraryTypeOK'
  BY <1>1 DEF LibraryInv, LibraryTypeOK, Multistep
<1>3. PoliciesOK'
  BY <1>1, PoliciesKept, UnchangedStands
<1> QED
  BY <1>1, <1>2, <1>3, PolicyStep DEF Idle

LEMMA DeleteCommits ==
  ASSUME LibraryInv, NEW w \in Workers, work[w].step = "delete",
         policies' = [policies EXCEPT ![work[w].policy] = [Blank EXCEPT !.status = "deleted"]],
         work' = [work EXCEPT ![w] = Idle], UNCHANGED <<doors, jobs, reworked, rewritten>>
  PROVE  LibraryInv'
<1>1. /\ DOMAIN work' = Workers /\ work'[w] = Idle
      /\ \A v \in Workers \ {w} : work'[v] = work[v]
  BY DEF LibraryInv, LibraryTypeOK
<1>2. /\ policies' \in [Policies -> Policy]
      /\ policies'[work[w].policy] = [Blank EXCEPT !.status = "deleted"]
      /\ \A q \in Policies \ {work[w].policy} : policies'[q] = policies[q]
  BY MultistepFacts DEF LibraryInv, LibraryTypeOK, Policy, Meta, Blank, NoMeta
<1>3. LibraryTypeOK'
  BY <1>1, <1>2 DEF LibraryInv, LibraryTypeOK
<1>4. PoliciesOK'
  <2>1. RowsStand
    BY <1>2 DEF RowsStand, Exists, Blank
  <2> QED
    BY <1>1, <2>1, PoliciesKept DEF Idle
<1>5. \A q \in Policies : policies'[q].origin \in Jobs => policies'[q].origin = policies[q].origin
  BY <1>2, LibraryAssumption DEF Blank
<1> QED
  BY <1>1, <1>3, <1>4, <1>5, PolicyStep DEF Idle

-----------------------------------------------------------------------------
(* The register.  The predicates below take the values they speak of, so   *)
(* that a lemma can relate the state before a step and the one after it.   *)

\* The link of an obligation will survive: no deletion can take a policy that is mapped.
LinkSound(o, obs, maps, wvd) ==
  \/ <<o, "link">> \in wvd
  \/ obs[o].linked # None /\ <<o, obs[o].linked>> \in maps

RequestTyped(r) == \E S \in SUBSET Obligations, M \in SUBSET {Master} : r \in Order(S, M)

\* What a request about obligations has seen and will write.  A request that approves was
\* not made by the creator; it brings the rule or there is one; and either it brings the link
\* with its mapping, or it maps the policy that was linked when it looked, and that link has
\* not been lost since, unless to a deletion that will make its commit raise.
RequestOK(r, obs, maps, ctl, wvd, sld, pol) ==
  /\ RequestTyped(r)
  /\ MastersOK(r.masters)
  /\ \A a \in r.audits :
       a[1] \in DOMAIN r.rows /\ (r.rows[a[1]].status = a[2] \/ a \in sld)
  /\ \A o \in DOMAIN r.rows :
       \/ r.rows[o].linked = Same \/ r.inserts \/ "link" \in r.waives
       \/ <<o, r.rows[o].linked>> \in r.newMaps \cup r.oldMaps
  /\ \A o \in DOMAIN r.rows : r.rows[o].status = "approved" =>
       /\ ~r.inserts /\ r.by \in Users
       /\ obs[o].status # "absent" /\ r.by # obs[o].createdBy
       /\ "rule" \in r.waives \/ \E c \in ctl \cup r.rules : c[1] = o
       /\ \/ r.rows[o].linked # Same \/ "link" \in r.waives
          \/ LinkSound(o, obs, maps, wvd)
          \/ \E p \in Policies :
               /\ <<o, p>> \in r.newMaps \cup r.oldMaps
               /\ obs[o].linked = p \/ pol[p].status = "deleted"

OrderOK(x, obs, maps, ctl, wvd, sld, pol) ==
  \/ x = Idle
  \/ x \in [step : {"committed"}, audits : SUBSET Audits] /\ x.audits \subseteq sld
  \/ x.step = "ready" /\ RequestOK(x, obs, maps, ctl, wvd, sld, pol)

\* The rows.
RowsOK(obs, maps, ctl, wvd, sld, sgn, pol) ==
  /\ obs \in [Obligations -> Obligation]
  /\ maps \subseteq Pairs
  /\ ctl \subseteq Obligations \X (Policies \cup {None})
  /\ wvd \subseteq Obligations \X {"link", "rule"}
  /\ sld \subseteq Audits
  /\ sgn \in [Obligations -> Users \cup {None}]
  /\ \A m \in maps : pol[m[2]].status \notin {"absent", "deleted"}
  /\ \A o \in Obligations : obs[o].status \in Verdicts => <<o, obs[o].status>> \in sld
  /\ \A o \in Obligations : obs[o].status = "approved" =>
       /\ sgn[o] # None /\ sgn[o] # obs[o].createdBy
       /\ LinkSound(o, obs, maps, wvd)
       /\ <<o, "rule">> \in wvd \/ \E c \in ctl : c[1] = o

RegisterInv ==
  /\ RowsOK(obligations, mappings, controls, waived, settled, signer, policies)
  /\ trail \subseteq settled
  /\ DOMAIN order = Workers
  /\ \A w \in Workers :
       OrderOK(order[w], obligations, mappings, controls, waived, settled, policies)

\* The inductive invariant.  None of the properties of the register is inductive alone: what a
\* commit makes of the rows depends on what its request loaded, possibly long before.
IInv == LibraryInv /\ RegisterInv

LEMMA InitIInv == Init => IInv
<1> SUFFICES ASSUME Init PROVE IInv
  OBVIOUS
<1>1. RowsOK(obligations, mappings, controls, waived, settled, signer, policies)
  BY DEF Init, RowsOK, Unknown, Obligation, Verdicts
<1> QED
  BY <1>1, InitLibrary DEF Init, IInv, RegisterInv, OrderOK

\* What every step grants the requests it is not a step of: nothing recorded disappears or
\* changes its creator, rules and settled verdicts stay, a deleted policy stays deleted, and a
\* link that survives goes on surviving or its policy is deleted.
Progress ==
  /\ settled \subseteq settled' /\ controls \subseteq controls'
  /\ \A p \in Policies : policies[p].status = "deleted" => policies'[p].status = "deleted"
  /\ \A o \in Obligations : Recorded(o) =>
       /\ obligations'[o].status # "absent" /\ obligations'[o].createdBy = obligations[o].createdBy
       /\ LinkSound(o, obligations, mappings, waived)
            => LinkSound(o, obligations', mappings', waived')
       /\ \A p \in Policies : obligations[o].linked = p =>
            \/ obligations'[o].linked = p
            \/ LinkSound(o, obligations', mappings', waived')
            \/ policies'[p].status = "deleted"

LEMMA TypedFacts ==
  ASSUME NEW r, RequestTyped(r)
  PROVE  /\ r.step = "ready" /\ r.by \in Users \cup {None} /\ r.inserts \in BOOLEAN
         /\ DOMAIN r.rows \subseteq Obligations
         /\ \A o \in DOMAIN r.rows : r.rows[o] \in RowWrite
         /\ r.newMaps \subseteq Pairs /\ r.oldMaps \subseteq Pairs /\ r.rules \subseteq Pairs
         /\ r.waives \subseteq {"link", "rule"} /\ r.audits \subseteq Audits
BY DEF RequestTyped, Order

LEMMA RequestKept ==
  ASSUME NEW r, RequestOK(r, obligations, mappings, controls, waived, settled, policies),
         Progress
  PROVE  RequestOK(r, obligations', mappings', controls', waived', settled', policies')
<1>1. RequestTyped(r) /\ MastersOK(r.masters) /\ DOMAIN r.rows \subseteq Obligations
  BY TypedFacts DEF RequestOK
<1>2. \A a \in r.audits :
        a[1] \in DOMAIN r.rows /\ (r.rows[a[1]].status = a[2] \/ a \in settled')
  BY DEF RequestOK, Progress
<1>3. \A o \in DOMAIN r.rows :
        \/ r.rows[o].linked = Same \/ r.inserts \/ "link" \in r.waives
        \/ <<o, r.rows[o].linked>> \in r.newMaps \cup r.oldMaps
  BY DEF RequestOK
<1>4. ASSUME NEW o \in DOMAIN r.rows, r.rows[o].status = "approved"
      PROVE  /\ ~r.inserts /\ r.by \in Users
             /\ obligations'[o].status # "absent" /\ r.by # obligations'[o].createdBy
             /\ "rule" \in r.waives \/ \E c \in controls' \cup r.rules : c[1] = o
             /\ \/ r.rows[o].linked # Same \/ "link" \in r.waives
                \/ LinkSound(o, obligations', mappings', waived')
                \/ \E p \in Policies :
                     /\ <<o, p>> \in r.newMaps \cup r.oldMaps
                     /\ obligations'[o].linked = p \/ policies'[p].status = "deleted"
  <2>1. o \in Obligations /\ Recorded(o)
    BY <1>1, <1>4 DEF RequestOK, Recorded
  <2>2. /\ ~r.inserts /\ r.by \in Users /\ r.by # obligations[o].createdBy
        /\ "rule" \in r.waives \/ \E c \in controls \cup r.rules : c[1] = o
        /\ \/ r.rows[o].linked # Same \/ "link" \in r.waives
           \/ LinkSound(o, obligations, mappings, waived)
           \/ \E p \in Policies :
                /\ <<o, p>> \in r.newMaps \cup r.oldMaps
                /\ obligations[o].linked = p \/ policies[p].status = "deleted"
    BY <1>4 DEF RequestOK
  <2>3. /\ obligations'[o].status # "absent" /\ obligations'[o].createdBy = obligations[o].createdBy
        /\ controls \subseteq controls'
    BY <2>1 DEF Progress
  <2>4. LinkSound(o, obligations, mappings, waived)
          => LinkSound(o, obligations', mappings', waived')
    BY <2>1 DEF Progress
  <2>5. ASSUME NEW p \in Policies, obligations[o].linked = p \/ policies[p].status = "deleted"
        PROVE  \/ obligations'[o].linked = p \/ policies'[p].status = "deleted"
               \/ LinkSound(o, obligations', mappings', waived')
    BY <2>1, <2>5 DEF Progress
  <2> QED
    BY <2>2, <2>3, <2>4, <2>5
<1> QED
  BY <1>1, <1>2, <1>3, <1>4 DEF RequestOK

\* The requests in flight, after a step of one of them or of none.
LEMMA OrdersKept ==
  ASSUME RegisterInv, Progress, DOMAIN order' = Workers,
         \A v \in Workers :
           \/ order'[v] = order[v]
           \/ OrderOK(order'[v], obligations', mappings', controls', waived', settled', policies')
  PROVE  \A v \in Workers :
           OrderOK(order'[v], obligations', mappings', controls', waived', settled', policies')
<1> SUFFICES ASSUME NEW v \in Workers, order'[v] = order[v]
             PROVE  OrderOK(order[v], obligations', mappings', controls', waived', settled', policies')
  OBVIOUS
<1>1. OrderOK(order[v], obligations, mappings, controls, waived, settled, policies)
  BY DEF RegisterInv
<1>2. settled \subseteq settled'
  BY DEF Progress
<1>3. CASE order[v].step = "ready" /\ RequestOK(order[v], obligations, mappings, controls, waived, settled, policies)
  BY <1>3, RequestKept DEF OrderOK
<1> QED
  BY <1>1, <1>2, <1>3 DEF OrderOK

LEMMA StillProgress ==
  ASSUME UNCHANGED <<obligations, mappings, controls, waived, settled>>,
         \A p \in Policies : policies[p].status = "deleted" => policies'[p].status = "deleted"
  PROVE  Progress
BY DEF Progress, Recorded

LEMMA LibraryKept ==
  ASSUME LibraryInv, UNCHANGED <<doors, libraryVars>>
  PROVE  LibraryInv'
<1>1. LibraryTypeOK'
  BY DEF LibraryInv, libraryVars, LibraryTypeOK
<1>2. PoliciesOK'
  BY UnchangedStands, PoliciesKept DEF libraryVars
<1>3. JobsOK'
  BY DEF LibraryInv, libraryVars, JobsOK, GeneratedOnce
<1> QED
  BY <1>1, <1>2, <1>3 DEF LibraryInv

\* A request is made: nothing is written yet.
LEMMA SubmitStep ==
  ASSUME IInv, NEW w \in Workers, NEW request, Submit(w, request),
         RequestOK(request, obligations, mappings, controls, waived, settled, policies)
  PROVE  IInv'
<1>1. /\ order' = [order EXCEPT ![w] = request]
      /\ UNCHANGED <<doors, libraryVars, obligations, mappings, controls, trail,
                     signer, settled, waived>>
  BY DEF Submit
<1>2. DOMAIN order' = Workers /\ order'[w] = request /\ \A v \in Workers \ {w} : order'[v] = order[v]
  BY <1>1 DEF IInv, RegisterInv
<1>3. request.step = "ready"
  BY TypedFacts DEF RequestOK
<1>4. policies' = policies
  BY <1>1 DEF libraryVars
<1>5. Progress
  BY <1>1, <1>4, StillProgress
<1>6. OrderOK(order'[w], obligations', mappings', controls', waived', settled', policies')
  BY <1>1, <1>2, <1>3, <1>4 DEF OrderOK
<1>7. \A v \in Workers :
        OrderOK(order'[v], obligations', mappings', controls', waived', settled', policies')
  BY <1>2, <1>5, <1>6, OrdersKept DEF IInv
<1>8. RowsOK(obligations', mappings', controls', waived', settled', signer', policies')
  BY <1>1, <1>4 DEF IInv, RegisterInv
<1>9. trail' \subseteq settled'
  BY <1>1 DEF IInv, RegisterInv
<1>10. RegisterInv'
  BY <1>2, <1>7, <1>8, <1>9 DEF RegisterInv
<1> QED
  BY <1>1, <1>10, LibraryKept DEF IInv

-----------------------------------------------------------------------------
(* What each handler asks for.                                             *)

RowWrites == UNION {[S -> RowWrite] : S \in SUBSET Obligations}
MasterWrites == UNION {[M -> Write] : M \in SUBSET {Master}}

AnyOrder ==
  [step : {"ready"}, by : Users \cup {None}, rows : RowWrites, inserts : BOOLEAN,
   newMaps : SUBSET Pairs, oldMaps : SUBSET Pairs, rules : SUBSET Pairs,
   masters : MasterWrites, waives : SUBSET {"link", "rule"}, audits : SUBSET Audits]

LEMMA AnyOrderTyped ==
  ASSUME NEW r \in AnyOrder
  PROVE  RequestTyped(r)
<1>1. PICK S \in SUBSET Obligations : r.rows \in [S -> RowWrite]
  BY DEF AnyOrder, RowWrites
<1>2. PICK M \in SUBSET {Master} : r.masters \in [M -> Write]
  BY DEF AnyOrder, MasterWrites
<1>3. r \in Order(S, M)
  BY <1>1, <1>2 DEF AnyOrder, Order
<1> QED
  BY <1>3 DEF RequestTyped

LEMMA EmptyFields ==
  /\ Empty \in AnyOrder
  /\ Empty.step = "ready" /\ Empty.by = None /\ Empty.rows = <<>> /\ Empty.inserts = FALSE
  /\ Empty.newMaps = {} /\ Empty.oldMaps = {} /\ Empty.rules = {} /\ Empty.masters = <<>>
  /\ Empty.waives = {} /\ Empty.audits = {}
<1>1. <<>> \in [{} -> RowWrite] /\ <<>> \in [{} -> Write]
  OBVIOUS
<1>2. <<>> \in RowWrites /\ <<>> \in MasterWrites
  BY <1>1 DEF RowWrites, MasterWrites
<1> QED
  BY <1>2 DEF Empty, AnyOrder

LEMMA UpsertingFields ==
  ASSUME NEW x \in AnyOrder, NEW pairs \in SUBSET Pairs, NEW r, r = Upserting(x, pairs)
  PROVE  /\ r \in AnyOrder
         /\ r.by = x.by /\ r.rows = x.rows /\ r.rules = x.rules /\ r.masters = x.masters
         /\ r.waives = x.waives /\ r.step = x.step /\ r.inserts = x.inserts
         /\ r.newMaps = pairs \ mappings /\ r.oldMaps = pairs \cap mappings
         /\ r.audits = x.audits
<1>1. r = [x EXCEPT !.newMaps = pairs \ mappings, !.oldMaps = pairs \cap mappings]
  BY DEF Upserting
<1>2. pairs \ mappings \in SUBSET Pairs /\ pairs \cap mappings \in SUBSET Pairs
  OBVIOUS
<1> QED
  BY <1>1, <1>2 DEF AnyOrder

LEMMA AuditsFields ==
  ASSUME NEW x \in AnyOrder, NEW A \in SUBSET Audits, NEW r, r = [x EXCEPT !.audits = A]
  PROVE  /\ r \in AnyOrder
         /\ r.by = x.by /\ r.rows = x.rows /\ r.rules = x.rules /\ r.masters = x.masters
         /\ r.waives = x.waives /\ r.step = x.step /\ r.inserts = x.inserts
         /\ r.newMaps = x.newMaps /\ r.oldMaps = x.oldMaps /\ r.audits = A
BY DEF AnyOrder

\* The columns of a decision, as the module computes them.
PolicyOf(o, status, asked) ==
  IF status = "approved" /\ Target(o, asked) = None THEN Master ELSE Target(o, asked)

PairsOf(S, status, asked) ==
  IF status = "approved" THEN {<<o, PolicyOf(o, status, asked)>> : o \in S} ELSE {}

RowsOf(S, status, asked) ==
  [o \in S |-> [status |-> Changed(obligations[o].status, status),
                linked |-> Changed(obligations[o].linked, PolicyOf(o, status, asked))]]

Decided(d, S, u, status, asked, control) ==
  /\ d \in AnyOrder
  /\ d.step = "ready" /\ d.inserts = FALSE /\ d.audits = {} /\ d.rows = RowsOf(S, status, asked)
  /\ d.by = IF status = "approved" THEN u ELSE None
  /\ d.newMaps = PairsOf(S, status, asked) \ mappings
  /\ d.oldMaps = PairsOf(S, status, asked) \cap mappings
  /\ d.rules = IF control THEN MissingRules(PairsOf(S, status, asked)) ELSE {}
  /\ d.masters = IF status = "approved" /\ \E o \in S : Target(o, asked) = None
                 THEN EnsureMaster ELSE <<>>
  /\ d.waives = IF status # "approved" THEN {"link"}
                ELSE IF control THEN {} ELSE {"rule"}

LEMMA DecisionFields ==
  ASSUME NEW S \in SUBSET Obligations, NEW u \in Users, NEW status \in Statuses,
         NEW asked \in Policies \cup {None}, NEW control \in BOOLEAN,
         LibraryInv,
         PairsOf(S, status, asked) \in SUBSET Pairs, RowsOf(S, status, asked) \in RowWrites
  PROVE  Decided(Decision(S, u, status, asked, control), S, u, status, asked, control)
<1> DEFINE f(o) == IF status = "approved" /\ Target(o, asked) = None THEN Master
                   ELSE Target(o, asked)
           frows == [o \in S |->
              [status |-> Changed(obligations[o].status, status),
               linked |-> Changed(obligations[o].linked, f(o))]]
           ps == IF status = "approved" THEN {<<o, f(o)>> : o \in S} ELSE {}
           masters == IF status = "approved" /\ \E o \in S : Target(o, asked) = None
                      THEN EnsureMaster ELSE <<>>
           waives == IF status # "approved" THEN {"link"} ELSE IF control THEN {} ELSE {"rule"}
           by == IF status = "approved" THEN u ELSE None
           rules == IF control THEN MissingRules(ps) ELSE {}
           x == [Empty EXCEPT !.by = by, !.rows = frows, !.rules = rules, !.masters = masters,
                              !.waives = waives]
           d == Decision(S, u, status, asked, control)
<1>1. ps = PairsOf(S, status, asked) /\ frows = RowsOf(S, status, asked)
  BY DEF PairsOf, RowsOf, PolicyOf
<1>2. d = Upserting(x, ps)
  BY DEF Decision
<1>3. masters \in MasterWrites
  <2>1. <<>> \in [{} -> Write]
    OBVIOUS
  <2> QED
    BY <2>1, EnsureMasterOK DEF MasterWrites
<1>4. rules \in SUBSET Pairs
  BY <1>1 DEF MissingRules
<1>5. waives \in SUBSET {"link", "rule"} /\ by \in Users \cup {None}
  OBVIOUS
<1> HIDE DEF ps, frows, masters, waives, by, rules, d
<1>6. /\ x \in AnyOrder
      /\ x.step = "ready" /\ x.by = by /\ x.rows = frows /\ x.inserts = FALSE /\ x.audits = {}
      /\ x.rules = rules /\ x.masters = masters /\ x.waives = waives
  <2> DEFINE e == Empty
  <2>1. x = [e EXCEPT !.by = by, !.rows = frows, !.rules = rules, !.masters = masters,
                      !.waives = waives]
    OBVIOUS
  <2> HIDE DEF x
  <2>2. e \in AnyOrder /\ e.step = "ready" /\ e.inserts = FALSE /\ e.audits = {}
    BY EmptyFields
  <2>3. frows \in RowWrites
    BY <1>1
  <2>4. e \in AnyOrder
    BY <2>2
  <2>5. by \in Users \cup {None} /\ waives \in SUBSET {"link", "rule"}
    BY <1>5
  <2> HIDE DEF e
  <2>6. x \in AnyOrder
    BY <1>3, <1>4, <2>1, <2>3, <2>4, <2>5 DEF AnyOrder
  <2>7. x.by = by /\ x.rows = frows /\ x.rules = rules /\ x.masters = masters /\ x.waives = waives
    BY <2>1, <2>4 DEF AnyOrder
  <2>8. x.step = e.step /\ x.inserts = e.inserts /\ x.audits = e.audits
    BY <2>1, <2>4 DEF AnyOrder
  <2> QED
    BY <2>2, <2>6, <2>7, <2>8
<1> HIDE DEF x
<1>7. d \in AnyOrder
      /\ d.by = x.by /\ d.rows = x.rows /\ d.rules = x.rules /\ d.masters = x.masters
      /\ d.waives = x.waives /\ d.step = x.step /\ d.inserts = x.inserts /\ d.audits = x.audits
      /\ d.newMaps = ps \ mappings /\ d.oldMaps = ps \cap mappings
  BY <1>1, <1>2, <1>6, UpsertingFields
<1> QED
  BY <1>1, <1>6, <1>7 DEF Decided, by, masters, waives, rules, d

LEMMA DecisionTyped ==
  ASSUME IInv, NEW S \in SUBSET Obligations, NEW u \in Users, NEW status \in Statuses,
         NEW asked \in Policies \cup {None}, NEW control \in BOOLEAN, NEW autoLink \in BOOLEAN,
         \A o \in S : Acceptable(o, u, status, asked, autoLink)
  PROVE  /\ \A o \in S :
              /\ PolicyOf(o, status, asked) \in Policies \cup {None}
              /\ status = "approved" =>
                   /\ PolicyOf(o, status, asked) \in Policies
                   /\ <<o, PolicyOf(o, status, asked)>> \in PairsOf(S, status, asked)
         /\ Decided(Decision(S, u, status, asked, control), S, u, status, asked, control)
<1> DEFINE policyOf(o) == PolicyOf(o, status, asked)
           pairs == PairsOf(S, status, asked)
           rows == RowsOf(S, status, asked)
<1>1. \A o \in S : /\ obligations[o] \in Obligation /\ obligations[o].status \in Statuses
                   /\ obligations[o].linked \in Policies \cup {None}
  BY DEF IInv, RegisterInv, RowsOK, Obligation, Acceptable, Recorded
<1>2. ASSUME NEW o \in S
      PROVE  /\ policyOf(o) \in Policies \cup {None}
             /\ status = "approved" => policyOf(o) \in Policies
             /\ status # "approved" => policyOf(o) = (IF asked # None THEN asked ELSE obligations[o].linked)
             /\ policyOf(o) = None => obligations[o].linked = None
  BY <1>1, LibraryAssumption DEF PolicyOf, Target
<1>3. \A o \in S : policyOf(o) \in Policies \/ policyOf(o) = None
  BY <1>2
<1>4. \A o \in S : rows[o] = [status |-> Changed(obligations[o].status, status),
                              linked |-> Changed(obligations[o].linked, policyOf(o))]
  BY DEF RowsOf
<1>5. DOMAIN rows = S
  BY DEF RowsOf
<1>6. pairs \in SUBSET Pairs /\ (status = "approved" => \A o \in S : <<o, policyOf(o)>> \in pairs)
      /\ (status # "approved" => pairs = {})
  BY <1>2 DEF PairsOf, Pairs
<1>7. rows \in [S -> RowWrite]
  <2> SUFFICES ASSUME NEW o \in S
               PROVE  [status |-> Changed(obligations[o].status, status),
                       linked |-> Changed(obligations[o].linked, policyOf(o))] \in RowWrite
    BY DEF RowsOf
  <2>1. Changed(obligations[o].status, status) \in Statuses \cup {Same}
    BY DEF Changed
  <2>2. Changed(obligations[o].linked, policyOf(o)) \in Policies \cup {Same}
    BY <1>2 DEF Changed
  <2> QED
    BY <2>1, <2>2 DEF RowWrite
<1>8. rows \in RowWrites
  BY <1>7 DEF RowWrites
<1>9. LibraryInv
  BY DEF IInv
<1>10. Decided(Decision(S, u, status, asked, control), S, u, status, asked, control)
  BY <1>6, <1>8, <1>9, DecisionFields
<1> QED
  BY <1>2, <1>6, <1>10

AllAcceptable(S, u, status, asked, autoLink) ==
  \A o \in S : Acceptable(o, u, status, asked, autoLink)

\* The request r is the decision d, with the records A to write.
SameDecision(r, d, A) ==
  /\ r \in AnyOrder
  /\ r.by = d.by /\ r.rows = d.rows /\ r.rules = d.rules /\ r.masters = d.masters
  /\ r.waives = d.waives /\ r.inserts = d.inserts
  /\ r.newMaps = d.newMaps /\ r.oldMaps = d.oldMaps /\ r.audits = A

RecordsOf(S, status) == {a \in Audits : a[1] \in S /\ a[2] = status}

\* A decision that passed its checks is a sound request, with or without records to write.
LEMMA DecisionOK ==
  ASSUME IInv, NEW S \in SUBSET Obligations, NEW u \in Users, NEW status \in Statuses,
         NEW asked \in Policies \cup {None}, NEW control \in BOOLEAN, NEW autoLink \in BOOLEAN,
         AllAcceptable(S, u, status, asked, autoLink),
         NEW A \in SUBSET RecordsOf(S, status),
         NEW r, SameDecision(r, Decision(S, u, status, asked, control), A)
  PROVE  RequestOK(r, obligations, mappings, controls, waived, settled, policies)
<1> DEFINE policyOf(o) == PolicyOf(o, status, asked)
           pairs == PairsOf(S, status, asked)
           rows == RowsOf(S, status, asked)
           d == Decision(S, u, status, asked, control)
<1>0. /\ r \in AnyOrder
      /\ r.by = d.by /\ r.rows = d.rows /\ r.rules = d.rules /\ r.masters = d.masters
      /\ r.waives = d.waives /\ r.inserts = d.inserts
      /\ r.newMaps = d.newMaps /\ r.oldMaps = d.oldMaps /\ r.audits = A
  BY DEF SameDecision
<1>1. /\ \A o \in S :
           status = "approved" => policyOf(o) \in Policies /\ <<o, policyOf(o)>> \in pairs
      /\ Decided(d, S, u, status, asked, control)
  BY DecisionTyped DEF AllAcceptable
<1>4. \A o \in S : rows[o] = [status |-> Changed(obligations[o].status, status),
                              linked |-> Changed(obligations[o].linked, policyOf(o))]
  BY DEF RowsOf
<1>5. DOMAIN rows = S
  BY DEF RowsOf
<1>9. LibraryInv
  BY DEF IInv
<1>10. /\ d.inserts = FALSE /\ d.rows = rows /\ d.by = IF status = "approved" THEN u ELSE None
       /\ d.newMaps = pairs \ mappings /\ d.oldMaps = pairs \cap mappings
       /\ d.rules = IF control THEN MissingRules(pairs) ELSE {}
       /\ d.masters = IF status = "approved" /\ \E o \in S : Target(o, asked) = None
                      THEN EnsureMaster ELSE <<>>
       /\ d.waives = IF status # "approved" THEN {"link"}
                     ELSE IF control THEN {} ELSE {"rule"}
  BY <1>1 DEF Decided
<1>11. RequestTyped(r)
  BY <1>0, AnyOrderTyped
<1>12. MastersOK(r.masters)
  BY <1>9, <1>10, <1>0, NoMasters, EnsureMasterOK
<1>13. \A o \in S : /\ r.rows[o].status = (IF obligations[o].status = status THEN Same ELSE status)
                    /\ r.rows[o].linked = (IF obligations[o].linked = policyOf(o) THEN Same
                                           ELSE policyOf(o))
  <2> TAKE o \in S
  <2>1. r.rows[o] = [status |-> Changed(obligations[o].status, status),
                     linked |-> Changed(obligations[o].linked, policyOf(o))]
    BY <1>4, <1>10, <1>0
  <2> QED
    BY <2>1 DEF Changed
<1>14. DOMAIN r.rows = S
  BY <1>5, <1>10, <1>0
<1>15. \A a \in r.audits : a[1] \in DOMAIN r.rows /\ (r.rows[a[1]].status = a[2] \/ a \in settled)
  <2> SUFFICES ASSUME NEW a \in A, obligations[a[1]].status = a[2]
               PROVE  a \in settled
    BY <1>0, <1>13, <1>14 DEF RecordsOf
  <2>1. a \in Audits /\ a[1] \in Obligations /\ a[2] \in Verdicts /\ a = <<a[1], a[2]>>
    BY DEF Audits, RecordsOf
  <2> QED
    BY <2>1 DEF IInv, RegisterInv, RowsOK
<1>16. ASSUME NEW o \in S, r.rows[o].linked # Same
       PROVE  \/ "link" \in r.waives
              \/ <<o, r.rows[o].linked>> \in r.newMaps \cup r.oldMaps
  BY <1>1, <1>10, <1>0, <1>13, <1>16
<1>17. ASSUME NEW o \in S, r.rows[o].status = "approved"
       PROVE  /\ ~r.inserts /\ r.by \in Users
              /\ obligations[o].status # "absent" /\ r.by # obligations[o].createdBy
              /\ "rule" \in r.waives \/ \E c \in controls \cup r.rules : c[1] = o
              /\ \/ r.rows[o].linked # Same
                 \/ \E p \in Policies : <<o, p>> \in r.newMaps \cup r.oldMaps /\ obligations[o].linked = p
  <2>1. status = "approved" /\ obligations[o].status # "approved"
    BY <1>13, <1>17 DEF Same
  <2>2. r.by = u /\ u # obligations[o].createdBy /\ obligations[o].status # "absent"
    BY <1>10, <1>0, <2>1 DEF AllAcceptable, Acceptable, FourEyesCheck, Recorded
  <2>3. <<o, policyOf(o)>> \in pairs /\ policyOf(o) \in Policies
    BY <1>1, <2>1
  <2>4. "rule" \in r.waives \/ \E c \in controls \cup r.rules : c[1] = o
    <3>1. CASE ~control
      BY <1>10, <1>0, <2>1, <3>1
    <3>2. CASE control /\ <<o, policyOf(o)>> \in MissingRules(pairs)
      BY <1>10, <1>0, <3>2
    <3>3. CASE control /\ <<o, policyOf(o)>> \notin MissingRules(pairs)
      BY <2>3, <3>3 DEF MissingRules
    <3> QED
      BY <3>1, <3>2, <3>3
  <2> QED
    BY <1>10, <1>0, <1>13, <2>2, <2>3, <2>4, RegisterAssumption
<1> QED
  BY <1>11, <1>12, <1>14, <1>15, <1>16, <1>17 DEF RequestOK

LEMMA DecisionSteps ==
  ASSUME IInv, NEW w \in Workers,
         UpdateObligation(w) \/ ApproveObligation(w) \/ BulkApprove(w)
  PROVE  IInv'
<1>1. CASE UpdateObligation(w)
  <2>1. PICK o \in Obligations, u \in Users, status \in Statuses :
          /\ Acceptable(o, u, status, None, TRUE)
          /\ Submit(w, Decision({o}, u, status, None, TRUE))
    BY <1>1 DEF UpdateObligation, PatchStatus
  <2> DEFINE d == Decision({o}, u, status, None, TRUE)
  <2>2. Decided(d, {o}, u, status, None, TRUE)
    BY <2>1, DecisionTyped
  <2>3. d \in AnyOrder /\ d.audits = {}
    BY <2>2 DEF Decided
  <2>4. RequestOK(d, obligations, mappings, controls, waived, settled, policies)
    <3>1. AllAcceptable({o}, u, status, None, TRUE)
      BY <2>1 DEF AllAcceptable
    <3>2. SameDecision(d, d, {}) /\ {} \in SUBSET RecordsOf({o}, status)
      BY <2>3 DEF SameDecision
    <3> QED
      BY <3>1, <3>2, DecisionOK
  <2> QED
    BY <2>1, <2>4, SubmitStep
<1>2. CASE ApproveObligation(w)
  <2>1. PICK o \in Obligations, u \in Users, status \in Statuses, autoLink \in BOOLEAN,
             control \in BOOLEAN, asked \in {p \in Policies : Exists(p)} \cup {None} :
          /\ Acceptable(o, u, status, asked, autoLink)
          /\ Submit(w, [Decision({o}, u, status, asked, control)
                        EXCEPT !.audits = {<<o, status>>} \cap Audits])
    BY <1>2 DEF ApproveObligation
  <2> DEFINE d == Decision({o}, u, status, asked, control)
             A == {<<o, status>>} \cap Audits
             r == [d EXCEPT !.audits = A]
  <2>2. asked \in Policies \cup {None}
    OBVIOUS
  <2>3. Decided(d, {o}, u, status, asked, control)
    BY <2>1, <2>2, DecisionTyped
  <2>4. d \in AnyOrder
    BY <2>3 DEF Decided
  <2>5. A \in SUBSET Audits /\ A \in SUBSET RecordsOf({o}, status)
    BY DEF RecordsOf
  <2>6. /\ r \in AnyOrder
        /\ r.by = d.by /\ r.rows = d.rows /\ r.rules = d.rules /\ r.masters = d.masters
        /\ r.waives = d.waives /\ r.step = d.step /\ r.inserts = d.inserts
        /\ r.newMaps = d.newMaps /\ r.oldMaps = d.oldMaps /\ r.audits = A
    <3> HIDE DEF d, A
    <3> QED
      BY <2>4, <2>5, AuditsFields
  <2>7. Submit(w, r)
    BY <2>1
  <2> HIDE DEF r, A
  <2>8. RequestOK(r, obligations, mappings, controls, waived, settled, policies)
    <3>1. AllAcceptable({o}, u, status, asked, autoLink)
      BY <2>1 DEF AllAcceptable
    <3>2. SameDecision(r, d, A)
      BY <2>6 DEF SameDecision
    <3> QED
      BY <2>2, <2>5, <3>1, <3>2, DecisionOK
  <2> QED
    BY <2>7, <2>8, SubmitStep
<1>3. CASE BulkApprove(w)
  <2>1. PICK T \in SUBSET Obligations, u \in Users, status \in Statuses, control \in BOOLEAN :
          LET passed == {o \in T : Acceptable(o, u, status, None, TRUE)} IN
          Submit(w, [Decision(passed, u, status, None, control)
                     EXCEPT !.audits = (passed \X {status}) \cap Audits])
    BY <1>3 DEF BulkApprove
  <2> DEFINE S == {o \in T : Acceptable(o, u, status, None, TRUE)}
             d == Decision(S, u, status, None, control)
             A == (S \X {status}) \cap Audits
             r == [d EXCEPT !.audits = A]
  <2>2. S \in SUBSET Obligations /\ \A o \in S : Acceptable(o, u, status, None, TRUE)
    OBVIOUS
  <2>3. A \in SUBSET Audits /\ A \in SUBSET RecordsOf(S, status)
    BY DEF RecordsOf
  <2>4. Submit(w, r)
    BY <2>1
  <2> HIDE DEF S, A
  <2>5. Decided(d, S, u, status, None, control)
    BY <2>2, DecisionTyped
  <2>6. d \in AnyOrder
    BY <2>5 DEF Decided
  <2>7. /\ r \in AnyOrder
        /\ r.by = d.by /\ r.rows = d.rows /\ r.rules = d.rules /\ r.masters = d.masters
        /\ r.waives = d.waives /\ r.step = d.step /\ r.inserts = d.inserts
        /\ r.newMaps = d.newMaps /\ r.oldMaps = d.oldMaps /\ r.audits = A
    <3> HIDE DEF d
    <3> QED
      BY <2>3, <2>6, AuditsFields
  <2> HIDE DEF r
  <2>8. RequestOK(r, obligations, mappings, controls, waived, settled, policies)
    <3>1. AllAcceptable(S, u, status, None, TRUE)
      BY <2>2 DEF AllAcceptable
    <3>2. SameDecision(r, d, A)
      BY <2>7 DEF SameDecision
    <3> QED
      BY <2>2, <2>3, <3>1, <3>2, DecisionOK
  <2> QED
    BY <2>4, <2>8, SubmitStep
<1> QED
  BY <1>1, <1>2, <1>3

LEMMA OneRow ==
  ASSUME NEW S \in SUBSET Obligations, NEW rows, rows \in [S -> RowWrite]
  PROVE  rows \in RowWrites
BY DEF RowWrites

LEMMA WorkflowStep ==
  ASSUME IInv, NEW w \in Workers, WorkflowApprove(w)
  PROVE  IInv'
<1>1. PICK o \in Obligations, u \in Users :
        /\ Recorded(o)
        /\ FourEyesCheck(o, u)
        /\ Submit(w, [Empty EXCEPT
             !.by = u, !.waives = {"link", "rule"},
             !.rows = [q \in {o} |-> [status |-> Changed(obligations[o].status, "approved"),
                                      linked |-> Same]]])
  BY DEF WorkflowApprove
<1> DEFINE e == Empty
           row == [status |-> Changed(obligations[o].status, "approved"), linked |-> Same]
           rows == [q \in {o} |-> row]
           r == [e EXCEPT !.by = u, !.waives = {"link", "rule"}, !.rows = rows]
<1>2. Submit(w, r)
  BY <1>1
<1>3. row \in RowWrite /\ row.linked = Same
      /\ (row.status = "approved" => obligations[o].status # "approved")
      /\ row.status \in {"approved", Same}
  BY DEF RowWrite, Changed, Statuses, Same
<1> HIDE DEF row
<1>4. rows \in [{o} -> RowWrite] /\ {o} \in SUBSET Obligations /\ DOMAIN rows = {o} /\ rows[o] = row
  BY <1>3
<1>5. rows \in RowWrites
  BY <1>4, OneRow
<1>6. /\ e \in AnyOrder /\ e.inserts = FALSE /\ e.newMaps = {} /\ e.oldMaps = {}
      /\ e.masters = <<>> /\ e.audits = {}
  BY EmptyFields
<1> HIDE DEF e, rows
<1>7. r \in AnyOrder
  BY <1>5, <1>6 DEF AnyOrder
<1>8. r.by = u /\ r.waives = {"link", "rule"} /\ r.rows = rows
  BY <1>6 DEF AnyOrder
<1>9. r.inserts = e.inserts /\ r.masters = e.masters /\ r.audits = e.audits
  BY <1>6 DEF AnyOrder
<1> HIDE DEF r
<1>10. RequestTyped(r)
  BY <1>7, AnyOrderTyped
<1>11. MastersOK(r.masters)
  BY <1>6, <1>9, NoMasters
<1>12. r.rows[o].status = "approved" => u # obligations[o].createdBy /\ obligations[o].status # "absent"
  BY <1>1, <1>3, <1>4, <1>8 DEF FourEyesCheck, Recorded
<1>13. RequestOK(r, obligations, mappings, controls, waived, settled, policies)
  BY <1>4, <1>6, <1>8, <1>9, <1>10, <1>11, <1>12 DEF RequestOK
<1> QED
  BY <1>2, <1>13, SubmitStep

LEMMA ExtractStep ==
  ASSUME IInv, NEW w \in Workers, ExtractObligation(w)
  PROVE  IInv'
<1>1. PICK o \in Obligations, u \in Users, p \in Policies :
        Submit(w, [Empty EXCEPT
          !.by = u, !.inserts = ~Recorded(o),
          !.waives = IF Recorded(o) THEN {"link"} ELSE {},
          !.rows = [q \in {o} |->
            [status |-> IF Recorded(o) THEN Same ELSE "draft", linked |-> p]]])
  BY DEF ExtractObligation
<1> DEFINE e == Empty
           row == [status |-> IF Recorded(o) THEN Same ELSE "draft", linked |-> p]
           rows == [q \in {o} |-> row]
           fresh == ~Recorded(o)
           waives == IF Recorded(o) THEN {"link"} ELSE {}
           r == [e EXCEPT !.by = u, !.inserts = fresh, !.waives = waives, !.rows = rows]
<1>2. Submit(w, r)
  BY <1>1
<1>3. row \in RowWrite /\ row.status # "approved"
  BY DEF RowWrite, Statuses, Same
<1>4. fresh \in BOOLEAN /\ waives \in SUBSET {"link", "rule"} /\ (fresh \/ "link" \in waives)
  BY DEF Recorded
<1> HIDE DEF row, fresh, waives
<1>5. rows \in [{o} -> RowWrite] /\ {o} \in SUBSET Obligations /\ DOMAIN rows = {o} /\ rows[o] = row
  BY <1>3
<1>6. rows \in RowWrites
  BY <1>5, OneRow
<1>7. e \in AnyOrder /\ e.masters = <<>> /\ e.audits = {}
  BY EmptyFields
<1> HIDE DEF e, rows
<1>8. r \in AnyOrder
  BY <1>4, <1>6, <1>7 DEF AnyOrder
<1>9. r.waives = waives /\ r.rows = rows /\ r.inserts = fresh
  BY <1>7 DEF AnyOrder
<1>10. r.masters = e.masters /\ r.audits = e.audits
  BY <1>7 DEF AnyOrder
<1> HIDE DEF r
<1>11. RequestTyped(r)
  BY <1>8, AnyOrderTyped
<1>12. MastersOK(r.masters)
  BY <1>7, <1>10, NoMasters
<1>13. RequestOK(r, obligations, mappings, controls, waived, settled, policies)
  BY <1>3, <1>4, <1>5, <1>7, <1>9, <1>10, <1>11, <1>12 DEF RequestOK
<1> QED
  BY <1>2, <1>13, SubmitStep

LEMMA LinkStep ==
  ASSUME IInv, NEW w \in Workers, LinkObligation(w) \/ AutoMap(w)
  PROVE  IInv'
<1>1. CASE LinkObligation(w)
  <2>1. PICK o \in Obligations, p \in Policies :
          Submit(w, Upserting([Empty EXCEPT !.rows = [q \in {o} |->
                 [status |-> Same, linked |-> Changed(obligations[o].linked, p)]]], {<<o, p>>}))
    BY <1>1 DEF LinkObligation
  <2> DEFINE e == Empty
             row == [status |-> Same, linked |-> Changed(obligations[o].linked, p)]
             rows == [q \in {o} |-> row]
             x == [e EXCEPT !.rows = rows]
             r == Upserting(x, {<<o, p>>})
  <2>2. Submit(w, r)
    BY <2>1
  <2>3. row \in RowWrite /\ row.status # "approved" /\ row.linked \in {p, Same}
    BY DEF RowWrite, Changed, Same
  <2>4. {<<o, p>>} \in SUBSET Pairs
    BY DEF Pairs
  <2> HIDE DEF row
  <2>5. rows \in [{o} -> RowWrite] /\ {o} \in SUBSET Obligations /\ DOMAIN rows = {o} /\ rows[o] = row
    BY <2>3
  <2>6. rows \in RowWrites
    BY <2>5, OneRow
  <2>7. e \in AnyOrder /\ e.masters = <<>> /\ e.audits = {}
    BY EmptyFields
  <2> HIDE DEF e, rows
  <2>8. x \in AnyOrder
    BY <2>6, <2>7 DEF AnyOrder
  <2>9. x.rows = rows /\ x.masters = e.masters /\ x.audits = e.audits
    BY <2>7 DEF AnyOrder
  <2> HIDE DEF x
  <2>10. /\ r \in AnyOrder /\ r.rows = x.rows /\ r.masters = x.masters /\ r.audits = x.audits
         /\ r.newMaps = {<<o, p>>} \ mappings /\ r.oldMaps = {<<o, p>>} \cap mappings
    BY <2>4, <2>8, UpsertingFields
  <2> HIDE DEF r
  <2>11. RequestTyped(r)
    BY <2>10, AnyOrderTyped
  <2>12. MastersOK(r.masters)
    BY <2>7, <2>9, <2>10, NoMasters
  <2>13. <<o, p>> \in r.newMaps \cup r.oldMaps
    BY <2>10
  <2>14. RequestOK(r, obligations, mappings, controls, waived, settled, policies)
    BY <2>3, <2>5, <2>7, <2>9, <2>10, <2>11, <2>12, <2>13 DEF RequestOK
  <2> QED
    BY <2>2, <2>14, SubmitStep
<1>2. CASE AutoMap(w)
  <2>1. PICK o \in Obligations, p \in Policies : Submit(w, Upserting(Empty, {<<o, p>>}))
    BY <1>2 DEF AutoMap
  <2> DEFINE r == Upserting(Empty, {<<o, p>>})
  <2>2. {<<o, p>>} \in SUBSET Pairs
    BY DEF Pairs
  <2>3. r \in AnyOrder /\ r.rows = <<>> /\ r.masters = <<>> /\ r.audits = {}
    BY <2>2, EmptyFields, UpsertingFields
  <2>4. Submit(w, r)
    BY <2>1
  <2> HIDE DEF r
  <2>5. RequestTyped(r) /\ MastersOK(r.masters)
    BY <2>3, AnyOrderTyped, NoMasters
  <2>6. DOMAIN r.rows = {}
    BY <2>3
  <2>7. RequestOK(r, obligations, mappings, controls, waived, settled, policies)
    BY <2>3, <2>5, <2>6 DEF RequestOK
  <2> QED
    BY <2>4, <2>7, SubmitStep
<1> QED
  BY <1>1, <1>2

LEMMA MarkStep ==
  ASSUME IInv, NEW w \in Workers, MarkForReview(w)
  PROVE  IInv'
<1> DEFINE marked == {o \in Obligations : obligations[o].status = "approved"}
           e == Empty
           row == [status |-> "in_review", linked |-> Same]
           rows == [o \in marked |-> row]
           r == [e EXCEPT !.rows = rows]
<1>1. Submit(w, r)
  BY DEF MarkForReview
<1>2. row \in RowWrite /\ row.status # "approved" /\ row.linked = Same
  BY DEF RowWrite, Statuses
<1> HIDE DEF row
<1>3. /\ rows \in [marked -> RowWrite] /\ marked \in SUBSET Obligations /\ DOMAIN rows = marked
      /\ \A o \in marked : rows[o] = row
  BY <1>2
<1>4. rows \in RowWrites
  BY <1>3, OneRow
<1>5. e \in AnyOrder /\ e.masters = <<>> /\ e.audits = {}
  BY EmptyFields
<1> HIDE DEF e, rows, marked
<1>6. r \in AnyOrder
  BY <1>4, <1>5 DEF AnyOrder
<1>7. r.rows = rows /\ r.masters = e.masters /\ r.audits = e.audits
  BY <1>5 DEF AnyOrder
<1> HIDE DEF r
<1>8. RequestTyped(r)
  BY <1>6, AnyOrderTyped
<1>9. MastersOK(r.masters)
  BY <1>5, <1>7, NoMasters
<1>10. RequestOK(r, obligations, mappings, controls, waived, settled, policies)
  BY <1>2, <1>3, <1>5, <1>7, <1>8, <1>9 DEF RequestOK
<1> QED
  BY <1>1, <1>10, SubmitStep

-----------------------------------------------------------------------------
(* What a commit makes of the rows.                                        *)

LEMMA RegisterStep ==
  ASSUME IInv, LibraryInv', Progress, DOMAIN order' = Workers, trail' \subseteq settled',
         RowsOK(obligations', mappings', controls', waived', settled', signer', policies'),
         \A v \in Workers :
           \/ order'[v] = order[v]
           \/ OrderOK(order'[v], obligations', mappings', controls', waived', settled', policies')
  PROVE  IInv'
<1>1. \A v \in Workers :
        OrderOK(order'[v], obligations', mappings', controls', waived', settled', policies')
  BY OrdersKept DEF IInv
<1>2. RegisterInv'
  BY <1>1 DEF RegisterInv
<1> QED
  BY <1>2 DEF IInv

\* One obligation, before and after a commit.
LEMMA MergedFacts ==
  ASSUME RegisterInv, NEW r, RequestTyped(r), NEW o \in Obligations
  PROVE  /\ After(r)[o] \in Obligation
         /\ o \notin DOMAIN r.rows => After(r)[o] = obligations[o]
         /\ o \in DOMAIN r.rows =>
              /\ r.rows[o] \in RowWrite
              /\ After(r)[o].status =
                   IF r.rows[o].status = Same THEN obligations[o].status ELSE r.rows[o].status
              /\ After(r)[o].linked =
                   IF r.rows[o].linked = Same THEN obligations[o].linked ELSE r.rows[o].linked
              /\ After(r)[o].createdBy = IF r.inserts THEN r.by ELSE obligations[o].createdBy
<1>1. obligations[o] \in Obligation
  BY DEF RegisterInv, RowsOK
<1>2. /\ r.by \in Users \cup {None} /\ DOMAIN r.rows \subseteq Obligations
      /\ o \in DOMAIN r.rows => r.rows[o] \in RowWrite
  BY TypedFacts
<1>3. CASE o \notin DOMAIN r.rows
  BY <1>1, <1>3 DEF After
<1>4. CASE o \in DOMAIN r.rows
  <2> DEFINE row == r.rows[o]
             by == r.by
  <2>1. After(r)[o] = Merged(obligations[o], row, by, r.inserts)
    BY <1>4 DEF After
  <2>2. row \in RowWrite /\ by \in Users \cup {None}
    BY <1>2, <1>4
  <2> HIDE DEF row, by
  <2>3. Merged(obligations[o], row, by, r.inserts) \in Obligation
    BY <1>1, <2>2 DEF Merged, Obligation, RowWrite
  <2>4. /\ Merged(obligations[o], row, by, r.inserts).status =
             IF row.status = Same THEN obligations[o].status ELSE row.status
        /\ Merged(obligations[o], row, by, r.inserts).linked =
             IF row.linked = Same THEN obligations[o].linked ELSE row.linked
        /\ Merged(obligations[o], row, by, r.inserts).createdBy =
             IF r.inserts THEN by ELSE obligations[o].createdBy
    BY DEF Merged
  <2> QED
    BY <1>4, <2>1, <2>2, <2>3, <2>4 DEF row, by
<1> QED
  BY <1>3, <1>4

\* The state a commit of the request r leaves, as CommitOrder writes it.
Commits(r) ==
  /\ Committable(r)
  /\ policies' = Applied(r.masters)
  /\ obligations' = After(r)
  /\ mappings' = mappings \cup r.newMaps
  /\ controls' = controls \cup r.rules
  /\ \A o \in Obligations :
       signer'[o] = IF o \in DOMAIN r.rows /\ r.rows[o].status = "approved" THEN r.by ELSE signer[o]
  /\ signer' = [o \in Obligations |-> signer'[o]]
  /\ settled' = settled \cup {v \in Audits : v[1] \in DOMAIN r.rows /\ r.rows[v[1]].status = v[2]}
  /\ waived' \subseteq Obligations \X {"link", "rule"}
  /\ \A o \in Obligations :
       /\ <<o, "link">> \in waived =>
            \/ <<o, "link">> \in waived'
            \/ <<o, obligations'[o].linked>> \in r.newMaps \cup r.oldMaps
       /\ <<o, "rule">> \in waived => <<o, "rule">> \in waived'
       /\ o \in DOMAIN r.rows /\ (r.rows[o].status = "approved" \/ r.rows[o].linked # Same)
            => \A x \in r.waives : <<o, x>> \in waived'

LEMMA CommitOrderFacts ==
  ASSUME IInv, NEW w \in Workers, CommitOrder(w)
  PROVE  /\ RequestOK(order[w], obligations, mappings, controls, waived, settled, policies)
         /\ Commits(order[w])
         /\ order' = [order EXCEPT ![w] =
              IF order[w].audits = {} THEN Idle
              ELSE [step |-> "committed", audits |-> order[w].audits]]
         /\ UNCHANGED <<doors, jobs, work, reworked, rewritten, trail>>
<1> DEFINE r == order[w]
           approved == {o \in DOMAIN r.rows : r.rows[o].status = "approved"}
           linked == {o \in DOMAIN r.rows : r.rows[o].linked # Same}
           backed == {o \in Obligations : <<o, After(r)[o].linked>> \in r.newMaps \cup r.oldMaps}
<1>1. /\ r.step = "ready" /\ Committable(r) /\ policies' = Applied(r.masters)
      /\ obligations' = After(r) /\ mappings' = mappings \cup r.newMaps
      /\ controls' = controls \cup r.rules
      /\ signer' = [o \in Obligations |-> IF o \in approved THEN r.by ELSE signer[o]]
      /\ settled' = settled \cup {v \in Audits : v[1] \in DOMAIN r.rows /\ r.rows[v[1]].status = v[2]}
      /\ waived' = (waived \ (backed \X {"link"})) \cup ((approved \cup linked) \X r.waives)
  BY DEF CommitOrder
<1>2. RequestOK(r, obligations, mappings, controls, waived, settled, policies)
  BY <1>1 DEF IInv, RegisterInv, OrderOK, Idle
<1>3. waived \subseteq Obligations \X {"link", "rule"}
  BY DEF IInv, RegisterInv, RowsOK
<1> HIDE DEF r
<1>4. DOMAIN r.rows \subseteq Obligations /\ r.waives \subseteq {"link", "rule"}
  BY <1>2, TypedFacts DEF RequestOK
<1>5. waived' \subseteq Obligations \X {"link", "rule"}
  BY <1>1, <1>3, <1>4
<1>6. ASSUME NEW o \in Obligations
      PROVE  /\ <<o, "link">> \in waived =>
                  \/ <<o, "link">> \in waived'
                  \/ <<o, obligations'[o].linked>> \in r.newMaps \cup r.oldMaps
             /\ <<o, "rule">> \in waived => <<o, "rule">> \in waived'
             /\ o \in DOMAIN r.rows /\ (r.rows[o].status = "approved" \/ r.rows[o].linked # Same)
                  => \A x \in r.waives : <<o, x>> \in waived'
  BY <1>1
<1>7. /\ \A o \in Obligations :
           signer'[o] = IF o \in DOMAIN r.rows /\ r.rows[o].status = "approved" THEN r.by ELSE signer[o]
      /\ signer' = [o \in Obligations |-> signer'[o]]
  BY <1>1
<1>8. Commits(r)
  BY <1>1, <1>5, <1>6, <1>7 DEF Commits
<1>9. /\ order' = [order EXCEPT ![w] =
           IF order[w].audits = {} THEN Idle
           ELSE [step |-> "committed", audits |-> order[w].audits]]
      /\ UNCHANGED <<doors, jobs, work, reworked, rewritten, trail>>
  BY DEF CommitOrder
<1> QED
  BY <1>2, <1>8, <1>9 DEF r

\* A policy whose mapping the commit writes is there after it, and was not deleted before.
LEMMA CommittedMaps ==
  ASSUME IInv, NEW r, Commits(r),
         RequestOK(r, obligations, mappings, controls, waived, settled, policies),
         NEW m \in r.newMaps \cup r.oldMaps
  PROVE  /\ m \in mappings' /\ m[2] \in Policies /\ policies[m[2]].status # "deleted"
         /\ m \in r.newMaps => policies'[m[2]].status \notin {"absent", "deleted"}
<1>1. /\ r.newMaps \subseteq Pairs /\ r.oldMaps \subseteq Pairs /\ MastersOK(r.masters)
  BY TypedFacts DEF RequestOK
<1>2. r.oldMaps \subseteq mappings /\ Applies(r.masters) /\ policies' = Applied(r.masters)
  BY DEF Commits, Committable
<1>3. m[2] \in Policies /\ m[2] # Same
  BY <1>1, RegisterAssumption DEF Pairs
<1>4. CASE m \in r.newMaps
  <2>1. Applied(r.masters)[m[2]].status \notin {"absent", "deleted"}
    BY <1>3, <1>4 DEF Commits, Committable
  <2>2. policies[m[2]].status = "deleted" => Applied(r.masters)[m[2]].status = "deleted"
    BY <1>1, <1>2, <1>3, AppliedOK DEF IInv, MastersOK
  <2> QED
    BY <1>2, <1>3, <1>4, <2>1, <2>2 DEF Commits
<1>5. CASE m \notin r.newMaps
  BY <1>2, <1>3, <1>5 DEF Commits, IInv, RegisterInv, RowsOK
<1> QED
  BY <1>4, <1>5

\* A row whose new link is mapped by the request survives.
LEMMA BackedLink ==
  ASSUME IInv, NEW r, Commits(r),
         RequestOK(r, obligations, mappings, controls, waived, settled, policies),
         NEW o \in Obligations, <<o, obligations'[o].linked>> \in r.newMaps \cup r.oldMaps
  PROVE  LinkSound(o, obligations', mappings', waived')
<1>1. <<o, obligations'[o].linked>> \in mappings' /\ obligations'[o].linked \in Policies
  BY CommittedMaps
<1> QED
  BY <1>1, LibraryAssumption DEF LinkSound

\* A row that is written, if it was recorded before.
LEMMA WrittenLink ==
  ASSUME IInv, NEW r, Commits(r),
         RequestOK(r, obligations, mappings, controls, waived, settled, policies),
         NEW o \in Obligations, Recorded(o), o \in DOMAIN r.rows, r.rows[o].linked # Same
  PROVE  LinkSound(o, obligations', mappings', waived')
<1>1. ~r.inserts
  BY DEF Commits, Committable
<1>2. obligations'[o].linked = r.rows[o].linked
  BY MergedFacts DEF RequestOK, Commits, IInv
<1>3. CASE "link" \in r.waives
  BY <1>3 DEF Commits, LinkSound
<1>4. CASE <<o, r.rows[o].linked>> \in r.newMaps \cup r.oldMaps
  BY <1>2, <1>4, BackedLink
<1> QED
  BY <1>1, <1>3, <1>4 DEF RequestOK

LEMMA CommitProgress ==
  ASSUME IInv, NEW r, Commits(r),
         RequestOK(r, obligations, mappings, controls, waived, settled, policies)
  PROVE  Progress
<1>1. settled \subseteq settled' /\ controls \subseteq controls' /\ mappings \subseteq mappings'
  BY DEF Commits
<1>2. \A p \in Policies : policies[p].status = "deleted" => policies'[p].status = "deleted"
  BY AppliedOK DEF Commits, Committable, RequestOK, MastersOK, IInv
<1>3. ASSUME NEW o \in Obligations, Recorded(o)
      PROVE  /\ obligations'[o].status # "absent"
             /\ obligations'[o].createdBy = obligations[o].createdBy
             /\ LinkSound(o, obligations, mappings, waived)
                  => LinkSound(o, obligations', mappings', waived')
             /\ \A p \in Policies : obligations[o].linked = p =>
                  \/ obligations'[o].linked = p
                  \/ LinkSound(o, obligations', mappings', waived')
  <2>1. CASE o \notin DOMAIN r.rows
    <3>1. obligations'[o] = obligations[o]
      BY <2>1, MergedFacts DEF RequestOK, Commits, IInv
    <3>2. LinkSound(o, obligations, mappings, waived)
            => LinkSound(o, obligations', mappings', waived')
      BY <1>1, <3>1, BackedLink DEF LinkSound, Commits
    <3> QED
      BY <1>3, <3>1, <3>2 DEF Recorded
  <2>2. CASE o \in DOMAIN r.rows
    <3>1. ~r.inserts
      BY <1>3, <2>2 DEF Commits, Committable
    <3>2. /\ r.rows[o] \in RowWrite
          /\ obligations'[o].status =
               IF r.rows[o].status = Same THEN obligations[o].status ELSE r.rows[o].status
          /\ obligations'[o].linked =
               IF r.rows[o].linked = Same THEN obligations[o].linked ELSE r.rows[o].linked
          /\ obligations'[o].createdBy = obligations[o].createdBy
      BY <2>2, <3>1, MergedFacts DEF RequestOK, Commits, IInv
    <3>3. obligations'[o].status # "absent"
      BY <1>3, <3>2 DEF Recorded, RowWrite, Statuses, Same
    <3>4. CASE r.rows[o].linked # Same
      BY <1>3, <2>2, <3>2, <3>3, <3>4, WrittenLink
    <3>5. CASE r.rows[o].linked = Same
      <4>1. obligations'[o].linked = obligations[o].linked
        BY <3>2, <3>5
      <4>2. LinkSound(o, obligations, mappings, waived)
              => LinkSound(o, obligations', mappings', waived')
        BY <1>1, <4>1, BackedLink DEF LinkSound, Commits
      <4> QED
        BY <3>2, <3>3, <4>1, <4>2
    <3> QED
      BY <3>4, <3>5
  <2> QED
    BY <2>1, <2>2
<1> QED
  BY <1>1, <1>2, <1>3 DEF Progress

\* An obligation that a commit approves.
LEMMA ApprovedRow ==
  ASSUME IInv, NEW r, Commits(r),
         RequestOK(r, obligations, mappings, controls, waived, settled, policies),
         NEW o \in DOMAIN r.rows, o \in Obligations, r.rows[o].status = "approved"
  PROVE  /\ signer'[o] # None /\ signer'[o] # obligations'[o].createdBy
         /\ LinkSound(o, obligations', mappings', waived')
         /\ <<o, "rule">> \in waived' \/ \E c \in controls' : c[1] = o
<1>1. /\ ~r.inserts /\ r.by \in Users
      /\ Recorded(o) /\ r.by # obligations[o].createdBy
      /\ "rule" \in r.waives \/ \E c \in controls \cup r.rules : c[1] = o
      /\ \/ r.rows[o].linked # Same \/ "link" \in r.waives
         \/ LinkSound(o, obligations, mappings, waived)
         \/ \E p \in Policies :
              /\ <<o, p>> \in r.newMaps \cup r.oldMaps
              /\ obligations[o].linked = p \/ policies[p].status = "deleted"
  BY DEF RequestOK, Recorded
<1>2. signer'[o] = r.by /\ controls' = controls \cup r.rules
      /\ \A x \in r.waives : <<o, x>> \in waived'
  BY DEF Commits
<1>3. obligations'[o].createdBy = obligations[o].createdBy
      /\ (LinkSound(o, obligations, mappings, waived) => LinkSound(o, obligations', mappings', waived'))
  BY <1>1, CommitProgress DEF Progress
<1>4. signer'[o] # None /\ signer'[o] # obligations'[o].createdBy
  BY <1>1, <1>2, <1>3, LibraryAssumption
<1>5. <<o, "rule">> \in waived' \/ \E c \in controls' : c[1] = o
  BY <1>1, <1>2
<1>6. ASSUME r.rows[o].linked # Same
      PROVE  LinkSound(o, obligations', mappings', waived')
  BY <1>1, <1>6, WrittenLink
<1>7. ASSUME "link" \in r.waives
      PROVE  LinkSound(o, obligations', mappings', waived')
  BY <1>2, <1>7 DEF LinkSound
<1>8. ASSUME r.rows[o].linked = Same,
             \E p \in Policies :
               /\ <<o, p>> \in r.newMaps \cup r.oldMaps
               /\ obligations[o].linked = p \/ policies[p].status = "deleted"
      PROVE  LinkSound(o, obligations', mappings', waived')
  <2>1. PICK p \in Policies :
          /\ <<o, p>> \in r.newMaps \cup r.oldMaps
          /\ obligations[o].linked = p \/ policies[p].status = "deleted"
    BY <1>8
  <2>2. policies[p].status # "deleted"
    BY <2>1, CommittedMaps
  <2>3. obligations'[o].linked = obligations[o].linked
    BY <1>8, MergedFacts DEF RequestOK, Commits, IInv
  <2>4. <<o, obligations'[o].linked>> \in r.newMaps \cup r.oldMaps
    BY <2>1, <2>2, <2>3
  <2> QED
    BY <2>4, BackedLink
<1>9. LinkSound(o, obligations', mappings', waived')
  BY <1>1, <1>3, <1>6, <1>7, <1>8
<1> QED
  BY <1>4, <1>5, <1>9

LEMMA CommitRows ==
  ASSUME IInv, NEW r, Commits(r),
         RequestOK(r, obligations, mappings, controls, waived, settled, policies)
  PROVE  RowsOK(obligations', mappings', controls', waived', settled', signer', policies')
<1>1. RequestTyped(r) /\ MastersOK(r.masters) /\ RegisterInv /\ LibraryInv
  BY DEF RequestOK, IInv
<1>2. /\ r.by \in Users \cup {None} /\ DOMAIN r.rows \subseteq Obligations
      /\ r.newMaps \subseteq Pairs /\ r.rules \subseteq Pairs
  BY <1>1, TypedFacts
<1>3. Progress
  BY CommitProgress
<1>4. obligations' \in [Obligations -> Obligation]
  <2>1. \A o \in Obligations : After(r)[o] \in Obligation
    BY <1>1, MergedFacts
  <2>2. After(r) = [o \in Obligations |-> After(r)[o]]
    BY DEF After
  <2> QED
    BY <2>1, <2>2 DEF Commits
<1>5. /\ mappings' \subseteq Pairs
      /\ controls' \subseteq Obligations \X (Policies \cup {None})
      /\ waived' \subseteq Obligations \X {"link", "rule"}
      /\ settled' \subseteq Audits
  BY <1>2 DEF Commits, IInv, RegisterInv, RowsOK, Pairs
<1>6. signer' \in [Obligations -> Users \cup {None}]
  <2>1. \A o \in Obligations : signer'[o] \in Users \cup {None}
    BY <1>2 DEF Commits, IInv, RegisterInv, RowsOK
  <2>2. signer' = [o \in Obligations |-> signer'[o]]
    BY DEF Commits
  <2> QED
    BY <2>1, <2>2
<1>7. ASSUME NEW m \in mappings'
      PROVE  policies'[m[2]].status \notin {"absent", "deleted"}
  <2>1. CASE m \in r.newMaps
    BY <2>1, CommittedMaps
  <2>2. CASE m \in mappings
    <3>1. m[2] \in Policies /\ Exists(m[2])
      BY <2>2 DEF IInv, RegisterInv, RowsOK, Pairs, Exists
    <3> QED
      BY <1>1, <3>1, AppliedOK DEF Commits, Committable, MastersOK
  <2> QED
    BY <2>1, <2>2 DEF Commits
<1>8. ASSUME NEW o \in Obligations
      PROVE  \/ o \in DOMAIN r.rows /\ r.rows[o].status # Same
                /\ obligations'[o].status = r.rows[o].status
             \/ o \notin DOMAIN r.rows /\ obligations'[o] = obligations[o]
             \/ o \in DOMAIN r.rows /\ r.rows[o].status = Same
                /\ obligations'[o].status = obligations[o].status
  BY <1>1, MergedFacts DEF Commits
<1>9. ASSUME NEW o \in Obligations, obligations'[o].status \in Verdicts
      PROVE  <<o, obligations'[o].status>> \in settled'
  <2>1. CASE o \in DOMAIN r.rows /\ r.rows[o].status # Same
             /\ obligations'[o].status = r.rows[o].status
    <3> DEFINE v == <<o, obligations'[o].status>>
    <3>1. v \in Audits /\ v[1] = o /\ v[2] = obligations'[o].status
      BY <1>9 DEF Audits
    <3> QED
      BY <2>1, <3>1 DEF Commits
  <2>2. CASE obligations'[o].status = obligations[o].status
    BY <1>9, <2>2 DEF Commits, IInv, RegisterInv, RowsOK
  <2> QED
    BY <1>8, <2>1, <2>2
<1>10. ASSUME NEW o \in Obligations, obligations'[o].status = "approved"
       PROVE  /\ signer'[o] # None /\ signer'[o] # obligations'[o].createdBy
              /\ LinkSound(o, obligations', mappings', waived')
              /\ <<o, "rule">> \in waived' \/ \E c \in controls' : c[1] = o
  <2>1. CASE o \in DOMAIN r.rows /\ r.rows[o].status # Same
             /\ obligations'[o].status = r.rows[o].status
    BY <1>10, <2>1, ApprovedRow
  <2>2. CASE obligations'[o].status = obligations[o].status
             /\ ~(o \in DOMAIN r.rows /\ r.rows[o].status = "approved")
    <3>1. /\ Recorded(o) /\ signer[o] # None /\ signer[o] # obligations[o].createdBy
          /\ LinkSound(o, obligations, mappings, waived)
          /\ <<o, "rule">> \in waived \/ \E c \in controls : c[1] = o
      BY <1>10, <2>2 DEF IInv, RegisterInv, RowsOK, Recorded
    <3>2. /\ obligations'[o].createdBy = obligations[o].createdBy
          /\ LinkSound(o, obligations', mappings', waived')
          /\ controls \subseteq controls'
      BY <1>3, <3>1 DEF Progress
    <3>3. signer'[o] = signer[o] /\ (<<o, "rule">> \in waived => <<o, "rule">> \in waived')
      BY <2>2 DEF Commits
    <3> QED
      BY <3>1, <3>2, <3>3
  <2> QED
    BY <1>8, <2>1, <2>2 DEF Same
<1> QED
  BY <1>4, <1>5, <1>6, <1>7, <1>9, <1>10 DEF RowsOK

LEMMA CommitOrderStep ==
  ASSUME IInv, NEW w \in Workers, CommitOrder(w)
  PROVE  IInv'
<1> DEFINE r == order[w]
<1>1. /\ RequestOK(r, obligations, mappings, controls, waived, settled, policies)
      /\ Commits(r)
      /\ order' = [order EXCEPT ![w] =
           IF r.audits = {} THEN Idle ELSE [step |-> "committed", audits |-> r.audits]]
      /\ UNCHANGED <<doors, jobs, work, reworked, rewritten, trail>>
  BY CommitOrderFacts
<1>2. /\ DOMAIN order' = Workers /\ \A v \in Workers \ {w} : order'[v] = order[v]
      /\ order'[w] = IF r.audits = {} THEN Idle ELSE [step |-> "committed", audits |-> r.audits]
  BY <1>1 DEF IInv, RegisterInv
<1> HIDE DEF r
<1>3. LibraryInv'
  <2>1. MastersOK(r.masters) /\ Applies(r.masters) /\ policies' = Applied(r.masters)
    BY <1>1 DEF RequestOK, Commits, Committable
  <2> QED
    BY <1>1, <2>1, AppliedStep, MastersFaithful DEF IInv, MastersOK
<1>4. Progress
  BY <1>1, CommitProgress
<1>5. RowsOK(obligations', mappings', controls', waived', settled', signer', policies')
  BY <1>1, CommitRows
<1>6. r.audits \subseteq Audits /\ r.audits \subseteq settled'
  <2>1. r.audits \subseteq Audits
    BY <1>1, TypedFacts DEF RequestOK
  <2>2. ASSUME NEW a \in r.audits PROVE a \in settled'
    BY <1>1, <2>1 DEF RequestOK, Commits
  <2> QED
    BY <2>1, <2>2
<1>7. OrderOK(order'[w], obligations', mappings', controls', waived', settled', policies')
  <2>1. CASE r.audits = {}
    BY <1>2, <2>1 DEF OrderOK
  <2>2. CASE r.audits # {}
    BY <1>2, <1>6, <2>2 DEF OrderOK
  <2> QED
    BY <2>1, <2>2
<1>8. trail' \subseteq settled'
  BY <1>1, <1>4 DEF Progress, IInv, RegisterInv
<1> QED
  BY <1>2, <1>3, <1>4, <1>5, <1>7, <1>8, RegisterStep

LEMMA EmitStep ==
  ASSUME IInv, NEW w \in Workers, EmitSideEffects(w)
  PROVE  IInv'
<1>1. PICK a \in order[w].audits, kept \in BOOLEAN :
        /\ trail' = IF kept THEN trail \cup {a} ELSE trail
        /\ order' = [order EXCEPT ![w] =
             IF order[w].audits = {a} THEN Idle
             ELSE [step |-> "committed", audits |-> order[w].audits \ {a}]]
  BY DEF EmitSideEffects
<1>2. /\ order[w].step = "committed"
      /\ UNCHANGED <<doors, libraryVars, obligations, mappings, controls, signer, settled, waived>>
  BY DEF EmitSideEffects
<1>3. /\ order[w] \in [step : {"committed"}, audits : SUBSET Audits]
      /\ order[w].audits \subseteq settled /\ order[w].audits \subseteq Audits
  <2>1. OrderOK(order[w], obligations, mappings, controls, waived, settled, policies)
    BY DEF IInv, RegisterInv
  <2> QED
    BY <1>2, <2>1 DEF OrderOK, Idle
<1>4. /\ DOMAIN order' = Workers /\ \A v \in Workers \ {w} : order'[v] = order[v]
      /\ \/ order'[w] = Idle
         \/ order'[w] = [step |-> "committed", audits |-> order[w].audits \ {a}]
  BY <1>1 DEF IInv, RegisterInv
<1>5. OrderOK(order'[w], obligations', mappings', controls', waived', settled', policies')
  BY <1>2, <1>3, <1>4 DEF OrderOK
<1>6. policies' = policies
  BY <1>2 DEF libraryVars
<1>7. Progress
  BY <1>2, <1>6, StillProgress
<1>8. RowsOK(obligations', mappings', controls', waived', settled', signer', policies')
  BY <1>2, <1>6 DEF IInv, RegisterInv
<1>9. trail' \subseteq settled'
  BY <1>1, <1>2, <1>3 DEF IInv, RegisterInv
<1>10. LibraryInv'
  BY <1>2, LibraryKept DEF IInv
<1> QED
  BY <1>4, <1>5, <1>7, <1>8, <1>9, <1>10, RegisterStep

LEMMA AbortOrderStep ==
  ASSUME IInv, NEW w \in Workers, AbortOrder(w)
  PROVE  IInv'
<1>1. /\ order' = [order EXCEPT ![w] = Idle]
      /\ UNCHANGED <<doors, libraryVars, obligations, mappings, controls, trail,
                     signer, settled, waived>>
  BY DEF AbortOrder
<1>2. /\ DOMAIN order' = Workers /\ order'[w] = Idle
      /\ \A v \in Workers \ {w} : order'[v] = order[v]
  BY <1>1 DEF IInv, RegisterInv
<1>3. OrderOK(order'[w], obligations', mappings', controls', waived', settled', policies')
  BY <1>2 DEF OrderOK
<1>4. policies' = policies
  BY <1>1 DEF libraryVars
<1>5. Progress
  BY <1>1, <1>4, StillProgress
<1>6. RowsOK(obligations', mappings', controls', waived', settled', signer', policies')
      /\ trail' \subseteq settled'
  BY <1>1, <1>4 DEF IInv, RegisterInv
<1>7. LibraryInv'
  BY <1>1, LibraryKept DEF IInv
<1> QED
  BY <1>2, <1>3, <1>5, <1>6, <1>7, RegisterStep

-----------------------------------------------------------------------------
(* The other steps.                                                        *)

\* A step of the policies alone, under which no mapped policy goes and no deleted one returns.
LEMMA PoliciesMove ==
  ASSUME IInv, LibraryInv', UNCHANGED registerVars,
         \A p \in Policies :
           /\ policies[p].status = "deleted" => policies'[p].status = "deleted"
           /\ Exists(p) => policies'[p].status \notin {"absent", "deleted"}
  PROVE  IInv'
<1>1. UNCHANGED <<obligations, mappings, controls, trail, order, signer, settled, waived>>
  BY DEF registerVars
<1>2. Progress
  BY <1>1, StillProgress
<1>3. \A m \in mappings : policies'[m[2]].status \notin {"absent", "deleted"}
  BY DEF IInv, RegisterInv, RowsOK, Pairs, Exists
<1>4. RowsOK(obligations', mappings', controls', waived', settled', signer', policies')
  BY <1>1, <1>3 DEF IInv, RegisterInv, RowsOK
<1>5. DOMAIN order' = Workers /\ order' = order /\ trail' \subseteq settled'
  BY <1>1 DEF IInv, RegisterInv
<1> QED
  BY <1>2, <1>4, <1>5, RegisterStep

\* A handler that starts a request writes nothing yet.
LEMMA Starts ==
  ASSUME NEW w \in Workers,
         \/ EnsureMasterPolicies(w) \/ CreatePolicy(w) \/ CreateFromTemplate(w)
         \/ ApprovePolicy(w) \/ UpdatePolicy(w) \/ WorkflowUpdatePolicy(w)
  PROVE  UNCHANGED policies /\ rewritten \subseteq rewritten'
<1>1. ASSUME NEW writes, StartPolicy(w, writes)
      PROVE  UNCHANGED policies /\ rewritten \subseteq rewritten'
  BY <1>1 DEF StartPolicy
<1>2. ASSUME NEW p, NEW u, CopyMaster(w, p, u)
      PROVE  UNCHANGED policies /\ rewritten \subseteq rewritten'
  BY <1>1, <1>2 DEF CopyMaster
<1>3. ASSUME NEW p, NEW u, UpdateCopy(w, p, u)
      PROVE  UNCHANGED policies /\ rewritten \subseteq rewritten'
  BY <1>1, <1>3 DEF UpdateCopy
<1>4. CASE CreateFromTemplate(w)
  BY <1>2, <1>3, <1>4 DEF CreateFromTemplate
<1>5. ASSUME NEW p, NEW u, NEW metas, Patch(w, p, u, metas)
      PROVE  UNCHANGED policies /\ rewritten \subseteq rewritten'
  BY <1>1, <1>5 DEF Patch
<1>6. CASE UpdatePolicy(w) \/ WorkflowUpdatePolicy(w)
  BY <1>5, <1>6 DEF UpdatePolicy, WorkflowUpdatePolicy
<1>7. CASE EnsureMasterPolicies(w) \/ CreatePolicy(w) \/ ApprovePolicy(w)
  BY <1>1, <1>7 DEF EnsureMasterPolicies, CreatePolicy, ApprovePolicy
<1> QED
  BY <1>4, <1>6, <1>7

LEMMA HandlerMoves ==
  ASSUME LibraryInv, NEW w \in Workers, PolicyHandler(w), NEW p \in Policies
  PROVE  /\ policies[p].status = "deleted" => policies'[p].status = "deleted"
         /\ Exists(p) => policies'[p].status \notin {"absent", "deleted"}
<1>1. CASE CommitPolicy(w)
  <2>1. WritesOK(work[w].writes) /\ Applies(work[w].writes) /\ policies' = Applied(work[w].writes)
    BY <1>1 DEF CommitPolicy, LibraryInv, PoliciesOK
  <2> QED
    BY <2>1, AppliedOK
<1>2. CASE InsertGeneratedPolicy(w)
  <2>1. PICK q \in Policies :
          /\ Fresh(q)
          /\ policies' = [policies EXCEPT ![q] =
               [status |-> "draft", owner |-> work[w].by, meta |-> NoMeta, origin |-> work[w].job]]
    BY <1>2 DEF InsertGeneratedPolicy
  <2>2. DOMAIN policies = Policies
    BY DEF LibraryInv, LibraryTypeOK
  <2> QED
    BY <2>1, <2>2 DEF Fresh, Exists
<1>3. CASE UNCHANGED policies
  BY <1>3 DEF Exists
<1>4. CASE EnsureMasterPolicies(w) \/ CreatePolicy(w) \/ CreateFromTemplate(w)
  BY <1>3, <1>4, Starts
<1>5. CASE ApprovePolicy(w) \/ UpdatePolicy(w) \/ WorkflowUpdatePolicy(w)
  BY <1>3, <1>5, Starts
<1>6. CASE AbortPolicy(w) \/ \E j \in Jobs : ApproveJob(w, j)
  BY <1>3, <1>6 DEF AbortPolicy, ApproveJob
<1> QED
  BY <1>1, <1>2, <1>4, <1>5, <1>6 DEF PolicyHandler

LEMMA PolicyHandlerMoves ==
  ASSUME IInv, NEW w \in Workers, PolicyHandler(w), UNCHANGED <<doors, registerVars>>
  PROVE  IInv'
BY HandlerMoves, PolicyHandlerStep, PoliciesMove DEF IInv

LEMMA GenerationMoves ==
  ASSUME IInv, Generation, UNCHANGED <<doors, registerVars>>
  PROVE  IInv'
<1>1. UNCHANGED policies
  BY DEF Generation, CreateJob, StartGenerating, CompleteJob, FailJob, JobStep, RejectJob
<1> QED
  BY <1>1, GenerationStep, PoliciesMove DEF IInv, Exists

LEMMA DeletePolicyStep ==
  ASSUME IInv, NEW w \in Workers, DeletePolicy(w)
  PROVE  IInv'
<1>1. PICK p \in Policies :
        Free(w) /\ work' = [work EXCEPT ![w] = [step |-> "delete", policy |-> p]]
  BY DEF DeletePolicy
<1>2. UNCHANGED <<doors, policies, jobs, reworked, rewritten, registerVars>>
  BY DEF DeletePolicy
<1>3. LibraryInv'
  BY <1>1, <1>2, DeleteStarts DEF IInv, Free
<1> QED
  BY <1>2, <1>3, PoliciesMove DEF Exists

LEMMA CommitDeleteStep ==
  ASSUME IInv, NEW w \in Workers, CommitDelete(w)
  PROVE  IInv'
<1> DEFINE p == work[w].policy
<1>1. /\ work[w].step = "delete" /\ Mapped(p) = {}
      /\ policies' = [policies EXCEPT ![p] = [Blank EXCEPT !.status = "deleted"]]
      /\ obligations' = [o \in Obligations |->
           IF o \in Linked(p) THEN [obligations[o] EXCEPT !.linked = None] ELSE obligations[o]]
      /\ work' = [work EXCEPT ![w] = Idle]
      /\ UNCHANGED <<doors, jobs, reworked, rewritten, mappings, controls, trail, order, signer, settled,
                     waived>>
  BY DEF CommitDelete, Deletable
<1>2. p \in Policies
  BY <1>1, MultistepFacts DEF IInv
<1>3. LibraryInv'
  BY <1>1, DeleteCommits DEF IInv
<1> HIDE DEF p
<1>4. /\ DOMAIN policies = Policies /\ DOMAIN order = Workers
      /\ mappings \subseteq Pairs /\ \A o \in Obligations : obligations[o] \in Obligation
  BY DEF IInv, RegisterInv, RowsOK, LibraryInv, LibraryTypeOK
<1>5. policies'[p].status = "deleted" /\ \A q \in Policies \ {p} : policies'[q] = policies[q]
  BY <1>1, <1>2, <1>4 DEF Blank
<1>6. \A m \in mappings : m[2] # p
  BY <1>1, <1>4 DEF Mapped, Pairs
<1>7. obligations' \in [Obligations -> Obligation]
  BY <1>1, <1>4 DEF Obligation
<1>8. ASSUME NEW o \in Obligations
      PROVE  /\ obligations'[o].status = obligations[o].status
             /\ obligations'[o].createdBy = obligations[o].createdBy
             /\ obligations[o].linked = p \/ obligations'[o].linked = obligations[o].linked
  BY <1>1, <1>4 DEF Obligation, Linked
<1>9. ASSUME NEW o \in Obligations, LinkSound(o, obligations, mappings, waived)
      PROVE  LinkSound(o, obligations', mappings', waived')
  <2>1. <<o, p>> \notin mappings
    BY <1>6
  <2> QED
    BY <1>1, <1>8, <1>9, <2>1 DEF LinkSound
<1>10. Progress
  BY <1>1, <1>2, <1>5, <1>8, <1>9 DEF Progress, Recorded
<1>11. RowsOK(obligations', mappings', controls', waived', settled', signer', policies')
  <2>1. \A m \in mappings' : policies'[m[2]].status \notin {"absent", "deleted"}
    BY <1>1, <1>4, <1>5, <1>6 DEF IInv, RegisterInv, RowsOK, Pairs
  <2>2. \A o \in Obligations : obligations'[o].status \in Verdicts =>
          <<o, obligations'[o].status>> \in settled'
    BY <1>1, <1>8 DEF IInv, RegisterInv, RowsOK
  <2>3. \A o \in Obligations : obligations'[o].status = "approved" =>
          /\ signer'[o] # None /\ signer'[o] # obligations'[o].createdBy
          /\ LinkSound(o, obligations', mappings', waived')
          /\ <<o, "rule">> \in waived' \/ \E c \in controls' : c[1] = o
    BY <1>1, <1>8, <1>9 DEF IInv, RegisterInv, RowsOK
  <2>4. /\ mappings' \subseteq Pairs
        /\ controls' \subseteq Obligations \X (Policies \cup {None})
        /\ waived' \subseteq Obligations \X {"link", "rule"}
        /\ settled' \subseteq Audits
        /\ signer' \in [Obligations -> Users \cup {None}]
    BY <1>1 DEF IInv, RegisterInv, RowsOK
  <2> QED
    BY <1>7, <2>1, <2>2, <2>3, <2>4 DEF RowsOK
<1>12. trail' \subseteq settled' /\ DOMAIN order' = Workers /\ order' = order
  BY <1>1, <1>4 DEF IInv, RegisterInv
<1> QED
  BY <1>3, <1>10, <1>11, <1>12, RegisterStep

LEMMA LinkCoveredStep ==
  ASSUME IInv, NEW w \in Workers, LinkCovered(w)
  PROVE  IInv'
<1> DEFINE p == work[w].policy
<1>1. /\ CommitApprovedJob(w) /\ Exists(p)
      /\ UNCHANGED <<doors, controls, trail, order, signer, settled>>
  BY DEF LinkCovered
<1>2. PICK S \in SUBSET {o \in Obligations : Recorded(o)} :
        /\ obligations' = [o \in Obligations |->
             IF o \in S THEN [obligations[o] EXCEPT !.linked = p] ELSE obligations[o]]
        /\ mappings' = mappings \cup (S \X {p})
        /\ waived' = waived \ (S \X {"link"})
  BY DEF LinkCovered
<1>3. p \in Policies /\ UNCHANGED policies
  BY <1>1, MultistepFacts DEF IInv, CommitApprovedJob
<1>4. LibraryInv'
  BY <1>1, CommitApprovedJobStep DEF IInv
<1> HIDE DEF p
<1>5. /\ DOMAIN order = Workers /\ mappings \subseteq Pairs
      /\ \A o \in Obligations : obligations[o] \in Obligation
      /\ waived \subseteq Obligations \X {"link", "rule"}
  BY DEF IInv, RegisterInv, RowsOK
<1>6. obligations' \in [Obligations -> Obligation]
  BY <1>2, <1>3, <1>5 DEF Obligation
<1>7. ASSUME NEW o \in Obligations
      PROVE  /\ obligations'[o].status = obligations[o].status
             /\ obligations'[o].createdBy = obligations[o].createdBy
             /\ obligations'[o].linked = IF o \in S THEN p ELSE obligations[o].linked
  BY <1>2, <1>5 DEF Obligation
<1>8. ASSUME NEW o \in S PROVE LinkSound(o, obligations', mappings', waived')
  <2>1. obligations'[o].linked = p /\ <<o, p>> \in mappings'
    BY <1>2, <1>7
  <2> QED
    BY <1>3, <2>1, LibraryAssumption DEF LinkSound
<1>9. ASSUME NEW o \in Obligations, LinkSound(o, obligations, mappings, waived)
      PROVE  LinkSound(o, obligations', mappings', waived')
  <2>1. CASE o \in S
    BY <1>8, <2>1
  <2>2. CASE o \notin S
    BY <1>2, <1>7, <1>9, <2>2 DEF LinkSound
  <2> QED
    BY <2>1, <2>2
<1>10. ASSUME NEW o \in Obligations
       PROVE  \/ obligations'[o].linked = obligations[o].linked
              \/ LinkSound(o, obligations', mappings', waived')
  BY <1>7, <1>8
<1>11. Progress
  BY <1>1, <1>3, <1>7, <1>9, <1>10 DEF Progress, Recorded
<1>12. RowsOK(obligations', mappings', controls', waived', settled', signer', policies')
  <2>1. mappings' \subseteq Pairs /\ waived' \subseteq Obligations \X {"link", "rule"}
    BY <1>2, <1>3, <1>5 DEF Pairs
  <2>2. \A m \in mappings' : policies'[m[2]].status \notin {"absent", "deleted"}
    BY <1>1, <1>2, <1>3 DEF IInv, RegisterInv, RowsOK, Exists
  <2>3. \A o \in Obligations : obligations'[o].status \in Verdicts =>
          <<o, obligations'[o].status>> \in settled'
    BY <1>1, <1>7 DEF IInv, RegisterInv, RowsOK
  <2>4. \A o \in Obligations : <<o, "rule">> \in waived => <<o, "rule">> \in waived'
    BY <1>2
  <2>5. \A o \in Obligations : obligations'[o].status = "approved" =>
          /\ signer'[o] # None /\ signer'[o] # obligations'[o].createdBy
          /\ LinkSound(o, obligations', mappings', waived')
          /\ <<o, "rule">> \in waived' \/ \E c \in controls' : c[1] = o
    BY <1>1, <1>7, <1>9, <2>4 DEF IInv, RegisterInv, RowsOK
  <2>6. /\ controls' \subseteq Obligations \X (Policies \cup {None})
        /\ settled' \subseteq Audits
        /\ signer' \in [Obligations -> Users \cup {None}]
    BY <1>1 DEF IInv, RegisterInv, RowsOK
  <2> QED
    BY <1>6, <2>1, <2>2, <2>3, <2>5, <2>6 DEF RowsOK
<1>13. trail' \subseteq settled' /\ DOMAIN order' = Workers /\ order' = order
  BY <1>1, <1>5 DEF IInv, RegisterInv
<1> QED
  BY <1>4, <1>11, <1>12, <1>13, RegisterStep

LEMMA AddSuggestedRulesStep ==
  ASSUME IInv, NEW w \in Workers, AddSuggestedRules(w)
  PROVE  IInv'
<1>1. /\ SuggestRules(w)
      /\ UNCHANGED <<doors, obligations, mappings, trail, order, signer, settled, waived>>
  BY DEF AddSuggestedRules
<1>2. PICK S \in SUBSET {o \in Obligations : Recorded(o)} : controls' = controls \cup (S \X {None})
  BY DEF AddSuggestedRules
<1>3. UNCHANGED policies
  BY <1>1 DEF SuggestRules
<1>4. LibraryInv'
  BY <1>1, SuggestRulesStep DEF IInv
<1>5. Progress
  BY <1>1, <1>2, <1>3 DEF Progress, Recorded
<1>6. controls' \subseteq Obligations \X (Policies \cup {None}) /\ controls \subseteq controls'
  BY <1>2 DEF IInv, RegisterInv, RowsOK
<1>7. RowsOK(obligations', mappings', controls', waived', settled', signer', policies')
  BY <1>1, <1>3, <1>6 DEF IInv, RegisterInv, RowsOK
<1>8. trail' \subseteq settled' /\ DOMAIN order' = Workers /\ order' = order
  BY <1>1 DEF IInv, RegisterInv
<1> QED
  BY <1>4, <1>5, <1>7, <1>8, RegisterStep

LEMMA UnmapStep ==
  ASSUME IInv, NEW o \in Obligations, Unmap(o)
  PROVE  IInv'
<1>1. /\ mappings' = {m \in mappings : m[1] # o}
      /\ obligations' = [obligations EXCEPT ![o].linked = None]
      /\ waived' = waived \cup {<<o, "link">>}
      /\ UNCHANGED <<doors, libraryVars, controls, trail, order, signer, settled>>
  BY DEF Unmap
<1>2. UNCHANGED policies /\ LibraryInv'
  BY <1>1, LibraryKept DEF IInv, libraryVars
<1>3. obligations \in [Obligations -> Obligation]
  BY DEF IInv, RegisterInv, RowsOK
<1>4. /\ obligations' \in [Obligations -> Obligation]
      /\ \A q \in Obligations :
           /\ obligations'[q].status = obligations[q].status
           /\ obligations'[q].createdBy = obligations[q].createdBy
           /\ q # o => obligations'[q].linked = obligations[q].linked
  BY <1>1, <1>3 DEF Obligation
<1>5. LinkSound(o, obligations', mappings', waived')
  BY <1>1 DEF LinkSound
<1>6. ASSUME NEW q \in Obligations, q # o, LinkSound(q, obligations, mappings, waived)
      PROVE  LinkSound(q, obligations', mappings', waived')
  BY <1>1, <1>4, <1>6 DEF LinkSound
<1>7. Progress
  BY <1>1, <1>2, <1>4, <1>5, <1>6 DEF Progress, Recorded
<1>8. RowsOK(obligations', mappings', controls', waived', settled', signer', policies')
  <2>1. /\ mappings' \subseteq Pairs /\ waived' \subseteq Obligations \X {"link", "rule"}
        /\ controls' \subseteq Obligations \X (Policies \cup {None})
        /\ settled' \subseteq Audits
        /\ signer' \in [Obligations -> Users \cup {None}]
    BY <1>1 DEF IInv, RegisterInv, RowsOK
  <2>2. \A m \in mappings' : policies'[m[2]].status \notin {"absent", "deleted"}
    BY <1>1, <1>2 DEF IInv, RegisterInv, RowsOK
  <2>3. \A q \in Obligations : obligations'[q].status \in Verdicts =>
          <<q, obligations'[q].status>> \in settled'
    BY <1>1, <1>4 DEF IInv, RegisterInv, RowsOK
  <2>4. \A q \in Obligations : obligations'[q].status = "approved" =>
          /\ signer'[q] # None /\ signer'[q] # obligations'[q].createdBy
          /\ LinkSound(q, obligations', mappings', waived')
          /\ <<q, "rule">> \in waived' \/ \E c \in controls' : c[1] = q
    <3> SUFFICES ASSUME NEW q \in Obligations, obligations'[q].status = "approved"
                 PROVE  /\ signer'[q] # None /\ signer'[q] # obligations'[q].createdBy
                        /\ LinkSound(q, obligations', mappings', waived')
                        /\ <<q, "rule">> \in waived' \/ \E c \in controls' : c[1] = q
      OBVIOUS
    <3>1. /\ signer[q] # None /\ signer[q] # obligations[q].createdBy
          /\ LinkSound(q, obligations, mappings, waived)
          /\ <<q, "rule">> \in waived \/ \E c \in controls : c[1] = q
      BY <1>4 DEF IInv, RegisterInv, RowsOK
    <3>2. LinkSound(q, obligations', mappings', waived')
      BY <1>5, <1>6, <3>1
    <3> QED
      BY <1>1, <1>4, <3>1, <3>2
  <2> QED
    BY <1>4, <2>1, <2>2, <2>3, <2>4 DEF RowsOK
<1>9. trail' \subseteq settled' /\ DOMAIN order' = Workers /\ order' = order
  BY <1>1 DEF IInv, RegisterInv
<1> QED
  BY <1>2, <1>7, <1>8, <1>9, RegisterStep

LEMMA SeedStep ==
  ASSUME IInv, NEW o \in Obligations, SeedObligation(o)
  PROVE  IInv'
<1>1. /\ ~Recorded(o) /\ obligations' = [obligations EXCEPT ![o].status = "draft"]
      /\ UNCHANGED <<doors, libraryVars, mappings, controls, trail, order, signer, settled, waived>>
  BY DEF SeedObligation
<1>2. UNCHANGED policies /\ LibraryInv'
  BY <1>1, LibraryKept DEF IInv, libraryVars
<1>3. obligations \in [Obligations -> Obligation]
  BY DEF IInv, RegisterInv, RowsOK
<1>4. /\ obligations' \in [Obligations -> Obligation]
      /\ obligations'[o].status = "draft"
      /\ \A q \in Obligations \ {o} : obligations'[q] = obligations[q]
  BY <1>1, <1>3 DEF Obligation, Statuses
<1>5. \A q \in Obligations \ {o} : LinkSound(q, obligations, mappings, waived)
        => LinkSound(q, obligations', mappings', waived')
  BY <1>1, <1>4 DEF LinkSound
<1>6. Progress
  BY <1>1, <1>2, <1>4, <1>5 DEF Progress, Recorded
<1>7. RowsOK(obligations', mappings', controls', waived', settled', signer', policies')
  <2>1. /\ mappings' \subseteq Pairs /\ waived' \subseteq Obligations \X {"link", "rule"}
        /\ controls' \subseteq Obligations \X (Policies \cup {None})
        /\ settled' \subseteq Audits
        /\ signer' \in [Obligations -> Users \cup {None}]
        /\ \A m \in mappings' : policies'[m[2]].status \notin {"absent", "deleted"}
    BY <1>1, <1>2 DEF IInv, RegisterInv, RowsOK
  <2>2. \A q \in Obligations : obligations'[q].status \in Verdicts =>
          q # o /\ <<q, obligations'[q].status>> \in settled'
    BY <1>1, <1>4 DEF IInv, RegisterInv, RowsOK, Verdicts
  <2>3. \A q \in Obligations : obligations'[q].status = "approved" =>
          /\ signer'[q] # None /\ signer'[q] # obligations'[q].createdBy
          /\ LinkSound(q, obligations', mappings', waived')
          /\ <<q, "rule">> \in waived' \/ \E c \in controls' : c[1] = q
    BY <1>1, <1>4, <1>5 DEF IInv, RegisterInv, RowsOK
  <2> QED
    BY <1>4, <2>1, <2>2, <2>3 DEF RowsOK
<1>8. trail' \subseteq settled' /\ DOMAIN order' = Workers /\ order' = order
  BY <1>1 DEF IInv, RegisterInv
<1> QED
  BY <1>2, <1>6, <1>7, <1>8, RegisterStep

-----------------------------------------------------------------------------
(* The theorems.                                                           *)

LEMMA WorkerStep ==
  ASSUME IInv, NEW w \in Workers, Worker(w)
  PROVE  IInv'
BY DecisionSteps, WorkflowStep, ExtractStep, LinkStep, MarkStep, CommitOrderStep, EmitStep,
   AbortOrderStep, DeletePolicyStep, CommitDeleteStep, LinkCoveredStep, AddSuggestedRulesStep,
   PolicyHandlerMoves DEF Worker

LEMMA NextIInv ==
  ASSUME IInv, [Next]_vars
  PROVE  IInv'
<1>1. CASE Next
  BY <1>1, WorkerStep, UnmapStep, SeedStep, GenerationMoves DEF Next
<1>2. CASE UNCHANGED vars
  <2>1. UNCHANGED <<doors, libraryVars, registerVars>>
    BY <1>2 DEF vars, libraryVars
  <2>2. LibraryInv' /\ UNCHANGED policies
    BY <2>1, LibraryKept DEF IInv, libraryVars
  <2> QED
    BY <2>1, <2>2, PoliciesMove DEF Exists
<1> QED
  BY <1>1, <1>2

\* The steps that write policies, and all others.
LEMMA HandlerStands ==
  ASSUME LibraryInv, NEW w \in Workers, PolicyHandler(w)
  PROVE  RowsStand /\ ApprovalsStand
<1>1. CASE CommitPolicy(w)
  <2>1. /\ WritesOK(work[w].writes) /\ AllFaithful(work[w].writes, policies, rewritten) /\ Applies(work[w].writes)
        /\ policies' = Applied(work[w].writes) /\ UNCHANGED rewritten
    BY <1>1 DEF CommitPolicy, LibraryInv, PoliciesOK
  <2> QED
    BY <2>1, AppliedFaithful
<1>2. CASE InsertGeneratedPolicy(w)
  <2>1. PICK q \in Policies :
          /\ Fresh(q)
          /\ policies' = [policies EXCEPT ![q] =
               [status |-> "draft", owner |-> work[w].by, meta |-> NoMeta, origin |-> work[w].job]]
    BY <1>2 DEF InsertGeneratedPolicy
  <2>2. DOMAIN policies = Policies /\ UNCHANGED rewritten
    BY <1>2 DEF LibraryInv, LibraryTypeOK, InsertGeneratedPolicy
  <2> QED
    BY <2>1, <2>2 DEF Fresh, Exists, RowsStand, ApprovalsStand
<1>3. CASE UNCHANGED policies /\ rewritten \subseteq rewritten'
  BY <1>3, UnchangedStands
<1>4. CASE EnsureMasterPolicies(w) \/ CreatePolicy(w) \/ CreateFromTemplate(w)
  BY <1>3, <1>4, Starts
<1>5. CASE ApprovePolicy(w) \/ UpdatePolicy(w) \/ WorkflowUpdatePolicy(w)
  BY <1>3, <1>5, Starts
<1>6. CASE AbortPolicy(w) \/ \E j \in Jobs : ApproveJob(w, j)
  BY <1>3, <1>6 DEF AbortPolicy, ApproveJob
<1> QED
  BY <1>1, <1>2, <1>4, <1>5, <1>6 DEF PolicyHandler

LEMMA WorkerStands ==
  ASSUME IInv, NEW w \in Workers, Worker(w)
  PROVE  RowsStand /\ ApprovalsStand
<1>1. CASE CommitOrder(w)
  <2>1. PICK r : r = order[w]
    OBVIOUS
  <2>2. /\ MastersOK(r.masters) /\ Applies(r.masters) /\ policies' = Applied(r.masters)
        /\ UNCHANGED rewritten
    BY <1>1, <2>1, CommitOrderFacts DEF RequestOK, Commits, Committable
  <2> QED
    BY <2>2, MastersFaithful, AppliedFaithful DEF MastersOK, IInv
<1>2. CASE CommitDelete(w)
  <2>1. /\ work[w].policy \in Policies /\ DOMAIN policies = Policies /\ UNCHANGED rewritten
        /\ policies' = [policies EXCEPT ![work[w].policy] = [Blank EXCEPT !.status = "deleted"]]
    BY <1>2, MultistepFacts DEF CommitDelete, IInv, LibraryInv, LibraryTypeOK
  <2> QED
    BY <2>1 DEF RowsStand, ApprovalsStand, Exists, Blank
<1>3. CASE UNCHANGED <<policies, rewritten>>
  BY <1>3, UnchangedStands
<1>4. CASE \/ UpdateObligation(w) \/ ApproveObligation(w) \/ BulkApprove(w)
           \/ WorkflowApprove(w) \/ ExtractObligation(w)
           \/ LinkObligation(w) \/ AutoMap(w) \/ MarkForReview(w)
  <2>1. ASSUME NEW request, Submit(w, request) PROVE UNCHANGED <<policies, rewritten>>
    BY <2>1 DEF Submit, libraryVars
  <2>2. CASE UpdateObligation(w)
    BY <1>3, <2>1, <2>2 DEF UpdateObligation, PatchStatus
  <2>3. CASE ApproveObligation(w)
    BY <1>3, <2>1, <2>3 DEF ApproveObligation
  <2>4. CASE BulkApprove(w)
    BY <1>3, <2>1, <2>4 DEF BulkApprove
  <2>5. CASE WorkflowApprove(w) \/ ExtractObligation(w)
    BY <1>3, <2>1, <2>5 DEF WorkflowApprove, ExtractObligation
  <2>6. CASE LinkObligation(w) \/ AutoMap(w) \/ MarkForReview(w)
    BY <1>3, <2>1, <2>6 DEF LinkObligation, AutoMap, MarkForReview
  <2> QED
    BY <1>4, <2>2, <2>3, <2>4, <2>5, <2>6
<1>5. CASE EmitSideEffects(w) \/ AbortOrder(w) \/ DeletePolicy(w)
  BY <1>3, <1>5 DEF EmitSideEffects, AbortOrder, DeletePolicy, libraryVars
<1>6. CASE LinkCovered(w) \/ AddSuggestedRules(w)
  BY <1>3, <1>6 DEF LinkCovered, CommitApprovedJob, AddSuggestedRules, SuggestRules
<1>7. CASE PolicyHandler(w)
  BY <1>7, HandlerStands DEF IInv
<1> QED
  BY <1>1, <1>2, <1>4, <1>5, <1>6, <1>7 DEF Worker

LEMMA NextStands ==
  ASSUME IInv, [Next]_vars
  PROVE  RowsStand /\ ApprovalsStand
<1>1. CASE \E w \in Workers : Worker(w)
  BY <1>1, WorkerStands
<1>2. CASE UNCHANGED <<policies, rewritten>>
  BY <1>2, UnchangedStands
<1>3. CASE \E o \in Obligations : Unmap(o) \/ SeedObligation(o)
  BY <1>2, <1>3 DEF Unmap, SeedObligation, libraryVars
<1>4. CASE Generation
  BY <1>2, <1>4 DEF Generation, CreateJob, StartGenerating, CompleteJob, FailJob, JobStep, RejectJob
<1>5. CASE UNCHANGED vars
  BY <1>2, <1>5 DEF vars
<1> QED
  BY <1>1, <1>3, <1>4, <1>5 DEF Next

\* The invariant of the register holds whatever requests overlap.
THEOREM Inductive == Spec => []IInv
<1>1. Init => IInv
  BY InitIInv
<1>2. IInv /\ [Next]_vars => IInv'
  BY NextIInv
<1> QED
  BY <1>1, <1>2, PTL DEF Spec

LEMMA InvariantTypes == IInv => TypeOK
<1> SUFFICES ASSUME IInv PROVE TypeOK
  OBVIOUS
<1>1. ASSUME NEW w \in Workers
      PROVE  \/ order[w] \in {Idle} \cup [step : {"committed"}, audits : SUBSET Audits]
             \/ \E S \in SUBSET Obligations, M \in SUBSET {Master} : order[w] \in Order(S, M)
  BY DEF IInv, RegisterInv, OrderOK, RequestOK, RequestTyped
<1>2. trail \subseteq Audits
  BY DEF IInv, RegisterInv, RowsOK
<1> QED
  BY <1>1, <1>2 DEF TypeOK, IInv, LibraryInv, RegisterInv, RowsOK

\* Every row and every request in flight has its type.
THEOREM TypeCorrect == Spec => []TypeOK
BY Inductive, InvariantTypes, PTL

\* As long as no client has replaced the creator a policy names, he stays and does not approve
\* it (_enforce_policy_four_eyes): what is in flight names the creator the row names, and the
\* approver it brings was compared with him.
THEOREM PoliciesFourEyes == Spec => PolicyFourEyes
<1>1. IInv /\ [Next]_vars =>
        [\A p \in Policies \ rewritten' : Exists(p) /\ Exists(p)' =>
           /\ policies'[p].meta.createdBy = policies[p].meta.createdBy
           /\ policies[p].status # "approved" /\ policies'[p].status = "approved" =>
                policies'[p].meta.approvedBy \notin {None, policies[p].meta.createdBy}]_libraryVars
  BY NextStands DEF RowsStand, ApprovalsStand
<1> QED
  BY <1>1, Inductive, PTL DEF Spec, PolicyFourEyes

\* A generation job whose approvals neither overlap nor die half way becomes one policy at
\* most (approve_generation).
THEOREM GeneratesOnce == Spec => []GeneratedOnce
<1>1. IInv => GeneratedOnce
  BY DEF IInv, LibraryInv, JobsOK
<1> QED
  BY <1>1, Inductive, PTL

\* The user whose commit made an obligation approved is not its creator
\* (_enforce_obligation_four_eyes), through every endpoint.
THEOREM ApprovedByOthers == Spec => []ApprovedByAnother
<1>1. IInv => ApprovedByAnother
  BY DEF IInv, RegisterInv, RowsOK, ApprovedByAnother
<1> QED
  BY <1>1, Inductive, PTL

\* An approved obligation keeps its policy and its rule, whatever is linked, unlinked and
\* deleted around it, but for the exceptions that waived records.
THEOREM Supported == Spec => []ApprovedIsSupported
<1>1. IInv => ApprovedIsSupported
  BY DEF IInv, RegisterInv, RowsOK, LinkSound, ApprovedIsSupported
<1> QED
  BY <1>1, Inductive, PTL

\* A decision record is written for a status that was committed, never for one that was
\* rolled back (_emit_obligation_approval_side_effects).
THEOREM AuditsAreTrue == Spec => []AuditIsTrue
<1>1. IInv => AuditIsTrue
  BY DEF IInv, RegisterInv, AuditIsTrue
<1> QED
  BY <1>1, Inductive, PTL
=============================================================================
