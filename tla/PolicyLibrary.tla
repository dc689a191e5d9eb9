---------------------------- MODULE PolicyLibrary ----------------------------
(***************************************************************************)
(* The policy documents (api/policies.py, services/policy_library.py, the  *)
(* policy half of api/compliance_workflow.py) and the generation jobs that *)
(* turn into policies (services/policy_generator.py,                       *)
(* api/policy_generator.py).  Obligations.tla extends it with the          *)
(* obligations that link to the policies.                                  *)
(*                                                                         *)
(* The API runs as four uvicorn processes (docker-compose.yml), each       *)
(* request in a session of its own, at READ COMMITTED and without row      *)
(* locks.  A request loads rows, checks them and assigns attributes; its   *)
(* commit writes the columns it changed over whatever the rows hold by     *)
(* then.  A request in flight is therefore the columns it will write.      *)
(* policy.metadata is one JSON column: the creator and the approver in it  *)
(* are written together.                                                   *)
(***************************************************************************)
EXTENDS Naturals, FiniteSets

CONSTANTS
  Workers,     \* request slots
  Users,       \* the users of one tenant with a compliance role
  Superusers,  \* those of them who may edit a master policy
  Policies,    \* primary keys of policy_documents
  Master,      \* the canonical policy of the one template of the model
  Handmade,    \* bound: the keys for policies that are not generated
  Jobs,        \* policy generation jobs
  Scenarios,   \* sets of endpoints that are in use together
  None

ASSUME LibraryAssumption ==
  /\ Superusers \subseteq Users
  /\ Master \in Policies
  /\ Handmade \subseteq Policies
  /\ None \notin Users \cup Policies \cup Jobs
  /\ Jobs \cap {"none", "template", "copy", "own"} = {}

VARIABLES
  doors,     \* the scenario of this behaviour: it never changes
  policies,  \* the committed rows
  jobs,      \* policy_generation_jobs and how far their coroutine got
  work,      \* per worker: its request about policies, or Idle
  reworked,  \* history: jobs whose approvals overlapped, or one of which died half way
  rewritten  \* history: policies whose recorded creator a client's metadata replaced

libraryVars == <<policies, jobs, work, reworked, rewritten>>

\* "draft" stands for in_review too, "active" for retired: no handler tells those apart, but
\* for a retired master policy, which behaves as a draft does.
PolicyStatus == {"draft", "approved", "active"}
Columns == {"status", "owner", "meta", "origin"}

Meta == [createdBy : Users \cup {None}, approvedBy : Users \cup {None}]

Policy ==
  [status : PolicyStatus \cup {"absent", "deleted"}, owner : Users \cup {None}, meta : Meta,
   origin : {"none", "template", "copy", "own"} \cup Jobs]

NoMeta == [createdBy |-> None, approvedBy |-> None]

Blank == [status |-> "absent", owner |-> None, meta |-> NoMeta, origin |-> "none"]

JobStatus == {"none", "pending", "generating", "completed", "failed", "approved", "rejected"}
JobSteps == {"idle", "created", "generating", "done"}

Exists(p) == policies[p].status \notin {"absent", "deleted"}

\* What a commit does to one row: the columns it writes, and whether it inserts the row.
Write == [insert : BOOLEAN, cols : SUBSET Columns, new : Policy]

WriteOf(insert, cols, new) ==
  [insert |-> insert, cols |-> cols,
   new |-> [c \in Columns |-> IF c \in cols THEN new[c] ELSE Blank[c]]]

Written(row, write) == [c \in Columns |-> IF c \in write.cols THEN write.new[c] ELSE row[c]]

Idle == [step |-> "idle"]

\* The requests that are more than a set of writes.
Multistep ==
  [step : {"delete"}, policy : Policies]
  \cup [step : {"insert_policy"}, job : Jobs, by : Users]
  \cup [step : {"approve_job", "suggest_rules"}, job : Jobs, by : Users, policy : Policies]

LibraryTypeOK ==
  /\ doors \in Scenarios
  /\ policies \in [Policies -> Policy]
  /\ jobs \in [Jobs -> [status : JobStatus, at : JobSteps]]
  /\ DOMAIN work = Workers
  /\ \A w \in Workers :
       \/ work[w] \in Multistep \cup {Idle}
       \/ \E S \in SUBSET Policies : work[w] \in [step : {"ready"}, writes : [S -> Write]]
  /\ reworked \subseteq Jobs
  /\ rewritten \subseteq Policies

LibraryInit ==
  /\ doors \in Scenarios
  /\ policies = [p \in Policies |-> Blank]
  /\ jobs = [j \in Jobs |-> [status |-> "none", at |-> "idle"]]
  /\ work = [w \in Workers |-> Idle]
  /\ reworked = {} /\ rewritten = {}

\* A key no row and no request in flight has: the sequence never gives a key twice.
Fresh(p) ==
  /\ p # Master
  /\ policies[p].status = "absent"
  /\ \A w \in Workers : work[w].step = "ready" => p \notin DOMAIN work[w].writes

Rewrites(p, write) ==
  ~write.insert /\ "meta" \in write.cols /\ write.new.meta.createdBy # policies[p].meta.createdBy

StartPolicy(w, writes) ==
  /\ work[w] = Idle
  /\ work' = [work EXCEPT ![w] = [step |-> "ready", writes |-> writes]]
  /\ rewritten' = rewritten \cup {p \in DOMAIN writes : Rewrites(p, writes[p])}
  /\ UNCHANGED <<policies, jobs, reworked>>

Insert(row) == WriteOf(TRUE, Columns, row)

OnRow(p, write) == [q \in {p} |-> write]
-----------------------------------------------------------------------------
(* The master policy of the template.                                      *)

MasterRow == [status |-> "active", owner |-> None, meta |-> NoMeta, origin |-> "template"]

\* ensure_master_policy_for_template: insert it, or make it active again.  One template has
\* one candidate here; the retirement of duplicates left by older data is not modelled.
EnsureMaster ==
  IF ~Exists(Master) THEN OnRow(Master, Insert(MasterRow))
  ELSE IF policies[Master].status # "active"
       THEN OnRow(Master, WriteOf(FALSE, {"status"}, MasterRow))
       ELSE <<>>

Both(f, g) == [p \in DOMAIN f \cup DOMAIN g |-> IF p \in DOMAIN f THEN f[p] ELSE g[p]]

EnsureMasterPolicies(w) ==
  /\ "templates" \in doors
  /\ DOMAIN EnsureMaster # {}
  /\ StartPolicy(w, EnsureMaster)
-----------------------------------------------------------------------------
(* api/policies.py.                                                        *)

\* What the metadata column may hold once the metadata a client sends are merged into it.
\* The scenarios without "metadata" are of clients that leave the keys of the creator and of
\* the approver alone.
Sent(meta) == IF "metadata" \in doors THEN Meta ELSE {meta}

\* create_policy: anything but "approved"; the creator is written over what the client sent.
CreatePolicy(w) ==
  /\ "policies" \in doors
  /\ \E p \in Handmade, u \in Users, s \in PolicyStatus \ {"approved"}, meta \in Sent(NoMeta) :
       /\ Fresh(p)
       /\ StartPolicy(w, OnRow(p, Insert([status |-> s, owner |-> u, origin |-> "own",
                                          meta |-> [meta EXCEPT !.createdBy = u]])))

\* _set_policy_creator without force.
WithCreator(meta, u) == IF meta.createdBy = None THEN [meta EXCEPT !.createdBy = u] ELSE meta

\* create_policy_from_template for a user of a tenant.  The tenant's copy of the master starts
\* with the master's metadata, its approver included, and the user as its creator.
CopyMaster(w, p, u) ==
  \E s \in PolicyStatus \ {"approved"}, meta \in Sent(policies[Master].meta) :
    /\ Fresh(p)
    /\ StartPolicy(w, Both(EnsureMaster, OnRow(p, Insert(
         [status |-> s, owner |-> u, origin |-> "copy",
          meta |-> [meta EXCEPT !.createdBy = u]]))))

\* When there is a copy, its status may be set, back from "approved" as well, and metadata
\* merged into it, the two keys or others of the one column.
UpdateCopy(w, p, u) ==
  \E s \in (PolicyStatus \ {"approved"}) \cup {policies[p].status},
    meta \in Sent(policies[p].meta), others \in SUBSET {"meta"} :
    LET new == [policies[p] EXCEPT !.status = s, !.meta = WithCreator(meta, u)]
        changed == {c \in Columns : new[c] # policies[p][c]} IN
    StartPolicy(w, Both(EnsureMaster, OnRow(p, WriteOf(FALSE, changed \cup others, new))))

CreateFromTemplate(w) ==
  /\ "templates" \in doors
  /\ LET copies == {q \in Policies : Exists(q) /\ policies[q].origin = "copy"} IN
     \E u \in Users :
       IF copies = {} THEN \E p \in Handmade : CopyMaster(w, p, u)
       ELSE \E p \in copies : UpdateCopy(w, p, u)

Editable(p, u) == p = Master => u \in Superusers

Creator(p) ==
  IF policies[p].meta.createdBy # None THEN policies[p].meta.createdBy ELSE policies[p].owner

PolicyFourEyesCheckMutant(p, u) ==
  policies[p].meta.approvedBy # None \/ u # Creator(p)

\* _enforce_policy_four_eyes.
PolicyFourEyesCheck(p, u) == u # Creator(p)

\* _mark_policy_approval with the new status: one row, two columns.
Approval(p, u, meta) ==
  WriteOf(FALSE, {"status", "meta"},
          [policies[p] EXCEPT !.status = "approved", !.meta = [meta EXCEPT !.approvedBy = u]])

ApprovePolicy(w) ==
  /\ "review" \in doors
  /\ \E p \in Policies, u \in Users :
       /\ policies[p].status = "draft"
       /\ Editable(p, u)
       /\ PolicyFourEyesCheck(p, u)
       /\ StartPolicy(w, OnRow(p, Approval(p, u, policies[p].meta)))

\* The body both PATCH handlers share, one field at a time: a status, the owner, or metadata
\* of the client's, which may come with an approval.  The check has seen the row as it was.
Patch(w, p, u, metas) ==
  \/ /\ policies[p].status # "approved"
     /\ PolicyFourEyesCheck(p, u)
     /\ \E meta \in metas \cup {policies[p].meta} : StartPolicy(w, OnRow(p, Approval(p, u, meta)))
  \/ \E s \in PolicyStatus \ {"approved", policies[p].status} :
       StartPolicy(w, OnRow(p, WriteOf(FALSE, {"status"}, [policies[p] EXCEPT !.status = s])))
  \/ \E o \in Users \ {policies[p].owner} :
       StartPolicy(w, OnRow(p, WriteOf(FALSE, {"owner"}, [policies[p] EXCEPT !.owner = o])))
  \/ \E meta \in metas :
       StartPolicy(w, OnRow(p, WriteOf(FALSE, {"meta"}, [policies[p] EXCEPT !.meta = meta])))

UpdatePolicy(w) ==
  /\ "review" \in doors
  /\ \E p \in Policies, u \in Users :
       Exists(p) /\ Editable(p, u) /\ Patch(w, p, u, Sent(policies[p].meta))

\* update_policy of api/compliance_workflow.py does not ask whether the policy is a master;
\* it has no metadata to send.
WorkflowUpdatePolicy(w) ==
  /\ "review" \in doors
  /\ \E p \in Policies, u \in Users : Exists(p) /\ Patch(w, p, u, {})

\* db.commit(): an INSERT of a key or a policy_id that exists by now, or an UPDATE of a row
\* that is gone, raises.
Applies(writes) ==
  \A p \in DOMAIN writes :
    IF writes[p].insert THEN policies[p].status = "absent" ELSE Exists(p)

Applied(writes) ==
  [p \in Policies |-> IF p \in DOMAIN writes THEN Written(policies[p], writes[p])
                      ELSE policies[p]]

CommitPolicy(w) ==
  /\ work[w].step = "ready"
  /\ Applies(work[w].writes)
  /\ policies' = Applied(work[w].writes)
  /\ work' = [work EXCEPT ![w] = Idle]
  /\ UNCHANGED <<jobs, reworked, rewritten>>
-----------------------------------------------------------------------------
(* Policy generation.  The coroutine of a job writes its status whatever   *)
(* the row holds by then.                                                  *)

JobStep(j, from, to, status) ==
  /\ "generator" \in doors
  /\ jobs[j].at \in from
  /\ jobs' = [jobs EXCEPT ![j] = [status |-> status, at |-> to]]
  /\ UNCHANGED <<policies, work, reworked, rewritten>>

CreateJob(j) == JobStep(j, {"idle"}, "created", "pending")
StartGenerating(j) == JobStep(j, {"created"}, "generating", "generating")
CompleteJob(j) == JobStep(j, {"generating"}, "done", "completed")
FailJob(j) == JobStep(j, {"created", "generating"}, "done", "failed")

RejectJob(j) ==
  /\ "generator" \in doors
  /\ jobs[j].status # "none"
  /\ jobs' = [jobs EXCEPT ![j].status = "rejected"]
  /\ UNCHANGED <<policies, work, reworked, rewritten>>

Approving(j) == {w \in Workers : work[w].step \in {"insert_policy", "approve_job"}
                                 /\ work[w].job = j}

ApprovableMutant(j) == jobs[j].status \in {"completed", "approved"}

\* get_generation_result: only a completed job has a result.
Approvable(j) == jobs[j].status = "completed"

\* approve_generation, in three transactions: the policy; the job and the links of the
\* obligations it covers; the internal rules it suggests.
ApproveJob(w, j) ==
  /\ "generator" \in doors
  /\ work[w] = Idle
  /\ Approvable(j)
  /\ \E u \in Users :
       work' = [work EXCEPT ![w] = [step |-> "insert_policy", job |-> j, by |-> u]]
  /\ reworked' = IF Approving(j) = {} THEN reworked ELSE reworked \cup {j}
  /\ UNCHANGED <<policies, jobs, rewritten>>

InsertGeneratedPolicy(w) ==
  /\ work[w].step = "insert_policy"
  /\ \E p \in Policies :
       /\ Fresh(p)
       /\ policies' = [policies EXCEPT ![p] =
            [status |-> "draft", owner |-> work[w].by, meta |-> NoMeta, origin |-> work[w].job]]
       /\ work' = [work EXCEPT ![w] = [step |-> "approve_job", job |-> work[w].job,
                                       by |-> work[w].by, policy |-> p]]
  /\ UNCHANGED <<jobs, reworked, rewritten>>

CommitApprovedJob(w) ==
  /\ work[w].step = "approve_job"
  /\ jobs' = [jobs EXCEPT ![work[w].job].status = "approved"]
  /\ work' = [work EXCEPT ![w].step = "suggest_rules"]
  /\ UNCHANGED <<policies, reworked, rewritten>>

SuggestRules(w) ==
  /\ work[w].step = "suggest_rules"
  /\ work' = [work EXCEPT ![w] = Idle]
  /\ UNCHANGED <<policies, jobs, reworked, rewritten>>

\* A request fails or its process dies: what it committed before stays.
AbortPolicy(w) ==
  /\ work[w] # Idle
  /\ work' = [work EXCEPT ![w] = Idle]
  /\ reworked' = IF work[w].step = "approve_job" THEN reworked \cup {work[w].job} ELSE reworked
  /\ UNCHANGED <<policies, jobs, rewritten>>

PolicyHandler(w) ==
  \/ EnsureMasterPolicies(w) \/ CreatePolicy(w) \/ CreateFromTemplate(w)
  \/ ApprovePolicy(w) \/ UpdatePolicy(w) \/ WorkflowUpdatePolicy(w)
  \/ CommitPolicy(w) \/ InsertGeneratedPolicy(w) \/ AbortPolicy(w)
  \/ \E j \in Jobs : ApproveJob(w, j)

Generation ==
  \E j \in Jobs :
    CreateJob(j) \/ StartGenerating(j) \/ CompleteJob(j) \/ FailJob(j) \/ RejectJob(j)
-----------------------------------------------------------------------------
(* Properties.                                                             *)

\* "approver cannot be the same as the policy creator": as long as no client has replaced the
\* creator a policy names, it stays, whatever stale metadata is written back over the column;
\* and the commit that makes the policy approved names as its approver somebody else than the
\* creator the row named before it.
PolicyFourEyes ==
  [][\A p \in Policies \ rewritten' : Exists(p) /\ Exists(p)' =>
       /\ policies'[p].meta.createdBy = policies[p].meta.createdBy
       /\ policies[p].status # "approved" /\ policies'[p].status = "approved" =>
            policies'[p].meta.approvedBy \notin {None, policies[p].meta.createdBy}]_libraryVars

\* A generation job becomes at most one policy, unless two approvals of it overlapped or
\* one of them died between the policy's commit and the job's.
GeneratedOnce ==
  \A j \in Jobs : \A p, q \in Policies :
    policies[p].origin = j /\ policies[q].origin = j => p = q \/ j \in reworked
=============================================================================
