----------------------------- MODULE Obligations -----------------------------
(***************************************************************************)
(* The register of regulatory obligations: api/obligations.py, the half of *)
(* api/compliance_workflow.py that writes obligations,                     *)
(* services/obligation_service.py, services/gap_analyzer.py and the rows   *)
(* that tie an obligation to a policy: its linked_policy_id, the mappings, *)
(* the internal rules.                                                     *)
(*                                                                         *)
(* As in PolicyLibrary a request in flight is what its commit will write:  *)
(* columns of obligations that it changed, mappings it inserts or updates, *)
(* rules it inserts, the master policy it had to create.  The audit        *)
(* records of an approval are a transaction of their own, after it.        *)
(***************************************************************************)
EXTENDS PolicyLibrary

CONSTANT Obligations

VARIABLES
  obligations,  \* the committed rows
  mappings,     \* obligation_policy_mappings
  controls,     \* internal rules: the obligation and the policy whose section holds the rule
  trail,        \* decision records "obligation_approved", "obligation_rejected"
  order,        \* per worker: its request about obligations, or Idle
  signer,       \* history: the user whose commit last moved the obligation to approved
  settled,      \* history: the verdicts whose status was ever committed
  waived        \* history: obligations approved without asking for a rule or a link, unmapped
                \* by hand, or linked anew without the mapping that protects a link

registerVars == <<obligations, mappings, controls, trail, order, signer, settled, waived>>
vars == <<doors, policies, jobs, work, reworked, rewritten, registerVars>>

Statuses == {"draft", "in_review", "approved", "rejected", "deprecated"}
Verdicts == {"approved", "rejected"}
Same == "same"   \* a column the UPDATE does not name

Obligation == [status : Statuses \cup {"absent"}, createdBy : Users \cup {None},
               linked : Policies \cup {None}]

Unknown == [status |-> "absent", createdBy |-> None, linked |-> None]

RowWrite == [status : Statuses \cup {Same}, linked : Policies \cup {Same}]
Pairs == Obligations \X Policies

ASSUME RegisterAssumption == Same \notin Policies

Audits == Obligations \X Verdicts

Order(S, M) ==
  [step : {"ready"}, by : Users \cup {None}, rows : [S -> RowWrite], inserts : BOOLEAN,
   newMaps : SUBSET Pairs, oldMaps : SUBSET Pairs, rules : SUBSET Pairs,
   masters : [M -> Write], waives : SUBSET {"link", "rule"}, audits : SUBSET Audits]

TypeOK ==
  /\ LibraryTypeOK
  /\ obligations \in [Obligations -> Obligation]
  /\ mappings \subseteq Pairs
  /\ controls \subseteq Obligations \X (Policies \cup {None})
  /\ trail \subseteq Audits
  /\ DOMAIN order = Workers
  /\ \A w \in Workers :
       \/ order[w] \in {Idle} \cup [step : {"committed"}, audits : SUBSET Audits]
       \/ \E S \in SUBSET Obligations, M \in SUBSET {Master} : order[w] \in Order(S, M)
  /\ signer \in [Obligations -> Users \cup {None}]
  /\ settled \subseteq Audits
  /\ waived \subseteq Obligations \X {"link", "rule"}

Init ==
  /\ LibraryInit
  /\ obligations = [o \in Obligations |-> Unknown]
  /\ mappings = {} /\ controls = {} /\ trail = {}
  /\ order = [w \in Workers |-> Idle]
  /\ signer = [o \in Obligations |-> None]
  /\ settled = {} /\ waived = {}

Recorded(o) == obligations[o].status # "absent"
Free(w) == work[w] = Idle /\ order[w] = Idle

Empty ==
  [step |-> "ready", by |-> None, rows |-> <<>>, inserts |-> FALSE, newMaps |-> {},
   oldMaps |-> {}, rules |-> {}, masters |-> <<>>, waives |-> {}, audits |-> {}]

\* A request that changes nothing the model keeps (a note, a reviewer) is left out.
Submit(w, request) ==
  /\ Free(w)
  /\ \/ request.newMaps # {} \/ request.oldMaps # {} \/ request.inserts
     \/ \E o \in DOMAIN request.rows :
          request.rows[o].status # Same \/ request.rows[o].linked # Same
  /\ order' = [order EXCEPT ![w] = request]
  /\ UNCHANGED <<doors, libraryVars, obligations, mappings, controls, trail,
                 signer, settled, waived>>

Changed(old, new) == IF new = old THEN Same ELSE new

\* _upsert_obligation_policy_mapping: the query decides between INSERT and UPDATE.
Upserting(request, pairs) ==
  [request EXCEPT !.newMaps = pairs \ mappings, !.oldMaps = pairs \cap mappings]

\* _ensure_internal_rule_for_obligation: a rule if there is none, a section for one without.
MissingRules(pairs) ==
  {pair \in pairs : \A c \in controls : c[1] = pair[1] => c[2] = None}
-----------------------------------------------------------------------------
(* api/obligations.py.                                                     *)

Transitions ==
  [absent |-> {}, draft |-> {"in_review", "approved", "rejected", "deprecated"},
   in_review |-> {"approved", "rejected", "draft"}, approved |-> {"deprecated"},
   rejected |-> {"draft", "in_review"}, deprecated |-> {}]

FourEyesCheckMutant(o, u) ==
  obligations[o].status = "in_review" => u # obligations[o].createdBy

\* _enforce_obligation_four_eyes, asked on a transition to approved only.
FourEyesCheck(o, u) ==
  obligations[o].status # "approved" => u # obligations[o].createdBy

Target(o, asked) == IF asked # None THEN asked ELSE obligations[o].linked

\* The checks of _approve_obligation_core, in which autoLink is auto_link_best_suggestion.
Acceptable(o, u, status, asked, autoLink) ==
  /\ Recorded(o)
  /\ status \in Transitions[obligations[o].status] \cup {obligations[o].status}
  /\ status = "approved" => FourEyesCheck(o, u)
  /\ status = "approved" /\ Target(o, asked) = None => autoLink

\* What it assigns; an approved obligation without a policy gets the master policy of the
\* best template, created or made active again on the way.
Decision(S, u, status, asked, control) ==
  LET policyOf(o) == IF status = "approved" /\ Target(o, asked) = None THEN Master
                     ELSE Target(o, asked)
      pairs == IF status = "approved" THEN {<<o, policyOf(o)>> : o \in S} ELSE {}
  IN  Upserting(
        [Empty EXCEPT
           !.by = IF status = "approved" THEN u ELSE None,
           !.rows = [o \in S |->
             [status |-> Changed(obligations[o].status, status),
              linked |-> Changed(obligations[o].linked, policyOf(o))]],
           !.rules = IF control THEN MissingRules(pairs) ELSE {},
           !.masters = IF status = "approved" /\ \E o \in S : Target(o, asked) = None
                       THEN EnsureMaster ELSE <<>>,
           !.waives = IF status # "approved" THEN {"link"}
                      ELSE IF control THEN {} ELSE {"rule"}],
        pairs)

\* PATCH /{id}: links, maps and adds the rule on approval; no audit record.
PatchStatus(w, o, u, status) ==
  /\ Acceptable(o, u, status, None, TRUE)
  /\ Submit(w, Decision({o}, u, status, None, TRUE))

UpdateObligation(w) ==
  /\ "patch" \in doors
  /\ \E o \in Obligations, u \in Users, status \in Statuses : PatchStatus(w, o, u, status)

\* PATCH /{id}/approve: an optional policy, whatever the new status, and three switches.
ApproveObligation(w) ==
  /\ "approve" \in doors
  /\ \E o \in Obligations, u \in Users, status \in Statuses, autoLink, control \in BOOLEAN,
        asked \in {p \in Policies : Exists(p)} \cup {None} :
       /\ Acceptable(o, u, status, asked, autoLink)
       /\ Submit(w, [Decision({o}, u, status, asked, control)
                     EXCEPT !.audits = {<<o, status>>} \cap Audits])

\* POST /bulk-approve: items that fail their checks are rolled back to their savepoint and
\* skipped, the others share one commit; an approval is always auto-linked.
BulkApprove(w) ==
  /\ "bulk" \in doors
  /\ \E S \in SUBSET Obligations, u \in Users, status \in Statuses, control \in BOOLEAN :
       LET passed == {o \in S : Acceptable(o, u, status, None, TRUE)} IN
       /\ passed # {}
       /\ Submit(w, [Decision(passed, u, status, None, control)
                     EXCEPT !.audits = (passed \X {status}) \cap Audits])
-----------------------------------------------------------------------------
(* api/compliance_workflow.py.                                             *)

\* approve_obligation: from any status, and neither link, mapping, rule nor audit record.
WorkflowApprove(w) ==
  /\ "workflow" \in doors
  /\ \E o \in Obligations, u \in Users :
       /\ Recorded(o)
       /\ FourEyesCheck(o, u)
       /\ Submit(w, [Empty EXCEPT
            !.by = u, !.waives = {"link", "rule"},
            !.rows = [q \in {o} |-> [status |-> Changed(obligations[o].status, "approved"),
                                     linked |-> Same]]])

\* extract_policy_obligations, one candidate sentence of the policy: a draft of the user's, or
\* the link of one that has lost it.
ExtractObligation(w) ==
  /\ "extract" \in doors
  /\ \E o \in Obligations, u \in Users, p \in Policies :
       /\ Exists(p) /\ Editable(p, u)
       /\ Recorded(o) => obligations[o].linked = None
       /\ Submit(w, [Empty EXCEPT
            !.by = u, !.inserts = ~Recorded(o),
            !.waives = IF Recorded(o) THEN {"link"} ELSE {},
            !.rows = [q \in {o} |->
              [status |-> IF Recorded(o) THEN Same ELSE "draft", linked |-> p]]])
-----------------------------------------------------------------------------
(* Links.                                                                  *)

\* link_obligation_to_policy and map_obligation_to_policy: link and mapping in one commit.
LinkObligation(w) ==
  /\ "links" \in doors
  /\ \E o \in Obligations, p \in Policies :
       /\ Recorded(o) /\ Exists(p)
       /\ Submit(w, Upserting(
            [Empty EXCEPT !.rows = [q \in {o} |->
               [status |-> Same, linked |-> Changed(obligations[o].linked, p)]]],
            {<<o, p>>}))

\* auto_map_obligation_policies: a suggestion, without the link.
AutoMap(w) ==
  /\ "links" \in doors
  /\ \E o \in Obligations, p \in Policies :
       /\ obligations[o].status \in {"draft", "in_review"} /\ Exists(p)
       /\ Submit(w, Upserting(Empty, {<<o, p>>}))

\* unmap_obligation: a DELETE and an UPDATE of what the rows hold now.
Unmap(o) ==
  /\ "links" \in doors
  /\ Recorded(o)
  /\ mappings' = {m \in mappings : m[1] # o}
  /\ obligations' = [obligations EXCEPT ![o].linked = None]
  /\ waived' = waived \cup {<<o, "link">>}
  /\ UNCHANGED <<doors, libraryVars, controls, trail, order, signer, settled>>
-----------------------------------------------------------------------------
(* The ingestion.                                                          *)

\* seed_obligations_for_doc: nobody is its creator.
SeedObligation(o) ==
  /\ "ingestion" \in doors
  /\ ~Recorded(o)
  /\ obligations' = [obligations EXCEPT ![o].status = "draft"]
  /\ UNCHANGED <<doors, libraryVars, mappings, controls, trail, order, signer, settled, waived>>

\* mark_related_obligations_for_review, when an amending act arrives.
MarkForReview(w) ==
  /\ "amendments" \in doors
  /\ LET marked == {o \in Obligations : obligations[o].status = "approved"} IN
     /\ marked # {}
     /\ Submit(w, [Empty EXCEPT !.rows =
          [o \in marked |-> [status |-> "in_review", linked |-> Same]]])
-----------------------------------------------------------------------------
(* Commits.                                                                *)

\* The rows the request needs are still there, and those it inserts are not there yet.
\* policies[p] may be the master policy of this very request.
Committable(request) ==
  LET policies1 == Applied(request.masters)
      needed == {pair[2] : pair \in request.newMaps \cup request.rules}
                \cup {request.rows[o].linked : o \in DOMAIN request.rows} IN
  /\ Applies(request.masters)
  /\ \A p \in needed \ {Same} : policies1[p].status \notin {"absent", "deleted"}
  /\ request.newMaps \cap mappings = {}
  /\ request.oldMaps \subseteq mappings
  /\ request.inserts => \A o \in DOMAIN request.rows : ~Recorded(o)

Merged(row, write, by, inserts) ==
  [status |-> IF write.status = Same THEN row.status ELSE write.status,
   linked |-> IF write.linked = Same THEN row.linked ELSE write.linked,
   createdBy |-> IF inserts THEN by ELSE row.createdBy]

After(request) ==
  [o \in Obligations |->
     IF o \in DOMAIN request.rows
       THEN Merged(obligations[o], request.rows[o], request.by, request.inserts)
       ELSE obligations[o]]

\* db.commit().
CommitOrder(w) ==
  LET request == order[w]
      approved == {o \in DOMAIN request.rows : request.rows[o].status = "approved"}
      linked == {o \in DOMAIN request.rows : request.rows[o].linked # Same}
      backed == {o \in Obligations :
                   <<o, After(request)[o].linked>> \in request.newMaps \cup request.oldMaps}
  IN
  /\ request.step = "ready"
  /\ Committable(request)
  /\ policies' = Applied(request.masters)
  /\ obligations' = After(request)
  /\ mappings' = mappings \cup request.newMaps
  /\ controls' = controls \cup request.rules
  /\ signer' = [o \in Obligations |-> IF o \in approved THEN request.by ELSE signer[o]]
  /\ settled' = settled \cup {v \in Audits : v[1] \in DOMAIN request.rows
                                             /\ request.rows[v[1]].status = v[2]}
  /\ waived' = (waived \ (backed \X {"link"})) \cup ((approved \cup linked) \X request.waives)
  /\ order' = [order EXCEPT ![w] =
       IF request.audits = {} THEN Idle
       ELSE [step |-> "committed", audits |-> request.audits]]
  /\ UNCHANGED <<doors, jobs, work, reworked, rewritten, trail>>

\* _emit_obligation_approval_side_effects, item by item; a failure is passed over.
EmitSideEffects(w) ==
  /\ order[w].step = "committed"
  /\ \E a \in order[w].audits, kept \in BOOLEAN :
       /\ trail' = IF kept THEN trail \cup {a} ELSE trail
       /\ order' = [order EXCEPT ![w] =
            IF order[w].audits = {a} THEN Idle
            ELSE [step |-> "committed", audits |-> order[w].audits \ {a}]]
  /\ UNCHANGED <<doors, libraryVars, obligations, mappings, controls, signer, settled, waived>>

\* The commit raises, or the process dies.
AbortOrderMutant(w) ==
  /\ order[w] # Idle
  /\ order' = [order EXCEPT ![w] =
       IF order[w].step = "ready" /\ order[w].audits # {}
         THEN [step |-> "committed", audits |-> order[w].audits] ELSE Idle]
  /\ UNCHANGED <<doors, libraryVars, obligations, mappings, controls, trail,
                 signer, settled, waived>>

AbortOrder(w) ==
  /\ order[w] # Idle
  /\ order' = [order EXCEPT ![w] = Idle]
  /\ UNCHANGED <<doors, libraryVars, obligations, mappings, controls, trail,
                 signer, settled, waived>>
-----------------------------------------------------------------------------
(* Steps that policies and obligations share.                              *)

Linked(p) == {o \in Obligations : obligations[o].linked = p}
Mapped(p) == {o \in Obligations : <<o, p>> \in mappings}
Controlled(p) == {o \in Obligations : <<o, p>> \in controls}

\* delete_policy: no obligation has the policy when the request counts them.
DeletePolicy(w) ==
  /\ "delete" \in doors
  /\ \E p \in Policies \ {Master} :
       /\ Exists(p)
       /\ Linked(p) \cup Mapped(p) = {}
       /\ Free(w)
       /\ work' = [work EXCEPT ![w] = [step |-> "delete", policy |-> p]]
  /\ UNCHANGED <<doors, policies, jobs, reworked, rewritten, registerVars>>

DeletableMutant(p) == Exists(p) /\ Controlled(p) = {}

\* The unit of work sets the link of obligations that have the policy by now to NULL; a
\* mapping, whose policy may not be NULL, or a rule in a section of it makes it raise.
Deletable(p) == Exists(p) /\ Mapped(p) = {} /\ Controlled(p) = {}

CommitDelete(w) ==
  /\ work[w].step = "delete"
  /\ Deletable(work[w].policy)
  /\ policies' = [policies EXCEPT ![work[w].policy] = [Blank EXCEPT !.status = "deleted"]]
  /\ obligations' = [o \in Obligations |->
       IF o \in Linked(work[w].policy) THEN [obligations[o] EXCEPT !.linked = None]
       ELSE obligations[o]]
  /\ work' = [work EXCEPT ![w] = Idle]
  /\ UNCHANGED <<doors, jobs, reworked, rewritten, mappings, controls, trail, order,
                 signer, settled, waived>>

\* The second commit of approve_generation: the job and the links of what it covers.
LinkCovered(w) ==
  /\ CommitApprovedJob(w)
  /\ Exists(work[w].policy)
  /\ \E S \in SUBSET {o \in Obligations : Recorded(o)} :
       /\ obligations' = [o \in Obligations |->
            IF o \in S THEN [obligations[o] EXCEPT !.linked = work[w].policy]
            ELSE obligations[o]]
       /\ mappings' = mappings \cup (S \X {work[w].policy})
       /\ waived' = waived \ (S \X {"link"})
  /\ UNCHANGED <<doors, controls, trail, order, signer, settled>>

\* _suggest_monitoring_rules: a rule without a section for obligations it finds without one.
AddSuggestedRules(w) ==
  /\ SuggestRules(w)
  /\ \E S \in SUBSET {o \in Obligations : Recorded(o)} : controls' = controls \cup (S \X {None})
  /\ UNCHANGED <<doors, obligations, mappings, trail, order, signer, settled, waived>>
-----------------------------------------------------------------------------
Worker(w) ==
  \/ UpdateObligation(w) \/ ApproveObligation(w) \/ BulkApprove(w)
  \/ WorkflowApprove(w) \/ ExtractObligation(w)
  \/ LinkObligation(w) \/ AutoMap(w) \/ MarkForReview(w)
  \/ CommitOrder(w) \/ EmitSideEffects(w) \/ AbortOrder(w)
  \/ DeletePolicy(w) \/ CommitDelete(w) \/ LinkCovered(w) \/ AddSuggestedRules(w)
  \/ order[w] = Idle /\ PolicyHandler(w) /\ UNCHANGED <<doors, registerVars>>

Next ==
  \/ \E w \in Workers : Worker(w)
  \/ \E o \in Obligations : Unmap(o) \/ SeedObligation(o)
  \/ Generation /\ UNCHANGED <<doors, registerVars>>

Spec == Init /\ [][Next]_vars
-----------------------------------------------------------------------------
(* Properties.                                                             *)

\* "4-eyes violation: approver cannot be the same as the obligation creator": the commit that
\* made an obligation approved was not its creator's, through whichever of the four endpoints
\* and however their requests overlap with the reviews an amending act asks for.
ApprovedByAnother ==
  \A o \in Obligations :
    obligations[o].status = "approved" =>
      signer[o] # None /\ signer[o] # obligations[o].createdBy

\* "Ensure an approved obligation is mapped into a policy and has an internal rule": unless
\* that was taken away by hand, switched off in the request, or the workflow approved it,
\* which asks for neither; no deletion of a policy and no stale request loses them.
ApprovedIsSupported ==
  \A o \in Obligations :
    obligations[o].status = "approved" =>
      /\ <<o, "link">> \in waived \/ obligations[o].linked # None
      /\ <<o, "rule">> \in waived \/ \E c \in controls : c[1] = o

\* A decision record is never of an approval or rejection that was rolled back.
AuditIsTrue == trail \subseteq settled
=============================================================================
