----------------------------- MODULE CustomerKyc -----------------------------
(***************************************************************************)
(* The KYC profiles of one customer (the KYC half of api/compliance.py,    *)
(* services/kyc_onboarding.py, services/kyc_periodic_review.py,            *)
(* tasks/kyc_tasks.py) and the findings that their handlers raise          *)
(* (services/finding_service.py and its two bridges).                      *)
(* TransactionMonitoring.tla extends it with the Celery tasks that score   *)
(* the customer's transactions.                                            *)
(*                                                                         *)
(* A handler loads rows and assigns attributes; its one commit writes the  *)
(* columns whose value differs from the one it loaded, over whatever the   *)
(* row holds by then (READ COMMITTED, no row locks, autoflush off).  A     *)
(* finding is looked up by its fingerprint and inserted when the lookup    *)
(* found none; (tenant, fingerprint) is unique, so of two such inserts the *)
(* second fails its whole transaction.                                     *)
(***************************************************************************)
EXTENDS Naturals, FiniteSets

CONSTANTS
  Profiles,    \* primary keys of the customer's KYC profiles
  NoProfile,
  Tx,          \* the customer's transactions (TransactionMonitoring)
  Budgets,     \* bounds of a behaviour, see Budget
  ScanLimit,   \* max_profiles_per_tenant of the nightly scan
  Others       \* how many reviews of the tenant's other customers may be overdue

Budget ==
  [ingests : Nat, requests : Nat, dues : Nat, closes : Nat, faults : Nat, crashes : Nat]

\* "simplified" behaves as standard does, "rejected" as pending, a profile never screened as
\* a clear one.
Profile ==
  [status : {"pending", "approved", "manual_review"}, cdd : {"standard", "enhanced"},
   reason : {"none", "office", "monitoring"}, sanctions : {"clear", "hit"}, due : BOOLEAN]

ASSUME KycAssumption ==
  /\ NoProfile \notin Profiles \cup Profile
  /\ IsFiniteSet(Profiles)
  /\ ScanLimit \in Nat /\ Others \subseteq Nat
  /\ Budgets \subseteq Budget

VARIABLES
  profiles,  \* the committed rows, NoProfile where there is none
  latest,    \* the profile with the greatest updated_at
  findings,  \* status of the finding with each fingerprint
  desk,      \* the compliance request in flight, or Idle
  scan,      \* the findings the nightly scan is about to commit, or Idle
  left,      \* what is left of the bounds
  vetted     \* history: some profile of the customer has been approved

kycVars == <<profiles, latest, findings, desk, scan, left, vetted>>

\* Why monitoring asks for enhanced due diligence: the score of the transaction, its amount.
Reasons == (SUBSET {"risk", "value"}) \ {{}}

New == [status |-> "pending", cdd |-> "standard", reason |-> "none",
        sanctions |-> "clear", due |-> TRUE]

Exists(p) == profiles[p] # NoProfile

\* "hit" stands for the finding of each match and for the onboarding risk raised with them.
\* What the office writes as a reason for an enhanced level is free text: one reason.
Fingerprints ==
  {<<"hit", p>> : p \in Profiles} \cup {<<"expiry", p>> : p \in Profiles}
  \cup {<<"edd", p, r>> : p \in Profiles \cup {NoProfile}, r \in Reasons \cup {{"office"}}}
  \cup {<<"tx", t>> : t \in Tx} \cup {<<"velocity">>}

\* "open" stands for every status but closed.
FindingStatus == {"none", "open", "closed"}

Idle == [kind |-> "idle"]

\* The lookup of a set of fingerprints: what create_or_update_finding knows of each.
Lookup(fps) == [f \in fps |-> findings[f]]

\* The commit of a transaction that looked known up succeeds unless somebody inserted, in
\* between, a finding it inserts too.
Insertable(known) == \A f \in DOMAIN known : known[f] = "none" => findings[f] = "none"

\* An existing finding that was open keeps the status it has by now: no net change.
Raised(known) ==
  [f \in Fingerprints |->
     IF f \in DOMAIN known /\ known[f] # "open" THEN "open" ELSE findings[f]]

\* The row after a commit that loaded seen and assigned new.
Merged(row, seen, new) == [c \in DOMAIN row |-> IF new[c] # seen[c] THEN new[c] ELSE row[c]]

Spend(resource) == left' = [left EXCEPT ![resource] = @ - 1]

KycTypeOK ==
  /\ profiles \in [Profiles -> Profile \cup {NoProfile}]
  /\ latest \in Profiles \cup {NoProfile}
  /\ findings \in [Fingerprints -> FindingStatus]
  /\ left \in Budget
  /\ vetted \in BOOLEAN
  /\ desk = Idle
     \/ /\ desk.kind \in {"onboard", "screen", "set_level", "initiate", "review", "commit"}
        /\ desk.profile \in Profiles /\ desk.seen \in Profile
        /\ (desk.kind = "commit" => desk.new \in Profile)
  /\ scan = Idle \/ (DOMAIN scan.known \subseteq Fingerprints /\ scan.crowded \in BOOLEAN)

\* The customer is new, or has a profile that the office approved before.
KycInit ==
  /\ \E p \in Profiles, known \in BOOLEAN :
       /\ profiles = [q \in Profiles |->
                        IF known /\ q = p
                        THEN [New EXCEPT !.status = "approved", !.due = FALSE] ELSE NoProfile]
       /\ latest = IF known THEN p ELSE NoProfile
       /\ vetted = known
  /\ findings = [f \in Fingerprints |-> "none"]
  /\ desk = Idle
  /\ scan = Idle
  /\ left \in Budgets

-----------------------------------------------------------------------------
(* The compliance office *)

\* POST /kyc: the profile is committed before the best-effort onboarding that follows in
\* the same request and loads it again.
CreateProfile(p) ==
  /\ desk = Idle /\ left.requests > 0
  /\ ~Exists(p)
  /\ profiles' = [profiles EXCEPT ![p] = New]
  /\ latest' = p
  /\ desk' = [kind |-> "onboard", profile |-> p, seen |-> New]
  /\ Spend("requests")
  /\ UNCHANGED <<findings, scan, vetted>>

\* The other requests about a profile, up to the load of its row.
Request(kind, p) ==
  /\ desk = Idle /\ left.requests > 0
  /\ Exists(p)
  /\ kind \in {"screen", "set_level", "initiate", "review"}
  /\ desk' = [kind |-> kind, profile |-> p, seen |-> profiles[p]]
  /\ Spend("requests")
  /\ UNCHANGED <<profiles, latest, findings, scan, vetted>>

Prepared(new, fps) ==
  desk' = [kind |-> "commit", profile |-> desk.profile, seen |-> desk.seen, new |-> new,
           known |-> Lookup(fps), touched |-> (desk.kind # "review" \/ new # desk.seen)]

\* The finding goes with the change to the enhanced level.
LevelFindings(p, seen, level) ==
  IF seen.cdd # "enhanced" /\ level = "enhanced" THEN {<<"edd", p, {"office"}>>} ELSE {}

HitFindings(p, sanctions) == IF sanctions = "hit" THEN {<<"hit", p>>} ELSE {}

\* initiate_onboarding: screens, then infers the level from the result and the risk signals.
Onboard(sanctions, signals) ==
  /\ desk.kind = "onboard"
  /\ LET level == IF sanctions = "hit" \/ signals THEN "enhanced" ELSE "standard"
     IN Prepared([desk.seen EXCEPT !.status = "pending", !.sanctions = sanctions, !.cdd = level,
                                   !.reason = "office", !.due = FALSE],
                 HitFindings(desk.profile, sanctions)
                   \cup LevelFindings(desk.profile, desk.seen, level))
  /\ UNCHANGED <<profiles, latest, findings, scan, left, vetted>>

\* POST /kyc/{id}/screen leaves the level alone.
Screen(sanctions) ==
  /\ desk.kind = "screen"
  /\ Prepared([desk.seen EXCEPT !.sanctions = sanctions], HitFindings(desk.profile, sanctions))
  /\ UNCHANGED <<profiles, latest, findings, scan, left, vetted>>

\* POST /kyc/{id}/set-cdd-level
SetLevel(level) ==
  /\ desk.kind = "set_level"
  /\ Prepared([desk.seen EXCEPT !.cdd = level, !.reason = "office", !.due = FALSE],
              LevelFindings(desk.profile, desk.seen, level))
  /\ UNCHANGED <<profiles, latest, findings, scan, left, vetted>>

\* POST /kyc/{id}/initiate-review, from any status.
InitiateReview ==
  /\ desk.kind = "initiate"
  /\ Prepared([desk.seen EXCEPT !.status = "manual_review"], {})
  /\ UNCHANGED <<profiles, latest, findings, scan, left, vetted>>

\* POST /cases/{id}/review writes the status and nothing else: the next review stays due.
Review(status) ==
  /\ desk.kind = "review"
  /\ Prepared([desk.seen EXCEPT !.status = status], {})
  /\ UNCHANGED <<profiles, latest, findings, scan, left, vetted>>

Commit ==
  /\ desk.kind = "commit"
  /\ Insertable(desk.known)
  /\ LET row == Merged(profiles[desk.profile], desk.seen, desk.new)
     IN /\ profiles' = [profiles EXCEPT ![desk.profile] = row]
        /\ vetted' = (vetted \/ row.status = "approved")
  /\ latest' = IF desk.touched THEN desk.profile ELSE latest
  /\ findings' = Raised(desk.known)
  /\ desk' = Idle
  /\ UNCHANGED <<scan, left>>

\* A lost race for a fingerprint, a failure of the screening or of the database, or a crash
\* of the process: the transaction is rolled back.
RequestFails ==
  /\ desk # Idle
  /\ desk' = Idle
  /\ UNCHANGED <<profiles, latest, findings, scan, left, vetted>>

-----------------------------------------------------------------------------
(* Time, the nightly scan and the analysts *)

FallsDue(p) ==
  /\ left.dues > 0
  /\ Exists(p) /\ ~profiles[p].due
  /\ profiles' = [profiles EXCEPT ![p].due = TRUE]
  /\ Spend("dues")
  /\ UNCHANGED <<latest, findings, desk, scan, vetted>>

DueMutant(p) == Exists(p) /\ profiles[p].due /\ profiles[p].status = "approved"

Due(p) == Exists(p) /\ profiles[p].due /\ profiles[p].status \in {"approved", "manual_review"}

DueProfiles == {p \in Profiles : Due(p)}

\* Of all the overdue reviews of a tenant the scan takes the ScanLimit that are overdue the
\* longest: all of this customer's, or ScanLimit together with those of the others.
Taken(others) ==
  {S \in SUBSET DueProfiles :
     /\ Cardinality(S) <= ScanLimit
     /\ S = DueProfiles \/ Cardinality(S) + others >= ScanLimit}

\* The task begins every night: one transaction for the customers of all tenants.
ScanStarts ==
  /\ scan = Idle /\ DueProfiles # {}
  /\ \E others \in Others : \E S \in Taken(others) :
       scan' = [kind |-> "scan", known |-> Lookup({<<"expiry", p>> : p \in S}),
                crowded |-> Cardinality(DueProfiles) + others > ScanLimit]
  /\ UNCHANGED <<profiles, latest, findings, desk, left, vetted>>

\* A failure at any customer of any tenant, or the loss of the worker, rolls everything back.
ScanFails ==
  /\ scan # Idle /\ left.faults > 0
  /\ scan' = Idle
  /\ Spend("faults")
  /\ UNCHANGED <<profiles, latest, findings, desk, vetted>>

\* Nobody else inserts a finding of this kind: its commit loses no race.
ScanEnds ==
  /\ scan # Idle
  /\ Insertable(scan.known)
  /\ findings' = Raised(scan.known)
  /\ scan' = Idle
  /\ UNCHANGED <<profiles, latest, desk, left, vetted>>

\* POST /findings/{id}/close: 409 when it is closed already.
CloseFinding(f) ==
  /\ left.closes > 0
  /\ findings[f] = "open"
  /\ findings' = [findings EXCEPT ![f] = "closed"]
  /\ Spend("closes")
  /\ UNCHANGED <<profiles, latest, desk, scan, vetted>>

Handle ==
  \/ \E sanctions \in {"clear", "hit"} :
       Screen(sanctions) \/ \E signals \in BOOLEAN : Onboard(sanctions, signals)
  \/ \E level \in {"standard", "enhanced"} : SetLevel(level)
  \/ InitiateReview
  \/ \E status \in {"approved", "pending"} : Review(status)

KycNext ==
  \/ \E p \in Profiles : CreateProfile(p) \/ FallsDue(p)
  \/ \E p \in Profiles, kind \in {"screen", "set_level", "initiate", "review"} : Request(kind, p)
  \/ Handle \/ Commit \/ RequestFails
  \/ ScanStarts \/ ScanFails \/ ScanEnds
  \/ \E f \in Fingerprints : CloseFinding(f)

-----------------------------------------------------------------------------
(* Correctness *)

\* Whoever decides it, the office or a transaction, and whatever they race with, a customer
\* is put under enhanced due diligence only together with a finding that says so, and a
\* sanctions hit never lacks the finding an analyst is to triage (determine_cdd_level,
\* trigger_edd_from_transactions, screen_customer).
PostureHasFinding ==
  \A p \in Profiles : Exists(p) =>
    /\ profiles[p].cdd = "enhanced" =>
         \E r \in Reasons \cup {{"office"}} : findings[<<"edd", p, r>>] # "none"
    /\ profiles[p].sanctions = "hit" => findings[<<"hit", p>>] # "none"

Overdue(p) ==
  Exists(p) /\ profiles[p].due /\ profiles[p].status # "pending"

\* The scan meets more overdue reviews than it takes.
Crowded == scan # Idle /\ scan.crowded

\* A profile that is on file and whose review is overdue gets its finding, or is not overdue
\* any more: the nightly scan reaches it, approved or under review, although it fails now
\* and then (task_periodic_kyc_review_scan).  It may pass the profile over for ever only by
\* meeting, again and again, more overdue reviews of the tenant than it takes, and it moves
\* none of them out of its own way.
OverdueIsRaised ==
  \A p \in Profiles :
    Overdue(p) ~> (~Overdue(p) \/ findings[<<"expiry", p>>] # "none" \/ Crowded)
=============================================================================
