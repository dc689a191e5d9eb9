--------------------- MODULE TransactionMonitoringProofs ---------------------
(***************************************************************************)
(* Theorems about TransactionMonitoring, for every set of profiles and     *)
(* transactions, every kind of transaction, every threshold of the         *)
(* velocity rule, any number of retries and of faults, crashes, requests   *)
(* and closed findings.                                                    *)
(***************************************************************************)
EXTENDS TransactionMonitoring, TLAPS

-----------------------------------------------------------------------------
(* The inductive invariant: what was read stays true enough.  Findings are *)
(* never deleted, profiles neither; a customer once vetted stays vetted;   *)
(* so whatever a session has read of them supports what it will write.     *)

Found(f) == findings[f] # "none"

EddFound ==
  \E p \in Profiles \cup {NoProfile}, r \in Reasons \cup {{"office"}} : Found(<<"edd", p, r>>)

\* A finding that a lookup has seen is still there.
KnownTrue(known) ==
  /\ DOMAIN known \subseteq Fingerprints
  /\ \A f \in DOMAIN known : known[f] # "none" => Found(f)

\* A risk row, or a copy of it, tells of a profile that exists and of an approval that was.
RowTrue(r) ==
  /\ r \in Row
  /\ r.link # NoProfile => Exists(r.link)
  /\ r.kyc = "approved" => vetted

ProfileTrue(s) ==
  /\ s \in Profile
  /\ s.status = "approved" => vetted
  /\ s.cdd = "enhanced" => EddFound

\* The profile that a session works on, with the copy it has loaded of it.
Loaded(p, s) ==
  /\ p \in Profiles \cup {NoProfile}
  /\ p # NoProfile => Exists(p) /\ s \in Profile

\* What the compliance request will write comes with the findings that explain it.
DeskTrue ==
  /\ desk # Idle => Exists(desk.profile)
  /\ desk.kind = "commit" =>
       /\ KnownTrue(desk.known)
       /\ desk.new.cdd = "enhanced" =>
            \/ desk.seen.cdd = "enhanced"
            \/ <<"edd", desk.profile, {"office"}>> \in DOMAIN desk.known
       /\ desk.new.sanctions = "hit" =>
            \/ desk.seen.sanctions = "hit"
            \/ <<"hit", desk.profile>> \in DOMAIN desk.known

KycTrue ==
  /\ \A p \in Profiles : Exists(p) => (profiles[p].status = "approved" => vetted)
  /\ latest # NoProfile => Exists(latest)
  /\ DeskTrue

\* The phases behind the commit of the rules, of the customer's row, of the escalation.
AfterRules ==
  {"scored", "counting", "counted", "profiling", "mirroring", "profiled", "linking",
   "triggering", "acknowledging", "done"}

AfterRow == {"profiled", "linking", "triggering", "acknowledging", "done"}

AfterEscalation == {"acknowledging", "done"}

RulesDone(t) == tasks[t].hit => alerts[t] > 0 /\ t \in flagged

EscalationDone(t) ==
  /\ tasks[t].risky => EscalationFound("risk")
  /\ tasks[t].large /\ ~vetted => EscalationFound("value")

\* What an attempt has committed by its phase.
Progress(t) ==
  /\ tasks[t].phase \in AfterRules => RulesDone(t)
  /\ tasks[t].phase \in AfterRow => row.made
  /\ tasks[t].phase \in AfterEscalation => EscalationDone(t)

ScoringTrue(t, held) ==
  /\ held.risky \in BOOLEAN /\ held.count \in Nat /\ KnownTrue(held.known)
  /\ tasks[t].hit => <<"tx", t>> \in DOMAIN held.known

CountingTrue(held) ==
  /\ held.count \in Nat /\ KnownTrue(held.known)
  /\ held.fires => <<"velocity">> \in DOMAIN held.known

ProfilingTrue(held) ==
  /\ RowTrue(held.seen)
  /\ held.seen.edd => EddFound
  /\ held.seen.made => row.made

MirroringTrue(held) ==
  /\ RowTrue(held.seen) /\ RowTrue(held.new)
  /\ held.new.edd => EddFound
  /\ held.seen.made => row.made
  /\ held.new.made

LinkingTrue(held) ==
  /\ Loaded(held.profile, held.seen)
  /\ held.profile # NoProfile => ProfileTrue(held.seen)

\* A session about to commit an escalation: whatever it writes to the row has its finding,
\* and the reasons it goes by are all those that hold.
TriggeringTrue(t, held) ==
  /\ Loaded(held.profile, held.seen)
  /\ RowTrue(held.seenRow) /\ held.seenRow.made
  /\ RowTrue(held.newRow) /\ held.newRow.made
  /\ held.newRow.edd => EddFound \/ held.reasons # {}
  /\ held.reasons \subseteq {"risk", "value"}
  /\ KnownTrue(held.known)
  /\ held.reasons # {} => <<"edd", held.profile, held.reasons>> \in DOMAIN held.known
  /\ tasks[t].risky => "risk" \in held.reasons
  /\ tasks[t].large /\ ~vetted => "value" \in held.reasons

SessionTrue(t) ==
  LET held == tasks[t].held IN
  /\ At(t, "scoring") => ScoringTrue(t, held)
  /\ At(t, "counting") => CountingTrue(held)
  /\ At(t, "profiling") => ProfilingTrue(held)
  /\ At(t, "mirroring") => MirroringTrue(held)
  /\ At(t, "linking") => LinkingTrue(held)
  /\ At(t, "triggering") => TriggeringTrue(t, held)

\* What TypeOK says of a task.
TaskTyped(t) ==
  /\ DOMAIN tasks[t] = DOMAIN NoTask
  /\ tasks[t].phase \in Phases
  /\ {tasks[t].hit, tasks[t].large, tasks[t].risky} \subseteq BOOLEAN
  /\ tasks[t].starts \in Nat /\ tasks[t].retries \in 0..MaxRetries
  /\ ~Running(t) => tasks[t].held = Idle

IInv ==
  /\ TypeOK
  /\ DOMAIN tasks = Tx
  /\ KycTrue
  /\ RowTrue(row)
  /\ FindingsMade
  /\ \A t \in Tx : Progress(t) /\ SessionTrue(t)

-----------------------------------------------------------------------------
(* Rows and findings                                                       *)

\* A merged row has each of its columns from the row or from what was assigned.
LEMMA MergedRow ==
  ASSUME NEW r \in Row, NEW s \in Row, NEW n \in Row
  PROVE  /\ Merged(r, s, n) \in Row
         /\ Merged(r, s, n).link \in {r.link, n.link}
         /\ Merged(r, s, n).kyc \in {r.kyc, n.kyc}
         /\ Merged(r, s, n).edd => r.edd \/ n.edd
         /\ r.made /\ (s.made => n.made) => Merged(r, s, n).made
         /\ (s.made => r.made) /\ n.made => Merged(r, s, n).made
BY DEF Merged, Row

LEMMA MergedProfile ==
  ASSUME NEW r \in Profile, NEW s \in Profile, NEW n \in Profile
  PROVE  /\ Merged(r, s, n) \in Profile
         /\ Merged(r, s, n).status \in {r.status, n.status}
         /\ n.status = s.status => Merged(r, s, n).status = r.status
         /\ Merged(r, s, n).cdd = "enhanced" =>
              r.cdd = "enhanced" \/ (n.cdd = "enhanced" /\ s.cdd # "enhanced")
         /\ Merged(r, s, n).sanctions = "hit" =>
              r.sanctions = "hit" \/ (n.sanctions = "hit" /\ s.sanctions # "hit")
BY DEF Merged, Profile

LEMMA FingerprintsOf ==
  /\ \A p \in Profiles \cup {NoProfile}, r \in Reasons \cup {{"office"}} :
       <<"edd", p, r>> \in Fingerprints
  /\ \A p \in Profiles : <<"hit", p>> \in Fingerprints /\ <<"expiry", p>> \in Fingerprints
  /\ \A t \in Tx : <<"tx", t>> \in Fingerprints
  /\ <<"velocity">> \in Fingerprints
BY DEF Fingerprints

\* What has been looked up is known; what was known and is committed is there.
LEMMA LookupTrue ==
  ASSUME NEW fps \in SUBSET Fingerprints
  PROVE  DOMAIN Lookup(fps) = fps /\ KnownTrue(Lookup(fps))
BY DEF Lookup, KnownTrue, Found

\* The findings after a commit that has known: those of the commit are there, and those
\* there were.
LEMMA RaisedFound ==
  ASSUME TypeOK, NEW known, findings' = Raised(known)
  PROVE  /\ findings' \in [Fingerprints -> FindingStatus]
         /\ \A f \in Fingerprints : Found(f) => Found(f)'
         /\ KnownTrue(known) => \A f \in DOMAIN known : Found(f)'
<1>1. findings \in [Fingerprints -> FindingStatus]
  BY DEF TypeOK, KycTypeOK
<1>2. \A f \in Fingerprints :
        findings'[f] = IF f \in DOMAIN known /\ known[f] # "open" THEN "open" ELSE findings[f]
  BY DEF Raised
<1>3. findings' \in [Fingerprints -> FindingStatus]
  BY <1>1 DEF Raised, FindingStatus
<1>4. \A f \in Fingerprints : Found(f) => Found(f)'
  BY <1>2 DEF Found
<1>5. KnownTrue(known) => \A f \in DOMAIN known : Found(f)'
  BY <1>2 DEF Found, KnownTrue
<1> QED
  BY <1>3, <1>4, <1>5

-----------------------------------------------------------------------------
(* What only grows, and what it leaves true                                *)

FindingsGrow ==
  /\ \A f \in Fingerprints : Found(f) => Found(f)'
  /\ \A p \in Profiles : Exists(p) => Exists(p)'
  /\ vetted => vetted'

ResultsGrow ==
  /\ \A t \in Tx : alerts[t] > 0 => alerts'[t] > 0
  /\ flagged \subseteq flagged'
  /\ row.made => row'.made

LEMMA EddStays ==
  ASSUME FindingsGrow
  PROVE  /\ EddFound => EddFound'
         /\ \A reason : EscalationFound(reason) => EscalationFound(reason)'
<1>1. EddFound => EddFound'
  BY FingerprintsOf DEF EddFound, FindingsGrow
<1>2. ASSUME NEW reason, EscalationFound(reason) PROVE EscalationFound(reason)'
  <2>1. PICK p \in Profiles \cup {NoProfile}, r \in Reasons :
          reason \in r /\ Found(<<"edd", p, r>>)
    BY <1>2 DEF EscalationFound, Found
  <2>2. Found(<<"edd", p, r>>)'
    BY <2>1, FingerprintsOf DEF FindingsGrow
  <2> QED
    BY <2>1, <2>2 DEF EscalationFound, Found
<1> QED
  BY <1>1, <1>2

LEMMA KnownStays ==
  ASSUME FindingsGrow, NEW CONSTANT known, KnownTrue(known)
  PROVE  KnownTrue(known)'
BY DEF KnownTrue, FindingsGrow

LEMMA CopiesStay ==
  ASSUME FindingsGrow
  PROVE  /\ \A r : RowTrue(r) => RowTrue(r)'
         /\ \A s : ProfileTrue(s) => ProfileTrue(s)'
         /\ \A p, s : Loaded(p, s) => Loaded(p, s)'
<1>1. ASSUME NEW r, RowTrue(r) PROVE RowTrue(r)'
  <2>1. r \in Row /\ (r.link # NoProfile => r.link \in Profiles)
    BY <1>1 DEF RowTrue, Row
  <2> QED
    BY <1>1, <2>1 DEF RowTrue, FindingsGrow
<1>2. ASSUME NEW s, ProfileTrue(s) PROVE ProfileTrue(s)'
  BY <1>2, EddStays DEF ProfileTrue, FindingsGrow
<1>3. ASSUME NEW p, NEW s, Loaded(p, s) PROVE Loaded(p, s)'
  BY <1>3 DEF Loaded, FindingsGrow
<1> QED
  BY <1>1, <1>2, <1>3

\* A task that does not move keeps its part of the invariant.
LEMMA OtherTask ==
  ASSUME FindingsGrow, ResultsGrow, NEW t \in Tx, tasks'[t] = tasks[t],
         TaskTyped(t), Progress(t), SessionTrue(t)
  PROVE  TaskTyped(t)' /\ Progress(t)' /\ SessionTrue(t)'
<1> DEFINE held == tasks[t].held
<1>1. TaskTyped(t)'
  BY DEF TaskTyped, Running
<1>2. (RulesDone(t) => RulesDone(t)') /\ (EscalationDone(t) => EscalationDone(t)')
  BY EddStays DEF RulesDone, EscalationDone, FindingsGrow, ResultsGrow
<1>3. Progress(t)'
  BY <1>2 DEF Progress, At, ResultsGrow
<1>4. At(t, "scoring") => ScoringTrue(t, held)'
  BY KnownStays DEF SessionTrue, ScoringTrue
<1>5. At(t, "counting") => CountingTrue(held)'
  BY KnownStays DEF SessionTrue, CountingTrue
<1>6. At(t, "profiling") => ProfilingTrue(held)'
  BY CopiesStay, EddStays DEF SessionTrue, ProfilingTrue, ResultsGrow
<1>7. At(t, "mirroring") => MirroringTrue(held)'
  BY CopiesStay, EddStays DEF SessionTrue, MirroringTrue, ResultsGrow
<1>8. At(t, "linking") => LinkingTrue(held)'
  BY CopiesStay DEF SessionTrue, LinkingTrue
<1>9. At(t, "triggering") => TriggeringTrue(t, held)'
  BY CopiesStay, EddStays, KnownStays DEF SessionTrue, TriggeringTrue, FindingsGrow
<1>10. SessionTrue(t)'
  BY <1>4, <1>5, <1>6, <1>7, <1>8, <1>9 DEF SessionTrue, At
<1> QED
  BY <1>1, <1>3, <1>10

-----------------------------------------------------------------------------
(* The steps of a task between its commits                                 *)

LEMMA IInvParts ==
  ASSUME IInv
  PROVE  /\ KycTypeOK /\ KycTrue /\ RowTrue(row) /\ row \in Row /\ FindingsMade
         /\ DOMAIN tasks = Tx
         /\ \A t \in Tx : TaskTyped(t) /\ Progress(t) /\ SessionTrue(t)
         /\ alerts \in [Tx \cup {"velocity"} -> Nat] /\ counts \in [Rules -> Nat]
         /\ flagged \subseteq Tx /\ parked \subseteq Tx
         /\ \A p \in Profiles : Exists(p) => ProfileTrue(profiles[p])
         /\ row.edd => EddFound
<1>1. ASSUME NEW p \in Profiles, Exists(p) PROVE ProfileTrue(profiles[p])
  <2>1. profiles[p] \in Profile /\ (profiles[p].status = "approved" => vetted)
    BY <1>1 DEF IInv, TypeOK, KycTypeOK, KycTrue, Exists
  <2>2. profiles[p].cdd = "enhanced" => EddFound
    BY <1>1 DEF IInv, FindingsMade, PostureHasFinding, EddFound, Found
  <2> QED
    BY <2>1, <2>2 DEF ProfileTrue
<1>2. row.edd => EddFound
  BY DEF IInv, FindingsMade, EddFound, Found
<1> QED
  BY <1>1, <1>2 DEF IInv, TypeOK, TaskTyped

\* Nothing of the rows but what is left of the bounds and the failed items.
Untouched ==
  /\ UNCHANGED <<profiles, latest, findings, desk, scan, vetted, alerts, counts, flagged, row>>
  /\ left' \in Budget
  /\ parked' \subseteq Tx

LEMMA UntouchedGrows ==
  ASSUME Untouched
  PROVE  FindingsGrow /\ ResultsGrow
BY DEF Untouched, FindingsGrow, ResultsGrow, Found, Exists

LEMMA QuietStep ==
  ASSUME IInv, Untouched, NEW t \in Tx, DOMAIN tasks' = Tx,
         \A u \in Tx : u # t => tasks'[u] = tasks[u],
         TaskTyped(t)', Progress(t)', SessionTrue(t)'
  PROVE  IInv'
<1>1. ASSUME NEW u \in Tx PROVE TaskTyped(u)' /\ Progress(u)' /\ SessionTrue(u)'
  BY UntouchedGrows, OtherTask, IInvParts
<1>2. KycTypeOK'
  BY IInvParts DEF KycTypeOK, Untouched
<1>3. TypeOK'
  BY <1>1, <1>2, IInvParts DEF TypeOK, TaskTyped, Untouched
<1>4. KycTrue' /\ RowTrue(row)'
  BY IInvParts DEF KycTrue, DeskTrue, KnownTrue, RowTrue, Exists, Found, Untouched
<1>5. FindingsMade'
  BY IInvParts DEF FindingsMade, PostureHasFinding, Exists, Untouched
<1> QED
  BY <1>1, <1>3, <1>4, <1>5 DEF IInv

\* A task that moves on keeps all but its phase and what its session holds.
LEMMA MovedTask ==
  ASSUME IInv, NEW t \in Tx, NEW phase \in Phases, NEW held, Moves(t, phase, held)
  PROVE  /\ DOMAIN tasks' = Tx
         /\ \A u \in Tx : u # t => tasks'[u] = tasks[u]
         /\ tasks'[t].phase = phase /\ tasks'[t].held = held
         /\ tasks'[t].hit = tasks[t].hit /\ tasks'[t].large = tasks[t].large
         /\ tasks'[t].risky = tasks[t].risky /\ tasks'[t].scores = tasks[t].scores
         /\ tasks'[t].starts = tasks[t].starts /\ tasks'[t].retries = tasks[t].retries
         /\ (Running(t)' \/ held = Idle) => TaskTyped(t)'
<1>1. DOMAIN tasks = Tx /\ TaskTyped(t)
  BY IInvParts
<1>2. /\ "phase" \in DOMAIN tasks[t] /\ "held" \in DOMAIN tasks[t] /\ "hit" \in DOMAIN tasks[t]
      /\ "large" \in DOMAIN tasks[t] /\ "risky" \in DOMAIN tasks[t]
      /\ "scores" \in DOMAIN tasks[t] /\ "starts" \in DOMAIN tasks[t]
      /\ "retries" \in DOMAIN tasks[t]
  BY <1>1 DEF TaskTyped, NoTask
<1>3. /\ DOMAIN tasks' = Tx
      /\ \A u \in Tx : u # t => tasks'[u] = tasks[u]
      /\ tasks'[t] = [tasks[t] EXCEPT !.phase = phase, !.held = held]
  BY <1>1 DEF Moves
<1>4. /\ tasks'[t].phase = phase /\ tasks'[t].held = held
      /\ tasks'[t].hit = tasks[t].hit /\ tasks'[t].large = tasks[t].large
      /\ tasks'[t].risky = tasks[t].risky /\ tasks'[t].scores = tasks[t].scores
      /\ tasks'[t].starts = tasks[t].starts /\ tasks'[t].retries = tasks[t].retries
      /\ DOMAIN tasks'[t] = DOMAIN tasks[t]
  BY <1>2, <1>3
<1>5. (Running(t)' \/ held = Idle) => TaskTyped(t)'
  BY <1>1, <1>4 DEF TaskTyped
<1> QED
  BY <1>3, <1>4, <1>5

\* A task that is not under way has nothing to show.
LEMMA NotUnderWay ==
  ASSUME NEW t \in Tx, tasks'[t].phase \in {"stored", "queued", "parked", "failed"}
  PROVE  Progress(t)' /\ SessionTrue(t)'
BY DEF Progress, SessionTrue, At, AfterRules, AfterRow, AfterEscalation

\* Between two commits the rows are as they were.
Waiting == UNCHANGED <<kycVars, alerts, counts, flagged, row, parked>>

LEMMA WaitingUntouched ==
  ASSUME IInv, Waiting
  PROVE  Untouched
BY IInvParts DEF Waiting, Untouched, kycVars, KycTypeOK

LEMMA IngestIInv ==
  ASSUME IInv, NEW t \in Tx, NEW kind \in Kinds, Ingest(t, kind)
  PROVE  IInv'
<1>1. DOMAIN tasks = Tx /\ TaskTyped(t)
  BY IInvParts
<1>2. kind.hit \in BOOLEAN /\ kind.large \in BOOLEAN
  BY MonitoringAssumption DEF Kind
<1>3. /\ DOMAIN tasks' = Tx
      /\ \A u \in Tx : u # t => tasks'[u] = tasks[u]
      /\ tasks'[t] = [tasks[t] EXCEPT !.phase = "stored", !.hit = kind.hit,
                                      !.large = kind.large, !.scores = kind.scores]
  BY <1>1 DEF Ingest
<1>4. TaskTyped(t)'
  <2>1. DOMAIN tasks[t] = DOMAIN NoTask /\ ~Running(t) /\ tasks[t].held = Idle
    BY <1>1 DEF TaskTyped, Running, Ingest, At
  <2>2. /\ DOMAIN tasks'[t] = DOMAIN NoTask /\ tasks'[t].phase = "stored"
        /\ tasks'[t].hit = kind.hit /\ tasks'[t].large = kind.large
        /\ tasks'[t].risky = tasks[t].risky /\ tasks'[t].starts = tasks[t].starts
        /\ tasks'[t].retries = tasks[t].retries /\ tasks'[t].held = tasks[t].held
    BY <1>3, <2>1 DEF NoTask
  <2> QED
    BY <1>1, <1>2, <2>1, <2>2 DEF TaskTyped, Phases
<1>5. tasks'[t].phase = "stored"
  BY <1>1, <1>3 DEF TaskTyped, NoTask
<1>6. left' \in Budget
  BY IInvParts DEF Ingest, Spend, KycTypeOK, Budget
<1>7. Untouched
  BY <1>6, IInvParts DEF Ingest, Untouched
<1> QED
  BY <1>3, <1>4, <1>5, <1>7, NotUnderWay, QuietStep

LEMMA SendIInv ==
  ASSUME IInv, NEW t \in Tx, Send(t)
  PROVE  IInv'
<1>1. Moves(t, "queued", Idle) /\ Untouched
  BY WaitingUntouched DEF Send, Waiting
<1> QED
  BY <1>1, MovedTask, NotUnderWay, QuietStep DEF Phases

LEMMA ScoreIInv ==
  ASSUME IInv, NEW t \in Tx, NEW risky \in BOOLEAN, Score(t, risky)
  PROVE  IInv'
<1> DEFINE fps == IF Fires(t) THEN {<<"tx", t>>} ELSE {}
           held == [kind |-> "rules", risky |-> risky, count |-> counts["rule"],
                    known |-> Lookup(fps)]
<1>1. DOMAIN tasks = Tx /\ TaskTyped(t)
  BY IInvParts
<1>2. /\ DOMAIN tasks' = Tx
      /\ \A u \in Tx : u # t => tasks'[u] = tasks[u]
      /\ tasks'[t] = [tasks[t] EXCEPT !.phase = "scoring", !.starts = @ + 1, !.held = held]
  BY <1>1 DEF Score
<1>3. fps \in SUBSET Fingerprints /\ (tasks[t].hit => fps = {<<"tx", t>>})
  BY FingerprintsOf DEF Fires
<1>4. KnownTrue(held.known) /\ (tasks[t].hit => <<"tx", t>> \in DOMAIN held.known)
  BY <1>3, LookupTrue
<1>5. held.count \in Nat /\ held.risky \in BOOLEAN
  BY IInvParts DEF Rules
<1>6. Untouched
  BY WaitingUntouched DEF Score, Waiting
<1> HIDE DEF held
<1>7. /\ DOMAIN tasks'[t] = DOMAIN NoTask /\ tasks'[t].phase = "scoring"
      /\ tasks'[t].hit = tasks[t].hit /\ tasks'[t].large = tasks[t].large
      /\ tasks'[t].risky = tasks[t].risky /\ tasks'[t].starts = tasks[t].starts + 1
      /\ tasks'[t].retries = tasks[t].retries /\ tasks'[t].held = held
  BY <1>1, <1>2 DEF TaskTyped, NoTask
<1>8. TaskTyped(t)'
  BY <1>1, <1>7 DEF TaskTyped, Phases, Running
<1>9. Progress(t)'
  BY <1>7 DEF Progress, At, AfterRules, AfterRow, AfterEscalation
<1>10. SessionTrue(t)'
  BY <1>4, <1>5, <1>6, <1>7 DEF SessionTrue, At, ScoringTrue, KnownTrue, Found, Untouched
<1> QED
  BY <1>2, <1>6, <1>8, <1>9, <1>10, QuietStep

\* A task that moves on between two commits owes only what its new session claims.
LEMMA WaitingStep ==
  ASSUME IInv, Waiting, NEW t \in Tx, NEW phase \in Phases, NEW held, Moves(t, phase, held),
         Running(t)' \/ held = Idle, Progress(t)', SessionTrue(t)'
  PROVE  IInv'
BY MovedTask, WaitingUntouched, QuietStep

\* Progress is kept by a step to the next phase that needs no further commit.
LEMMA SameProgress ==
  ASSUME IInv, Waiting, NEW t \in Tx, NEW phase \in Phases, NEW held, Moves(t, phase, held),
         phase \in AfterRules => tasks[t].phase \in AfterRules,
         phase \in AfterRow => tasks[t].phase \in AfterRow,
         phase \in AfterEscalation => tasks[t].phase \in AfterEscalation
  PROVE  Progress(t)'
<1>1. Progress(t)
  BY IInvParts
<1>2. UNCHANGED <<alerts, flagged, row, findings, vetted>>
  BY DEF Waiting, kycVars
<1>3. /\ tasks'[t].phase = phase /\ tasks'[t].hit = tasks[t].hit
      /\ tasks'[t].large = tasks[t].large /\ tasks'[t].risky = tasks[t].risky
  BY MovedTask
<1> QED
  BY <1>1, <1>2, <1>3 DEF Progress, RulesDone, EscalationDone, EscalationFound, At

LEMMA CountIInv ==
  ASSUME IInv, NEW t \in Tx, Count(t)
  PROVE  IInv'
<1> DEFINE fps == IF VelocityFires THEN {<<"velocity">>} ELSE {}
           held == [kind |-> "velocity", fires |-> VelocityFires, count |-> counts["velocity"],
                    known |-> Lookup(fps)]
<1>1. Moves(t, "counting", held) /\ Waiting /\ At(t, "scored")
  BY DEF Count, Waiting
<1>2. fps \in SUBSET Fingerprints /\ (held.fires => fps = {<<"velocity">>})
  BY FingerprintsOf
<1>3. KnownTrue(held.known) /\ (held.fires => <<"velocity">> \in DOMAIN held.known)
  BY <1>2, LookupTrue
<1>4. held.count \in Nat
  BY IInvParts DEF Rules
<1> HIDE DEF held
<1>5. tasks'[t].phase = "counting" /\ tasks'[t].held = held
  BY <1>1, MovedTask DEF Phases
<1>6. findings' = findings
  BY <1>1 DEF Waiting, kycVars
<1>7. SessionTrue(t)'
  BY <1>3, <1>4, <1>5, <1>6 DEF SessionTrue, At, CountingTrue, KnownTrue, Found
<1>8. Progress(t)'
  BY <1>1, SameProgress DEF At, Phases, AfterRules, AfterRow, AfterEscalation
<1> QED
  BY <1>1, <1>5, <1>7, <1>8, WaitingStep DEF Running, Phases

LEMMA ReadRowIInv ==
  ASSUME IInv, NEW t \in Tx, ReadRow(t)
  PROVE  IInv'
<1> DEFINE held == [kind |-> "row", seen |-> row]
<1>1. Moves(t, "profiling", held) /\ Waiting /\ At(t, "counted")
  BY DEF ReadRow, Waiting
<1>2. tasks'[t].phase = "profiling" /\ tasks'[t].held = held
  BY <1>1, MovedTask DEF Phases
<1>3. ProfilingTrue(held)
  BY IInvParts DEF ProfilingTrue
<1>4. UNCHANGED <<profiles, findings, vetted, row>>
  BY <1>1 DEF Waiting, kycVars
<1>5. SessionTrue(t)'
  BY <1>2, <1>3, <1>4 DEF SessionTrue, At, ProfilingTrue, RowTrue, Exists, EddFound, Found
<1>6. Progress(t)'
  BY <1>1, SameProgress DEF At, Phases, AfterRules, AfterRow, AfterEscalation
<1> QED
  BY <1>1, <1>2, <1>5, <1>6, WaitingStep DEF Running, Phases

LEMMA ReadProfileIInv ==
  ASSUME IInv, NEW t \in Tx, ReadProfile(t)
  PROVE  IInv'
<1> DEFINE seen == tasks[t].held.seen
           new == IF latest = NoProfile
                  THEN [seen EXCEPT !.made = TRUE]
                  ELSE [kyc |-> profiles[latest].status, cdd |-> profiles[latest].cdd,
                        edd |-> seen.edd \/ profiles[latest].cdd = "enhanced",
                        link |-> latest, made |-> TRUE]
           held == [kind |-> "row", seen |-> seen, new |-> new]
<1>1. Moves(t, "mirroring", held) /\ Waiting /\ At(t, "profiling")
  BY DEF ReadProfile, Waiting
<1>2. RowTrue(seen) /\ (seen.edd => EddFound) /\ (seen.made => row.made)
  BY <1>1, IInvParts DEF SessionTrue, ProfilingTrue
<1>3. RowTrue(new) /\ (new.edd => EddFound) /\ new.made
  <2>1. CASE latest = NoProfile
    BY <1>2, <2>1 DEF RowTrue, Row
  <2>2. CASE latest # NoProfile
    <3>1. latest \in Profiles /\ Exists(latest) /\ ProfileTrue(profiles[latest])
      BY <2>2, IInvParts DEF KycTypeOK, KycTrue
    <3>2. new = [kyc |-> profiles[latest].status, cdd |-> profiles[latest].cdd,
                 edd |-> seen.edd \/ profiles[latest].cdd = "enhanced",
                 link |-> latest, made |-> TRUE]
      BY <2>2
    <3>3. new \in Row
      BY <1>2, <3>1, <3>2 DEF Row, RowTrue, ProfileTrue, Profile
    <3> QED
      BY <1>2, <3>1, <3>2, <3>3 DEF RowTrue, ProfileTrue
  <2> QED
    BY <2>1, <2>2
<1> HIDE DEF seen, new
<1>4. MirroringTrue(held)
  BY <1>2, <1>3 DEF MirroringTrue
<1>5. tasks'[t].phase = "mirroring" /\ tasks'[t].held = held
  BY <1>1, MovedTask DEF Phases
<1>6. UNCHANGED <<profiles, findings, vetted, row>>
  BY <1>1 DEF Waiting, kycVars
<1>7. SessionTrue(t)'
  BY <1>4, <1>5, <1>6 DEF SessionTrue, At, MirroringTrue, RowTrue, Exists, EddFound, Found
<1>8. Progress(t)'
  BY <1>1, SameProgress DEF At, Phases, AfterRules, AfterRow, AfterEscalation
<1> QED
  BY <1>1, <1>5, <1>7, <1>8, WaitingStep DEF Running, Phases

LEMMA ReadLatestIInv ==
  ASSUME IInv, NEW t \in Tx, ReadLatest(t)
  PROVE  IInv'
<1> DEFINE held == [kind |-> "lifecycle", profile |-> latest,
                    seen |-> IF latest = NoProfile THEN NoProfile ELSE profiles[latest]]
<1>1. Moves(t, "linking", held) /\ Waiting /\ At(t, "profiled")
  BY DEF ReadLatest, Waiting
<1>2. LinkingTrue(held)
  <2>1. CASE latest = NoProfile
    BY <2>1 DEF LinkingTrue, Loaded
  <2>2. CASE latest # NoProfile
    <3>1. latest \in Profiles /\ Exists(latest) /\ ProfileTrue(profiles[latest])
      BY <2>2, IInvParts DEF KycTypeOK, KycTrue
    <3> QED
      BY <2>2, <3>1 DEF LinkingTrue, Loaded, ProfileTrue
  <2> QED
    BY <2>1, <2>2
<1>3. tasks'[t].phase = "linking" /\ tasks'[t].held = held
  BY <1>1, MovedTask DEF Phases
<1>4. UNCHANGED <<profiles, findings, vetted, row>>
  BY <1>1 DEF Waiting, kycVars
<1> HIDE DEF held
<1>5. SessionTrue(t)'
  BY <1>2, <1>3, <1>4
     DEF SessionTrue, At, LinkingTrue, Loaded, ProfileTrue, Exists, EddFound, Found
<1>6. Progress(t)'
  BY <1>1, SameProgress DEF At, Phases, AfterRules, AfterRow, AfterEscalation
<1> QED
  BY <1>1, <1>3, <1>5, <1>6, WaitingStep DEF Running, Phases

\* The mirrored row tells the truth, and an approval it tells of has been given.
LEMMA MirroredTrue ==
  ASSUME IInv, NEW held, LinkingTrue(held), row.made
  PROVE  /\ RowTrue(Mirrored(held)) /\ Mirrored(held).made
         /\ Mirrored(held).edd => EddFound
<1>1. CASE held.profile = NoProfile
  BY <1>1, IInvParts DEF Mirrored
<1>2. CASE held.profile # NoProfile
  <2>1. held.profile \in Profiles /\ Exists(held.profile) /\ ProfileTrue(held.seen)
    BY <1>2 DEF LinkingTrue, Loaded
  <2>2. Mirrored(held) = [kyc |-> held.seen.status, cdd |-> held.seen.cdd,
                          edd |-> held.seen.cdd = "enhanced", link |-> held.profile, made |-> TRUE]
    BY <1>2 DEF Mirrored
  <2>3. Mirrored(held) \in Row
    BY <2>1, <2>2 DEF Row, ProfileTrue, Profile
  <2>4. /\ Mirrored(held).link = held.profile
        /\ Mirrored(held).kyc = held.seen.status
    BY <2>2
  <2>5. Mirrored(held).made = TRUE
    BY <2>2
  <2>6. Mirrored(held).edd = (held.seen.cdd = "enhanced")
    BY <2>2
  <2> QED
    BY <2>1, <2>3, <2>4, <2>5, <2>6 DEF RowTrue, ProfileTrue
<1> QED
  BY <1>1, <1>2

LEMMA EscalateIInv ==
  ASSUME IInv, NEW t \in Tx, Escalate(t)
  PROVE  IInv'
<1> DEFINE was == tasks[t].held
           mirrored == Mirrored(was)
           reasons == Triggers(t, mirrored)
           fps == EscalationFindings(mirrored.link, reasons)
           seen == IF was.profile = NoProfile /\ mirrored.link # NoProfile
                   THEN profiles[mirrored.link] ELSE was.seen
           newRow == IF reasons = {} THEN mirrored ELSE [mirrored EXCEPT !.edd = TRUE]
           held == [kind |-> "escalation", profile |-> mirrored.link, seen |-> seen,
                    seenRow |-> row, reasons |-> reasons, newRow |-> newRow,
                    known |-> Lookup(fps)]
<1>1. Moves(t, "triggering", held) /\ Waiting /\ At(t, "linking")
  BY DEF Escalate, Waiting
<1>2. LinkingTrue(was) /\ row.made
  BY <1>1, IInvParts DEF SessionTrue, Progress, At, AfterRow
<1>3. RowTrue(mirrored) /\ mirrored.made /\ (mirrored.edd => EddFound)
  BY <1>2, MirroredTrue
<1>4. /\ reasons \subseteq {"risk", "value"}
      /\ tasks[t].risky => "risk" \in reasons
      /\ tasks[t].large /\ ~vetted => "value" \in reasons
  BY <1>3 DEF Triggers, RowTrue
<1>5. mirrored.link \in Profiles \cup {NoProfile}
  BY <1>3 DEF RowTrue, Row
<1>6. Loaded(mirrored.link, seen)
  <2>1. CASE was.profile = NoProfile
    BY <1>3, <1>5, <2>1, IInvParts DEF Loaded, RowTrue, ProfileTrue
  <2>2. CASE was.profile # NoProfile
    <3>1. mirrored.link = was.profile
      BY <2>2 DEF Mirrored
    <3> QED
      BY <1>2, <1>5, <2>2, <3>1 DEF Loaded, LinkingTrue
  <2> QED
    BY <2>1, <2>2
<1>7. fps \in SUBSET Fingerprints /\ (reasons # {} => fps = {<<"edd", mirrored.link, reasons>>})
  <2>1. CASE reasons = {}
    BY <2>1 DEF EscalationFindings
  <2>2. CASE reasons # {}
    <3> HIDE DEF mirrored, reasons
    <3>1. reasons \in Reasons
      BY <1>4, <2>2 DEF Reasons
    <3>2. fps = {<<"edd", mirrored.link, reasons>>}
      BY <2>2 DEF EscalationFindings
    <3> QED
      BY <1>5, <3>1, <3>2, FingerprintsOf
  <2> QED
    BY <2>1, <2>2
<1>8. /\ KnownTrue(Lookup(fps))
      /\ reasons # {} => <<"edd", mirrored.link, reasons>> \in DOMAIN Lookup(fps)
  BY <1>7, LookupTrue
<1>9. RowTrue(newRow) /\ newRow.made /\ (newRow.edd => EddFound \/ reasons # {})
  BY <1>3 DEF RowTrue, Row
<1>10. RowTrue(row) /\ row.made
  BY <1>2, IInvParts
<1> HIDE DEF mirrored, reasons, fps, seen, newRow
<1>11. TriggeringTrue(t, held)
  BY <1>4, <1>6, <1>8, <1>9, <1>10 DEF TriggeringTrue
<1>12. /\ tasks'[t].phase = "triggering" /\ tasks'[t].held = held
       /\ tasks'[t].risky = tasks[t].risky /\ tasks'[t].large = tasks[t].large
  BY <1>1, MovedTask DEF Phases
<1>13. UNCHANGED <<profiles, findings, vetted, row>>
  BY <1>1 DEF Waiting, kycVars
<1> HIDE DEF held
<1>14. SessionTrue(t)'
  BY <1>11, <1>12, <1>13
     DEF SessionTrue, At, TriggeringTrue, RowTrue, KnownTrue, Loaded, Exists, EddFound, Found
<1>15. Progress(t)'
  BY <1>1, SameProgress DEF At, Phases, AfterRules, AfterRow, AfterEscalation
<1> QED
  BY <1>1, <1>12, <1>14, <1>15, WaitingStep DEF Running, Phases

LEMMA AcknowledgeIInv ==
  ASSUME IInv, NEW t \in Tx, Acknowledge(t)
  PROVE  IInv'
<1>1. Moves(t, "done", Idle) /\ Waiting /\ At(t, "acknowledging")
  BY DEF Acknowledge, Waiting
<1>2. tasks'[t].phase = "done"
  BY <1>1, MovedTask DEF Phases
<1>3. SessionTrue(t)'
  BY <1>2 DEF SessionTrue, At
<1>4. Progress(t)'
  BY <1>1, SameProgress DEF At, Phases, AfterRules, AfterRow, AfterEscalation
<1> QED
  BY <1>1, <1>3, <1>4, WaitingStep DEF Phases

-----------------------------------------------------------------------------
(* Failures, retries and crashes                                           *)

\* A parked task, or one that is put back into the queue, keeps nothing of its attempt but
\* what it has committed.
LEMMA ParkIInv ==
  ASSUME IInv, NEW t \in Tx, Park(t), left' \in Budget
  PROVE  IInv'
<1>1. Moves(t, "parked", Idle) /\ Untouched
  BY IInvParts DEF Park, Untouched
<1> QED
  BY <1>1, MovedTask, NotUnderWay, QuietStep DEF Phases

LEMMA LosesEarlyRaceIInv ==
  ASSUME IInv, NEW t \in Tx, LosesEarlyRace(t)
  PROVE  IInv'
BY ParkIInv, IInvParts DEF LosesEarlyRace, KycTypeOK

LEMMA BreaksIInv ==
  ASSUME IInv, NEW t \in Tx, Breaks(t)
  PROVE  IInv'
<1>1. left' \in Budget
  BY IInvParts DEF Breaks, Spend, KycTypeOK, Budget
<1> QED
  BY <1>1, ParkIInv DEF Breaks

\* A task that has failed without an item keeps nothing of its attempt either.
LEMMA FailedIInv ==
  ASSUME IInv, NEW t \in Tx, Moves(t, "failed", Idle), Untouched
  PROVE  IInv'
BY MovedTask, NotUnderWay, QuietStep DEF Phases

LEMMA LosesLateRaceIInv ==
  ASSUME IInv, NEW t \in Tx, LosesLateRace(t)
  PROVE  IInv'
BY FailedIInv, WaitingUntouched DEF LosesLateRace, Waiting

LEMMA RaisesIInv ==
  ASSUME IInv, NEW t \in Tx, Raises(t)
  PROVE  IInv'
<1>1. left' \in Budget
  BY IInvParts DEF Raises, Spend, KycTypeOK, Budget
<1>2. Moves(t, "failed", Idle) /\ Untouched
  BY <1>1, IInvParts DEF Raises, Untouched
<1> QED
  BY <1>2, FailedIInv

LEMMA RetryIInv ==
  ASSUME IInv, NEW t \in Tx, Retry(t)
  PROVE  IInv'
<1>1. DOMAIN tasks = Tx /\ TaskTyped(t)
  BY IInvParts
<1>2. /\ DOMAIN tasks' = Tx
      /\ \A u \in Tx : u # t => tasks'[u] = tasks[u]
      /\ tasks'[t] = [tasks[t] EXCEPT !.phase = "queued", !.held = Idle, !.retries = @ + 1]
  BY <1>1 DEF Retry
<1>3. /\ DOMAIN tasks'[t] = DOMAIN NoTask /\ tasks'[t].phase = "queued"
      /\ tasks'[t].hit = tasks[t].hit /\ tasks'[t].large = tasks[t].large
      /\ tasks'[t].risky = tasks[t].risky /\ tasks'[t].starts = tasks[t].starts
      /\ tasks'[t].retries = tasks[t].retries + 1 /\ tasks'[t].held = Idle
  BY <1>1, <1>2 DEF TaskTyped, NoTask
<1>4. tasks'[t].retries \in 0..MaxRetries
  BY <1>1, <1>3, MonitoringAssumption DEF TaskTyped, Retry
<1>5. TaskTyped(t)'
  BY <1>1, <1>3, <1>4 DEF TaskTyped, Phases
<1>6. left' \in Budget
  BY IInvParts DEF Retry, Spend, KycTypeOK, Budget
<1>7. Untouched
  BY <1>6, IInvParts DEF Retry, Untouched
<1> QED
  BY <1>2, <1>3, <1>5, <1>7, NotUnderWay, QuietStep

LEMMA RetriesExhaustedIInv ==
  ASSUME IInv, NEW t \in Tx, RetriesExhausted(t)
  PROVE  IInv'
<1>1. left' \in Budget
  BY IInvParts DEF RetriesExhausted, Spend, KycTypeOK, Budget
<1>2. CASE Park(t)
  BY <1>1, <1>2, ParkIInv
<1>3. CASE ~Park(t)
  <2>1. Moves(t, "failed", Idle) /\ Untouched
    BY <1>1, <1>3, IInvParts DEF RetriesExhausted, Untouched
  <2> QED
    BY <2>1, FailedIInv
<1> QED
  BY <1>2, <1>3

LEMMA CrashIInv ==
  ASSUME IInv, NEW t \in Tx, Crash(t)
  PROVE  IInv'
<1>1. left' \in Budget
  BY IInvParts DEF Crash, Spend, KycTypeOK, Budget
<1>2. Moves(t, "queued", Idle) /\ Untouched
  BY <1>1, IInvParts DEF Crash, Untouched
<1> QED
  BY <1>2, MovedTask, NotUnderWay, QuietStep DEF Phases

-----------------------------------------------------------------------------
(* The four commits of a task                                              *)

\* What growing findings leave true of the profiles and of the office's request.
LEMMA KycKept ==
  ASSUME IInv, FindingsGrow, UNCHANGED <<profiles, latest, desk, vetted>>
  PROVE  KycTrue' /\ PostureHasFinding'
<1>1. DeskTrue'
  <2>1. desk # Idle => Exists(desk.profile)'
    BY IInvParts DEF KycTrue, DeskTrue, Exists
  <2>2. desk.kind = "commit" => KnownTrue(desk.known)'
    BY IInvParts DEF KycTrue, DeskTrue, KnownTrue, FindingsGrow
  <2> QED
    BY <2>1, <2>2, IInvParts DEF KycTrue, DeskTrue
<1>2. PostureHasFinding'
  <2> SUFFICES ASSUME NEW p \in Profiles, Exists(p)
               PROVE  /\ profiles[p].cdd = "enhanced" =>
                           \E r \in Reasons \cup {{"office"}} : Found(<<"edd", p, r>>)'
                      /\ profiles[p].sanctions = "hit" => Found(<<"hit", p>>)'
    BY DEF PostureHasFinding, Exists, Found
  <2>1. /\ profiles[p].cdd = "enhanced" =>
             \E r \in Reasons \cup {{"office"}} : Found(<<"edd", p, r>>)
        /\ profiles[p].sanctions = "hit" => Found(<<"hit", p>>)
    BY IInvParts DEF FindingsMade, PostureHasFinding, Found
  <2> QED
    BY <2>1, FingerprintsOf DEF FindingsGrow
<1> QED
  BY <1>1, <1>2, IInvParts DEF KycTrue, Exists

\* A commit keeps the invariant if it keeps the types and the findings do explain.
LEMMA CommitStep ==
  ASSUME IInv, FindingsGrow, ResultsGrow, NEW t \in Tx, DOMAIN tasks' = Tx,
         \A u \in Tx : u # t => tasks'[u] = tasks[u],
         TaskTyped(t)', Progress(t)', SessionTrue(t)',
         KycTypeOK', KycTrue', RowTrue(row)', FindingsMade',
         alerts' \in [Tx \cup {"velocity"} -> Nat], counts' \in [Rules -> Nat],
         flagged' \subseteq Tx, UNCHANGED parked
  PROVE  IInv'
<1>1. ASSUME NEW u \in Tx PROVE TaskTyped(u)' /\ Progress(u)' /\ SessionTrue(u)'
  BY OtherTask, IInvParts
<1>2. TypeOK'
  BY <1>1, IInvParts DEF TypeOK, TaskTyped, RowTrue
<1> QED
  BY <1>1, <1>2 DEF IInv

\* The findings that a task raises at its commit.
LEMMA RaisedGrow ==
  ASSUME IInv, NEW known, KnownTrue(known), findings' = Raised(known),
         UNCHANGED <<profiles, latest, desk, scan, vetted>>, left' \in Budget
  PROVE  /\ FindingsGrow /\ KycTypeOK' /\ KycTrue' /\ PostureHasFinding'
         /\ \A f \in DOMAIN known : Found(f)'
<1>1. TypeOK /\ KycTypeOK
  BY DEF IInv, TypeOK
<1>2. FindingsGrow /\ \A f \in DOMAIN known : Found(f)'
  BY <1>1, RaisedFound DEF FindingsGrow, Exists
<1>3. KycTypeOK'
  BY <1>1, RaisedFound DEF KycTypeOK
<1> QED
  BY <1>2, <1>3, KycKept

LEMMA CommitRulesIInv ==
  ASSUME IInv, NEW t \in Tx, CommitRules(t)
  PROVE  IInv'
<1> DEFINE held == tasks[t].held
<1>1. DOMAIN tasks = Tx /\ TaskTyped(t) /\ Progress(t) /\ ScoringTrue(t, held)
  BY IInvParts DEF CommitRules, SessionTrue
<1>2. /\ DOMAIN tasks' = Tx
      /\ \A u \in Tx : u # t => tasks'[u] = tasks[u]
      /\ tasks'[t] = [tasks[t] EXCEPT !.phase = "scored", !.risky = held.risky, !.held = Idle]
  BY <1>1 DEF CommitRules
<1>3. /\ DOMAIN tasks'[t] = DOMAIN NoTask /\ tasks'[t].phase = "scored"
      /\ tasks'[t].hit = tasks[t].hit /\ tasks'[t].large = tasks[t].large
      /\ tasks'[t].risky = held.risky /\ tasks'[t].starts = tasks[t].starts
      /\ tasks'[t].retries = tasks[t].retries /\ tasks'[t].held = Idle
  BY <1>1, <1>2 DEF TaskTyped, NoTask
<1>4. /\ FindingsGrow /\ KycTypeOK' /\ KycTrue' /\ PostureHasFinding'
      /\ \A f \in DOMAIN held.known : Found(f)'
  BY <1>1, IInvParts, RaisedGrow DEF CommitRules, ScoringTrue, KycTypeOK
<1>5. TaskTyped(t)'
  BY <1>1, <1>3 DEF TaskTyped, Phases, ScoringTrue
<1>6. /\ alerts \in [Tx \cup {"velocity"} -> Nat] /\ counts \in [Rules -> Nat]
      /\ flagged \subseteq Tx /\ t # "velocity" /\ held.count \in Nat
  BY <1>1, IInvParts, MonitoringAssumption DEF ScoringTrue
<1>7. /\ alerts' \in [Tx \cup {"velocity"} -> Nat] /\ counts' \in [Rules -> Nat]
      /\ flagged' \subseteq Tx
      /\ flagged \subseteq flagged'
      /\ \A u \in Tx : u # t => alerts'[u] = alerts[u]
      /\ alerts'["velocity"] = alerts["velocity"]
      /\ alerts'[t] \in {alerts[t], alerts[t] + 1}
      /\ tasks[t].hit => alerts'[t] > 0 /\ t \in flagged'
      /\ ~tasks[t].hit => alerts'[t] = alerts[t]
  <2>1. CASE tasks[t].hit
    <3>1. /\ alerts' = [alerts EXCEPT ![t] = @ + 1]
          /\ counts' = [counts EXCEPT !["rule"] = held.count + 1]
          /\ flagged' = flagged \cup {t}
      BY <2>1 DEF CommitRules, Fires
    <3> QED
      BY <1>6, <2>1, <3>1 DEF Rules
  <2>2. CASE ~tasks[t].hit
    BY <1>6, <2>2 DEF CommitRules, Fires
  <2> QED
    BY <2>1, <2>2
<1>8. UNCHANGED <<row, parked>>
  BY DEF CommitRules
<1>9. ResultsGrow
  BY <1>6, <1>7, <1>8 DEF ResultsGrow
<1>10. Progress(t)' /\ SessionTrue(t)'
  BY <1>3, <1>7
     DEF Progress, SessionTrue, RulesDone, At, AfterRules, AfterRow, AfterEscalation
<1>11. RowTrue(row)' /\ (row.edd => EddFound')
  BY <1>4, <1>8, IInvParts, CopiesStay, EddStays
<1>12. FindingsMade'
  <2>1. ASSUME NEW u \in Tx, alerts'[u] > 0 PROVE Found(<<"tx", u>>)'
    <3>1. CASE u = t /\ tasks[t].hit
      BY <1>1, <1>4, <3>1 DEF ScoringTrue
    <3>2. CASE ~(u = t /\ tasks[t].hit)
      <4>1. alerts[u] > 0
        BY <1>7, <2>1, <3>2
      <4> QED
        BY <1>4, <4>1, IInvParts, FingerprintsOf DEF FindingsMade, Found, FindingsGrow
    <3> QED
      BY <3>1, <3>2
  <2>2. alerts'["velocity"] > 0 => Found(<<"velocity">>)'
    BY <1>4, <1>7, IInvParts, FingerprintsOf DEF FindingsMade, Found, FindingsGrow
  <2> QED
    BY <1>4, <1>8, <1>11, <2>1, <2>2 DEF FindingsMade, Found, EddFound
<1> QED
  BY <1>2, <1>4, <1>5, <1>7, <1>8, <1>9, <1>10, <1>11, <1>12, CommitStep

LEMMA CommitVelocityIInv ==
  ASSUME IInv, NEW t \in Tx, CommitVelocity(t)
  PROVE  IInv'
<1> DEFINE held == tasks[t].held
<1>1. Progress(t) /\ CountingTrue(held) /\ Moves(t, "counted", Idle) /\ At(t, "counting")
  BY IInvParts DEF CommitVelocity, SessionTrue
<1>2. /\ FindingsGrow /\ KycTypeOK' /\ KycTrue' /\ PostureHasFinding'
      /\ \A f \in DOMAIN held.known : Found(f)'
  BY <1>1, IInvParts, RaisedGrow DEF CommitVelocity, CountingTrue, KycTypeOK
<1>3. /\ alerts \in [Tx \cup {"velocity"} -> Nat] /\ counts \in [Rules -> Nat]
      /\ flagged \subseteq Tx /\ "velocity" \notin Tx /\ held.count \in Nat
  BY <1>1, IInvParts, MonitoringAssumption DEF CountingTrue
<1>4. /\ alerts' \in [Tx \cup {"velocity"} -> Nat] /\ counts' \in [Rules -> Nat]
      /\ \A u \in Tx : alerts'[u] = alerts[u]
      /\ ~held.fires => alerts' = alerts
  <2>1. CASE held.fires
    <3>1. /\ alerts' = [alerts EXCEPT !["velocity"] = @ + 1]
          /\ counts' = [counts EXCEPT !["velocity"] = held.count + 1]
      BY <2>1 DEF CommitVelocity
    <3> QED
      BY <1>3, <2>1, <3>1 DEF Rules
  <2>2. CASE ~held.fires
    BY <1>3, <2>2 DEF CommitVelocity
  <2> QED
    BY <2>1, <2>2
<1>5. UNCHANGED <<row, parked, flagged>>
  BY DEF CommitVelocity
<1>6. ResultsGrow
  BY <1>4, <1>5 DEF ResultsGrow
<1>7. tasks'[t].phase = "counted" /\ tasks'[t].hit = tasks[t].hit /\ TaskTyped(t)'
      /\ DOMAIN tasks' = Tx /\ \A u \in Tx : u # t => tasks'[u] = tasks[u]
  BY <1>1, MovedTask DEF Phases
<1>8. Progress(t)' /\ SessionTrue(t)'
  BY <1>1, <1>4, <1>5, <1>7
     DEF Progress, SessionTrue, RulesDone, At, AfterRules, AfterRow, AfterEscalation
<1>9. RowTrue(row)' /\ (row.edd => EddFound')
  BY <1>2, <1>5, IInvParts, CopiesStay, EddStays
<1>10. FindingsMade'
  <2>1. ASSUME NEW u \in Tx, alerts'[u] > 0 PROVE Found(<<"tx", u>>)'
    BY <1>2, <1>4, <2>1, IInvParts, FingerprintsOf DEF FindingsMade, Found, FindingsGrow
  <2>2. alerts'["velocity"] > 0 => Found(<<"velocity">>)'
    <3>1. CASE held.fires
      BY <1>1, <1>2, <3>1 DEF CountingTrue
    <3>2. CASE ~held.fires
      BY <1>2, <1>4, <3>2, IInvParts, FingerprintsOf DEF FindingsMade, Found, FindingsGrow
    <3> QED
      BY <3>1, <3>2
  <2> QED
    BY <1>2, <1>5, <1>9, <2>1, <2>2 DEF FindingsMade, Found, EddFound
<1> QED
  BY <1>2, <1>3, <1>4, <1>5, <1>6, <1>7, <1>8, <1>9, <1>10, CommitStep

LEMMA CommitRowIInv ==
  ASSUME IInv, NEW t \in Tx, CommitRow(t)
  PROVE  IInv'
<1> DEFINE held == tasks[t].held
           merged == Merged(row, held.seen, held.new)
<1>1. Progress(t) /\ MirroringTrue(held) /\ Moves(t, "profiled", Idle) /\ At(t, "mirroring")
  BY IInvParts DEF CommitRow, SessionTrue
<1>2. row' = merged /\ UNCHANGED <<kycVars, alerts, counts, flagged, parked>>
  BY DEF CommitRow
<1>3. row \in Row /\ held.seen \in Row /\ held.new \in Row /\ RowTrue(row) /\ RowTrue(held.new)
  BY <1>1, IInvParts DEF MirroringTrue, RowTrue
<1>4. /\ merged \in Row /\ merged.made
      /\ merged.link \in {row.link, held.new.link} /\ merged.kyc \in {row.kyc, held.new.kyc}
      /\ merged.edd => row.edd \/ held.new.edd
  BY <1>1, <1>3, MergedRow DEF MirroringTrue
<1> HIDE DEF merged
<1>5. RowTrue(merged) /\ (merged.edd => EddFound)
  BY <1>1, <1>3, <1>4, IInvParts DEF RowTrue, MirroringTrue
<1>6. FindingsGrow /\ ResultsGrow
  BY <1>2, <1>4 DEF kycVars, FindingsGrow, ResultsGrow, Found, Exists
<1>7. KycTypeOK'
  BY <1>2, IInvParts DEF KycTypeOK, kycVars
<1>8. KycTrue' /\ PostureHasFinding'
  BY <1>2, <1>6, KycKept DEF kycVars
<1>9. tasks'[t].phase = "profiled" /\ tasks'[t].hit = tasks[t].hit /\ TaskTyped(t)'
      /\ DOMAIN tasks' = Tx /\ \A u \in Tx : u # t => tasks'[u] = tasks[u]
  BY <1>1, MovedTask DEF Phases
<1>10. Progress(t)' /\ SessionTrue(t)'
  BY <1>1, <1>2, <1>4, <1>9
     DEF Progress, SessionTrue, RulesDone, At, AfterRules, AfterRow, AfterEscalation
<1>11. RowTrue(row)' /\ (row'.edd => EddFound')
  BY <1>2, <1>5 DEF kycVars, RowTrue, Exists, EddFound, Found
<1>12. FindingsMade'
  BY <1>2, <1>8, <1>11, IInvParts DEF FindingsMade, EddFound, Found, kycVars
<1> QED
  BY <1>2, <1>6, <1>7, <1>8, <1>9, <1>10, <1>11, <1>12, IInvParts, CommitStep

\* The office's request still holds what it needs.
LEMMA DeskKept ==
  ASSUME IInv, FindingsGrow, UNCHANGED desk
  PROVE  DeskTrue'
<1>1. desk # Idle => Exists(desk.profile)'
  BY IInvParts DEF KycTrue, DeskTrue, KycTypeOK, FindingsGrow
<1>2. desk.kind = "commit" => KnownTrue(desk.known)'
  BY IInvParts DEF KycTrue, DeskTrue, KnownTrue, FindingsGrow
<1> QED
  BY <1>1, <1>2, IInvParts DEF KycTrue, DeskTrue

\* A profile that is written: what its row newly claims has its finding, or its approval.
LEMMA ProfileWritten ==
  ASSUME IInv, NEW p \in Profiles, NEW new \in Profile,
         profiles' = [profiles EXCEPT ![p] = new],
         \A f \in Fingerprints : Found(f) => Found(f)', vetted => vetted',
         new.status = "approved" => vetted',
         new.cdd = "enhanced" =>
           \/ Exists(p) /\ profiles[p].cdd = "enhanced"
           \/ \E r \in Reasons \cup {{"office"}} : Found(<<"edd", p, r>>)',
         new.sanctions = "hit" =>
           \/ Exists(p) /\ profiles[p].sanctions = "hit"
           \/ Found(<<"hit", p>>)'
  PROVE  /\ FindingsGrow /\ PostureHasFinding' /\ Exists(p)'
         /\ profiles' \in [Profiles -> Profile \cup {NoProfile}]
         /\ \A q \in Profiles : Exists(q)' => (profiles'[q].status = "approved" => vetted')
<1>1. profiles \in [Profiles -> Profile \cup {NoProfile}]
  BY IInvParts DEF KycTypeOK
<1>2. /\ profiles' \in [Profiles -> Profile \cup {NoProfile}]
      /\ profiles'[p] = new /\ \A q \in Profiles : q # p => profiles'[q] = profiles[q]
  BY <1>1
<1>3. Exists(p)'
  BY <1>2, KycAssumption DEF Exists
<1>4. FindingsGrow
  BY <1>2, <1>3 DEF FindingsGrow, Exists
<1>5. ASSUME NEW q \in Profiles, Exists(q)'
      PROVE  /\ profiles'[q].status = "approved" => vetted'
             /\ profiles'[q].cdd = "enhanced" =>
                  \E r \in Reasons \cup {{"office"}} : Found(<<"edd", q, r>>)'
             /\ profiles'[q].sanctions = "hit" => Found(<<"hit", q>>)'
  <2>1. Exists(q) =>
          /\ profiles[q].status = "approved" => vetted
          /\ profiles[q].cdd = "enhanced" =>
               \E r \in Reasons \cup {{"office"}} : Found(<<"edd", q, r>>)'
          /\ profiles[q].sanctions = "hit" => Found(<<"hit", q>>)'
    BY IInvParts, FingerprintsOf DEF KycTrue, FindingsMade, PostureHasFinding, Found
  <2>2. CASE q = p
    BY <1>2, <2>1, <2>2
  <2>3. CASE q # p
    BY <1>2, <1>5, <2>1, <2>3 DEF Exists
  <2> QED
    BY <2>2, <2>3
<1> QED
  BY <1>2, <1>3, <1>4, <1>5 DEF PostureHasFinding, Found

\* The profile and the risk row are written with the finding that explains them.
LEMMA CommitLifecycleIInv ==
  ASSUME IInv, NEW t \in Tx, CommitLifecycle(t)
  PROVE  IInv'
<1> DEFINE held == tasks[t].held
           escalated == [held.seen EXCEPT !.cdd = "enhanced", !.reason = "monitoring"]
           writes == held.reasons # {} /\ held.profile # NoProfile /\ escalated # held.seen
<1> PICK merged : merged = Merged(row, held.seenRow, held.newRow)
  OBVIOUS
<1> PICK p, reasons : p = held.profile /\ reasons = held.reasons
  OBVIOUS
<1>1. /\ Progress(t) /\ TriggeringTrue(t, held) /\ KnownTrue(held.known)
      /\ Moves(t, "acknowledging", Idle) /\ At(t, "triggering")
  BY IInvParts DEF CommitLifecycle, SessionTrue, TriggeringTrue
<1>2. /\ findings' = Raised(held.known) /\ row' = merged
      /\ UNCHANGED <<desk, scan, left, vetted, alerts, counts, flagged, parked>>
      /\ writes => /\ profiles' = [profiles EXCEPT ![held.profile] =
                                     Merged(profiles[held.profile], held.seen, escalated)]
                   /\ latest' = held.profile
      /\ ~writes => UNCHANGED <<profiles, latest>>
  <2>1. writes => /\ profiles' = [profiles EXCEPT ![held.profile] =
                                     Merged(profiles[held.profile], held.seen, escalated)]
                  /\ latest' = held.profile
    BY DEF CommitLifecycle
  <2>2. ~writes => UNCHANGED <<profiles, latest>>
    BY DEF CommitLifecycle
  <2> QED
    BY <2>1, <2>2 DEF CommitLifecycle
<1>3. TypeOK
  BY DEF IInv
<1>4. /\ findings' \in [Fingerprints -> FindingStatus]
      /\ \A f \in Fingerprints : Found(f) => Found(f)'
      /\ \A f \in DOMAIN held.known : Found(f)'
  BY <1>1, <1>2, <1>3, RaisedFound
<1>5. reasons # {} =>
        /\ reasons \in Reasons /\ p \in Profiles \cup {NoProfile}
        /\ Found(<<"edd", p, reasons>>)'
  BY <1>1, <1>4 DEF TriggeringTrue, Loaded, Reasons
<1>6. /\ FindingsGrow /\ PostureHasFinding' /\ KycTypeOK' /\ KycTrue'
  <2>1. CASE writes
    <3> PICK seen, wanted, new : /\ seen = held.seen /\ wanted = escalated
                                 /\ new = Merged(profiles[p], seen, wanted)
      OBVIOUS
    <3>1. p \in Profiles /\ seen \in Profile /\ Exists(p)
      BY <1>1, <2>1 DEF TriggeringTrue, Loaded
    <3>2. profiles[p] \in Profile /\ ProfileTrue(profiles[p])
      BY <3>1, IInvParts DEF ProfileTrue
    <3>3. /\ wanted \in Profile /\ wanted.status = seen.status
          /\ wanted.sanctions = seen.sanctions
      BY <3>1 DEF Profile
    <3>4. /\ new \in Profile /\ new.status = profiles[p].status
          /\ new.sanctions = "hit" => profiles[p].sanctions = "hit"
      <4> HIDE DEF escalated
      <4> QED
        BY <3>1, <3>2, <3>3, MergedProfile
    <3>5. profiles' = [profiles EXCEPT ![p] = new] /\ latest' = p
      BY <1>2, <2>1
    <3>6. new.status = "approved" => vetted'
      BY <1>2, <3>2, <3>4 DEF ProfileTrue
    <3>7. \E r \in Reasons \cup {{"office"}} : Found(<<"edd", p, r>>)'
      BY <1>5, <2>1
    <3>8. /\ FindingsGrow /\ PostureHasFinding' /\ Exists(p)'
          /\ profiles' \in [Profiles -> Profile \cup {NoProfile}]
          /\ \A q \in Profiles : Exists(q)' => (profiles'[q].status = "approved" => vetted')
      BY <1>2, <1>4, <3>1, <3>4, <3>5, <3>6, <3>7, ProfileWritten
    <3>9. DeskTrue'
      BY <1>2, <3>8, DeskKept
    <3>10. KycTypeOK'
      BY <1>2, <1>4, <3>1, <3>5, <3>8, IInvParts DEF KycTypeOK
    <3> QED
      BY <3>5, <3>8, <3>9, <3>10 DEF KycTrue
  <2>2. CASE ~writes
    <3>1. FindingsGrow
      BY <1>2, <1>4, <2>2 DEF FindingsGrow, Exists
    <3>2. KycTypeOK'
      BY <1>2, <1>4, <2>2, IInvParts DEF KycTypeOK
    <3> QED
      BY <1>2, <2>2, <3>1, <3>2, KycKept
  <2> QED
    BY <2>1, <2>2
<1>7. row \in Row /\ held.seenRow \in Row /\ held.newRow \in Row /\ RowTrue(held.newRow)
  BY <1>1, IInvParts DEF TriggeringTrue, RowTrue
<1>8. /\ merged \in Row /\ (row.made => merged.made)
      /\ merged.link \in {row.link, held.newRow.link}
      /\ merged.kyc \in {row.kyc, held.newRow.kyc}
      /\ merged.edd => row.edd \/ held.newRow.edd
  BY <1>1, <1>7, MergedRow DEF TriggeringTrue
<1> HIDE DEF writes, escalated
<1>9. RowTrue(merged) /\ (merged.edd => EddFound \/ reasons # {})
  BY <1>1, <1>7, <1>8, IInvParts DEF RowTrue, TriggeringTrue
<1>10. RowTrue(row)' /\ (row'.edd => EddFound')
  <2>1. RowTrue(merged)'
    BY <1>2, <1>6, <1>9, CopiesStay DEF RowTrue
  <2>2. reasons # {} => EddFound'
    BY <1>5 DEF EddFound
  <2> QED
    BY <1>2, <1>6, <1>9, <2>1, <2>2, EddStays DEF RowTrue
<1>11. ResultsGrow
  BY <1>2, <1>8 DEF ResultsGrow
<1>12. /\ tasks'[t].phase = "acknowledging" /\ TaskTyped(t)'
       /\ tasks'[t].hit = tasks[t].hit /\ tasks'[t].large = tasks[t].large
       /\ tasks'[t].risky = tasks[t].risky
       /\ DOMAIN tasks' = Tx /\ \A u \in Tx : u # t => tasks'[u] = tasks[u]
  BY <1>1, MovedTask DEF Phases
<1>13. EscalationDone(t)'
  <2>1. ASSUME NEW reason \in reasons PROVE EscalationFound(reason)'
    BY <1>5, <2>1 DEF EscalationFound, Found
  <2> QED
    BY <1>1, <1>2, <1>12, <2>1 DEF EscalationDone, TriggeringTrue
<1>14. Progress(t)' /\ SessionTrue(t)'
  BY <1>1, <1>2, <1>8, <1>12, <1>13
     DEF Progress, SessionTrue, RulesDone, At, AfterRules, AfterRow, AfterEscalation
<1>15. FindingsMade'
  BY <1>2, <1>4, <1>6, <1>10, IInvParts, FingerprintsOf DEF FindingsMade, EddFound, Found
<1> QED
  BY <1>2, <1>6, <1>10, <1>11, <1>12, <1>14, <1>15, IInvParts, CommitStep

-----------------------------------------------------------------------------
(* The compliance office, the nightly scan and the analysts                *)

\* A step of the office, of the scan or of an analyst keeps the tasks' part of the
\* invariant: it takes no finding and no profile away.
LEMMA KycStep ==
  ASSUME IInv, FindingsGrow, UNCHANGED monitoringVars,
         KycTypeOK', KycTrue', PostureHasFinding'
  PROVE  IInv'
<1>1. UNCHANGED <<tasks, alerts, counts, flagged, row, parked>>
  BY DEF monitoringVars
<1>2. ResultsGrow
  BY <1>1 DEF ResultsGrow
<1>3. ASSUME NEW u \in Tx PROVE TaskTyped(u)' /\ Progress(u)' /\ SessionTrue(u)'
  BY <1>1, <1>2, OtherTask, IInvParts
<1>4. TypeOK'
  BY <1>1, <1>3, IInvParts DEF TypeOK, TaskTyped
<1>5. RowTrue(row)' /\ (row.edd => EddFound')
  BY <1>1, IInvParts, CopiesStay, EddStays DEF RowTrue
<1>6. FindingsMade'
  BY <1>1, <1>5, IInvParts, FingerprintsOf
     DEF FindingsMade, EddFound, Found, FindingsGrow
<1> QED
  BY <1>1, <1>3, <1>4, <1>5, <1>6, IInvParts DEF IInv

\* A step that leaves the rows and the findings alone.
LEMMA DeskStep ==
  ASSUME IInv, UNCHANGED monitoringVars, UNCHANGED <<profiles, latest, findings, vetted>>,
         KycTypeOK', DeskTrue'
  PROVE  IInv'
<1>1. FindingsGrow
  BY DEF FindingsGrow, Found, Exists
<1>2. KycTrue' /\ PostureHasFinding'
  BY IInvParts DEF KycTrue, FindingsMade, PostureHasFinding, Exists
<1> QED
  BY <1>1, <1>2, KycStep

LEMMA RequestIInv ==
  ASSUME IInv, UNCHANGED monitoringVars, NEW p \in Profiles, NEW kind, Request(kind, p)
  PROVE  IInv'
<1>1. profiles[p] \in Profile /\ Exists(p)
  BY IInvParts DEF Request, ProfileTrue
<1>2. /\ desk'.kind \in {"screen", "set_level", "initiate", "review"}
      /\ desk'.profile = p /\ desk'.seen = profiles[p]
  BY DEF Request
<1>3. left' \in Budget
  BY IInvParts DEF Request, Spend, KycTypeOK, Budget
<1>4. KycTypeOK'
  BY <1>1, <1>2, <1>3, IInvParts DEF Request, KycTypeOK
<1>5. DeskTrue'
  BY <1>1, <1>2 DEF Request, DeskTrue, Exists
<1> QED
  BY <1>4, <1>5, DeskStep DEF Request

\* A request that is ready to commit, with the findings that its row will call for.
LEMMA PreparedIInv ==
  ASSUME IInv, UNCHANGED monitoringVars, desk # Idle,
         NEW new \in Profile, NEW fps \in SUBSET Fingerprints, Prepared(new, fps),
         UNCHANGED <<profiles, latest, findings, scan, left, vetted>>,
         new.cdd = "enhanced" =>
           desk.seen.cdd = "enhanced" \/ <<"edd", desk.profile, {"office"}>> \in fps,
         new.sanctions = "hit" =>
           desk.seen.sanctions = "hit" \/ <<"hit", desk.profile>> \in fps
  PROVE  IInv'
<1>1. desk.profile \in Profiles /\ desk.seen \in Profile /\ Exists(desk.profile)
  BY IInvParts DEF KycTypeOK, KycTrue, DeskTrue
<1>2. /\ desk'.kind = "commit" /\ desk'.profile = desk.profile /\ desk'.seen = desk.seen
      /\ desk'.new = new /\ desk'.known = Lookup(fps)
  BY DEF Prepared
<1>3. DOMAIN Lookup(fps) = fps /\ KnownTrue(Lookup(fps))
  BY LookupTrue
<1>4. /\ DOMAIN desk'.known \subseteq Fingerprints
      /\ \A f \in DOMAIN desk'.known : desk'.known[f] # "none" => Found(f)'
  BY <1>2, <1>3 DEF KnownTrue, Found
<1>5. DeskTrue'
  BY <1>1, <1>2, <1>3, <1>4 DEF DeskTrue, KnownTrue, Exists
<1>6. KycTypeOK'
  BY <1>1, <1>2, IInvParts DEF KycTypeOK
<1> QED
  BY <1>5, <1>6, DeskStep

LEMMA HandleIInv ==
  ASSUME IInv, UNCHANGED monitoringVars, Handle
  PROVE  IInv'
<1>1. desk # Idle => desk.profile \in Profiles /\ desk.seen \in Profile
  BY IInvParts DEF KycTypeOK
<1>2. ASSUME NEW sanctions \in {"clear", "hit"}, Screen(sanctions) PROVE IInv'
  <2>1. desk # Idle
    BY <1>2 DEF Screen, Idle
  <2> DEFINE new == [desk.seen EXCEPT !.sanctions = sanctions]
             fps == HitFindings(desk.profile, sanctions)
  <2>2. new \in Profile /\ new.cdd = desk.seen.cdd /\ new.sanctions = sanctions
    BY <1>1, <2>1 DEF Profile
  <2>3. fps \in SUBSET Fingerprints /\ (sanctions = "hit" => <<"hit", desk.profile>> \in fps)
    BY <1>1, <2>1, FingerprintsOf DEF HitFindings
  <2>4. Prepared(new, fps) /\ UNCHANGED <<profiles, latest, findings, scan, left, vetted>>
    BY <1>2 DEF Screen
  <2> HIDE DEF new, fps
  <2> QED
    BY <2>1, <2>2, <2>3, <2>4, PreparedIInv
<1>3. ASSUME NEW sanctions \in {"clear", "hit"}, NEW signals \in BOOLEAN,
             Onboard(sanctions, signals)
      PROVE  IInv'
  <2>1. desk # Idle
    BY <1>3 DEF Onboard, Idle
  <2> DEFINE level == IF sanctions = "hit" \/ signals THEN "enhanced" ELSE "standard"
             new == [desk.seen EXCEPT !.status = "pending", !.sanctions = sanctions,
                                      !.cdd = level, !.reason = "office", !.due = FALSE]
             fps == HitFindings(desk.profile, sanctions)
                      \cup LevelFindings(desk.profile, desk.seen, level)
  <2>2. level \in {"standard", "enhanced"}
    OBVIOUS
  <2> HIDE DEF level
  <2>3. new \in Profile /\ new.cdd = level /\ new.sanctions = sanctions
    BY <1>1, <2>1, <2>2 DEF Profile
  <2>4. /\ fps \in SUBSET Fingerprints
        /\ sanctions = "hit" => <<"hit", desk.profile>> \in fps
        /\ level = "enhanced" =>
             desk.seen.cdd = "enhanced" \/ <<"edd", desk.profile, {"office"}>> \in fps
    BY <1>1, <2>1, FingerprintsOf DEF HitFindings, LevelFindings
  <2>5. Prepared(new, fps) /\ UNCHANGED <<profiles, latest, findings, scan, left, vetted>>
    BY <1>3 DEF Onboard, level
  <2> HIDE DEF new, fps
  <2> QED
    BY <2>1, <2>3, <2>4, <2>5, PreparedIInv
<1>4. ASSUME NEW level \in {"standard", "enhanced"}, SetLevel(level) PROVE IInv'
  <2>1. desk # Idle
    BY <1>4 DEF SetLevel, Idle
  <2> DEFINE new == [desk.seen EXCEPT !.cdd = level, !.reason = "office", !.due = FALSE]
             fps == LevelFindings(desk.profile, desk.seen, level)
  <2>2. new \in Profile /\ new.cdd = level /\ new.sanctions = desk.seen.sanctions
    BY <1>1, <2>1 DEF Profile
  <2>3. /\ fps \in SUBSET Fingerprints
        /\ level = "enhanced" =>
             desk.seen.cdd = "enhanced" \/ <<"edd", desk.profile, {"office"}>> \in fps
    BY <1>1, <2>1, FingerprintsOf DEF LevelFindings
  <2>4. Prepared(new, fps) /\ UNCHANGED <<profiles, latest, findings, scan, left, vetted>>
    BY <1>4 DEF SetLevel
  <2> HIDE DEF new, fps
  <2> QED
    BY <2>1, <2>2, <2>3, <2>4, PreparedIInv
<1>5. ASSUME NEW status \in {"approved", "pending", "manual_review"}, desk # Idle,
             Prepared([desk.seen EXCEPT !.status = status], {}),
             UNCHANGED <<profiles, latest, findings, scan, left, vetted>>
      PROVE  IInv'
  <2> DEFINE new == [desk.seen EXCEPT !.status = status]
  <2>1. /\ new \in Profile /\ new.cdd = desk.seen.cdd
        /\ new.sanctions = desk.seen.sanctions
    BY <1>1, <1>5 DEF Profile
  <2>2. Prepared(new, {})
    BY <1>5
  <2> HIDE DEF new
  <2> QED
    BY <1>5, <2>1, <2>2, PreparedIInv
<1>6. CASE InitiateReview
  BY <1>5, <1>6 DEF InitiateReview, Idle
<1>7. ASSUME NEW status \in {"approved", "pending"}, Review(status) PROVE IInv'
  BY <1>5, <1>7 DEF Review, Idle
<1> QED
  BY <1>2, <1>3, <1>4, <1>6, <1>7 DEF Handle

LEMMA RequestFailsIInv ==
  ASSUME IInv, UNCHANGED monitoringVars, RequestFails
  PROVE  IInv'
<1>1. KycTypeOK'
  BY IInvParts DEF RequestFails, KycTypeOK
<1>2. DeskTrue'
  BY DEF RequestFails, DeskTrue, Idle
<1> QED
  BY <1>1, <1>2, DeskStep DEF RequestFails

LEMMA ScanStartsIInv ==
  ASSUME IInv, UNCHANGED monitoringVars, ScanStarts
  PROVE  IInv'
<1>1. PICK others \in Others, S \in SUBSET DueProfiles :
        scan' = [kind |-> "scan", known |-> Lookup({<<"expiry", p>> : p \in S}),
                 crowded |-> Cardinality(DueProfiles) + others > ScanLimit]
  BY DEF ScanStarts, Taken
<1> DEFINE fps == {<<"expiry", p>> : p \in S}
<1>2. fps \in SUBSET Fingerprints
  BY <1>1, FingerprintsOf DEF Taken, DueProfiles
<1>3. DOMAIN scan'.known \subseteq Fingerprints /\ scan'.crowded \in BOOLEAN
  BY <1>1, <1>2, LookupTrue
<1>4. KycTypeOK'
  BY <1>3, IInvParts DEF ScanStarts, KycTypeOK
<1>5. DeskTrue'
  BY IInvParts DEF ScanStarts, KycTrue, DeskTrue, KnownTrue, Exists, Found
<1> QED
  BY <1>4, <1>5, DeskStep DEF ScanStarts

LEMMA ScanFailsIInv ==
  ASSUME IInv, UNCHANGED monitoringVars, ScanFails
  PROVE  IInv'
<1>1. left' \in Budget
  BY IInvParts DEF ScanFails, Spend, KycTypeOK, Budget
<1>2. KycTypeOK'
  BY <1>1, IInvParts DEF ScanFails, KycTypeOK
<1>3. DeskTrue'
  BY IInvParts DEF ScanFails, KycTrue, DeskTrue, KnownTrue, Exists, Found
<1> QED
  BY <1>2, <1>3, DeskStep DEF ScanFails

LEMMA CreateProfileIInv ==
  ASSUME IInv, UNCHANGED monitoringVars, NEW p \in Profiles, CreateProfile(p)
  PROVE  IInv'
<1>1. New \in Profile /\ New.status = "pending" /\ New.cdd = "standard" /\ New.sanctions = "clear"
  BY DEF New, Profile
<1>2. /\ profiles' = [profiles EXCEPT ![p] = New] /\ latest' = p
      /\ desk' = [kind |-> "onboard", profile |-> p, seen |-> New]
      /\ UNCHANGED <<findings, scan, vetted>>
  BY DEF CreateProfile
<1>3. /\ FindingsGrow /\ PostureHasFinding' /\ Exists(p)'
      /\ profiles' \in [Profiles -> Profile \cup {NoProfile}]
      /\ \A q \in Profiles : Exists(q)' => (profiles'[q].status = "approved" => vetted')
  <2>1. \A f \in Fingerprints : Found(f) => Found(f)'
    BY <1>2 DEF Found
  <2> HIDE DEF New
  <2> QED
    BY <1>1, <1>2, <2>1, ProfileWritten
<1>4. left' \in Budget
  BY IInvParts DEF CreateProfile, Spend, KycTypeOK, Budget
<1>5. KycTypeOK'
  BY <1>1, <1>2, <1>3, <1>4, IInvParts DEF KycTypeOK
<1>6. KycTrue'
  BY <1>2, <1>3 DEF KycTrue, DeskTrue
<1> QED
  BY <1>3, <1>5, <1>6, KycStep

LEMMA FallsDueIInv ==
  ASSUME IInv, UNCHANGED monitoringVars, NEW p \in Profiles, FallsDue(p)
  PROVE  IInv'
<1> PICK new : new = [profiles[p] EXCEPT !.due = TRUE]
  OBVIOUS
<1>1. Exists(p) /\ ProfileTrue(profiles[p])
  BY IInvParts DEF FallsDue
<1>2. /\ new \in Profile /\ new.status = profiles[p].status /\ new.cdd = profiles[p].cdd
      /\ new.sanctions = profiles[p].sanctions
  BY <1>1 DEF ProfileTrue, Profile
<1>3. /\ profiles' = [profiles EXCEPT ![p] = new]
      /\ UNCHANGED <<latest, findings, desk, scan, vetted>>
  BY IInvParts DEF FallsDue, KycTypeOK
<1>4. /\ FindingsGrow /\ PostureHasFinding'
      /\ profiles' \in [Profiles -> Profile \cup {NoProfile}]
      /\ \A q \in Profiles : Exists(q)' => (profiles'[q].status = "approved" => vetted')
  <2>1. \A f \in Fingerprints : Found(f) => Found(f)'
    BY <1>3 DEF Found
  <2>2. new.status = "approved" => vetted'
    BY <1>1, <1>2, <1>3 DEF ProfileTrue
  <2> QED
    BY <1>1, <1>2, <1>3, <2>1, <2>2, ProfileWritten
<1>5. left' \in Budget
  BY IInvParts DEF FallsDue, Spend, KycTypeOK, Budget
<1>6. KycTypeOK'
  BY <1>3, <1>4, <1>5, IInvParts DEF KycTypeOK
<1>7. latest' # NoProfile => Exists(latest)'
  BY <1>3, <1>4, IInvParts DEF KycTrue, KycTypeOK, FindingsGrow
<1>8. KycTrue'
  BY <1>3, <1>4, <1>7, DeskKept DEF KycTrue
<1> QED
  BY <1>4, <1>6, <1>8, KycStep

\* The office's request writes its profile together with the findings it had looked up.
LEMMA CommitIInv ==
  ASSUME IInv, UNCHANGED monitoringVars, Commit
  PROVE  IInv'
<1> PICK p, new, known :
      p = desk.profile /\ new = Merged(profiles[p], desk.seen, desk.new) /\ known = desk.known
  OBVIOUS
<1>1. /\ p \in Profiles /\ Exists(p) /\ desk.seen \in Profile /\ desk.new \in Profile
      /\ KnownTrue(known)
      /\ desk.new.cdd = "enhanced" =>
           desk.seen.cdd = "enhanced" \/ <<"edd", p, {"office"}>> \in DOMAIN known
      /\ desk.new.sanctions = "hit" =>
           desk.seen.sanctions = "hit" \/ <<"hit", p>> \in DOMAIN known
  <2>1. desk.kind = "commit" /\ desk # Idle
    BY DEF Commit, Idle
  <2> QED
    BY <2>1, IInvParts DEF KycTrue, DeskTrue, KycTypeOK
<1>2. /\ profiles' = [profiles EXCEPT ![p] = new]
      /\ vetted' = (vetted \/ new.status = "approved")
      /\ latest' = (IF desk.touched THEN p ELSE latest)
      /\ findings' = Raised(known) /\ desk' = Idle /\ UNCHANGED <<scan, left>>
  BY DEF Commit
<1>3. /\ findings' \in [Fingerprints -> FindingStatus]
      /\ \A f \in Fingerprints : Found(f) => Found(f)'
      /\ \A f \in DOMAIN known : Found(f)'
  BY <1>1, <1>2, RaisedFound DEF IInv
<1>4. profiles[p] \in Profile /\ ProfileTrue(profiles[p])
  BY <1>1, IInvParts DEF ProfileTrue
<1>5. /\ new \in Profile
      /\ new.cdd = "enhanced" =>
           profiles[p].cdd = "enhanced" \/ <<"edd", p, {"office"}>> \in DOMAIN known
      /\ new.sanctions = "hit" =>
           profiles[p].sanctions = "hit" \/ <<"hit", p>> \in DOMAIN known
  <2> PICK seen, wanted : seen = desk.seen /\ wanted = desk.new
    OBVIOUS
  <2> QED
    BY <1>1, <1>4, MergedProfile
<1>6. /\ FindingsGrow /\ PostureHasFinding' /\ Exists(p)'
      /\ profiles' \in [Profiles -> Profile \cup {NoProfile}]
      /\ \A q \in Profiles : Exists(q)' => (profiles'[q].status = "approved" => vetted')
  <2>1. vetted => vetted'
    BY <1>2
  <2>2. new.status = "approved" => vetted'
    BY <1>2
  <2>3. new.cdd = "enhanced" =>
          \/ Exists(p) /\ profiles[p].cdd = "enhanced"
          \/ \E r \in Reasons \cup {{"office"}} : Found(<<"edd", p, r>>)'
    BY <1>1, <1>3, <1>5
  <2>4. new.sanctions = "hit" =>
          \/ Exists(p) /\ profiles[p].sanctions = "hit"
          \/ Found(<<"hit", p>>)'
    BY <1>1, <1>3, <1>5
  <2> QED
    BY <1>1, <1>2, <1>3, <1>5, <2>1, <2>2, <2>3, <2>4, ProfileWritten
<1>7. vetted' \in BOOLEAN
  BY <1>2
<1>8. KycTypeOK'
  BY <1>1, <1>2, <1>3, <1>6, <1>7, IInvParts DEF KycTypeOK, Idle
<1>9. latest' # NoProfile => Exists(latest)'
  BY <1>2, <1>6, IInvParts DEF KycTrue, KycTypeOK, FindingsGrow
<1>10. KycTrue'
  BY <1>2, <1>6, <1>9 DEF KycTrue, DeskTrue, Idle
<1> QED
  BY <1>6, <1>8, <1>10, KycStep

LEMMA ScanEndsIInv ==
  ASSUME IInv, UNCHANGED monitoringVars, ScanEnds
  PROVE  IInv'
<1>1. /\ findings' = Raised(scan.known) /\ scan' = Idle
      /\ UNCHANGED <<profiles, latest, desk, left, vetted>>
  BY DEF ScanEnds
<1>2. /\ findings' \in [Fingerprints -> FindingStatus]
      /\ \A f \in Fingerprints : Found(f) => Found(f)'
  BY <1>1, RaisedFound DEF IInv
<1>3. FindingsGrow
  BY <1>1, <1>2 DEF FindingsGrow, Exists
<1>4. KycTypeOK'
  BY <1>1, <1>2, IInvParts DEF KycTypeOK
<1> QED
  BY <1>1, <1>3, <1>4, KycKept, KycStep

LEMMA CloseFindingIInv ==
  ASSUME IInv, UNCHANGED monitoringVars, NEW f \in Fingerprints, CloseFinding(f)
  PROVE  IInv'
<1>1. findings' = [findings EXCEPT ![f] = "closed"]
      /\ UNCHANGED <<profiles, latest, desk, scan, vetted>>
  BY DEF CloseFinding
<1>2. findings \in [Fingerprints -> FindingStatus]
  BY IInvParts DEF KycTypeOK
<1>3. /\ findings' \in [Fingerprints -> FindingStatus]
      /\ \A g \in Fingerprints : Found(g) => Found(g)'
  BY <1>1, <1>2 DEF FindingStatus, Found
<1>4. FindingsGrow
  BY <1>1, <1>3 DEF FindingsGrow, Exists
<1>5. left' \in Budget
  BY IInvParts DEF CloseFinding, Spend, KycTypeOK, Budget
<1>6. KycTypeOK'
  BY <1>1, <1>3, <1>5, IInvParts DEF KycTypeOK
<1> QED
  BY <1>1, <1>4, <1>6, KycKept, KycStep

LEMMA KycIInv ==
  ASSUME IInv, KycNext, UNCHANGED monitoringVars
  PROVE  IInv'
BY CreateProfileIInv, FallsDueIInv, RequestIInv, HandleIInv, CommitIInv, RequestFailsIInv,
   ScanStartsIInv, ScanFailsIInv, ScanEndsIInv, CloseFindingIInv DEF KycNext

-----------------------------------------------------------------------------
(* The theorems                                                            *)

LEMMA InitIInv ==
  ASSUME Init
  PROVE  IInv
<1>1. PICK p \in Profiles, known \in BOOLEAN :
        /\ profiles = [q \in Profiles |->
                         IF known /\ q = p
                         THEN [New EXCEPT !.status = "approved", !.due = FALSE] ELSE NoProfile]
        /\ latest = IF known THEN p ELSE NoProfile
        /\ vetted = known
  BY DEF Init, KycInit
<1>2. /\ findings = [f \in Fingerprints |-> "none"] /\ desk = Idle /\ scan = Idle
      /\ left \in Budget
  BY KycAssumption DEF Init, KycInit
<1> PICK old : old = [New EXCEPT !.status = "approved", !.due = FALSE]
  OBVIOUS
<1>3. old \in Profile /\ old.cdd = "standard" /\ old.sanctions = "clear"
  BY DEF New, Profile
<1>4. NoProfile \notin Profile /\ NoProfile \notin Profiles
  BY KycAssumption
<1>5. KycTypeOK
  BY <1>1, <1>2, <1>3 DEF KycTypeOK, FindingStatus
<1>6. KycTrue /\ PostureHasFinding
  <2>1. DeskTrue
    BY <1>2 DEF DeskTrue, Idle
  <2> QED
    BY <1>1, <1>3, <1>4, <2>1 DEF KycTrue, PostureHasFinding, Exists
<1>7. /\ tasks = [t \in Tx |-> NoTask] /\ alerts = [x \in Tx \cup {"velocity"} |-> 0]
      /\ counts = [r \in Rules |-> 0] /\ flagged = {} /\ parked = {} /\ row = NoRow
  BY DEF Init
<1>8. ASSUME NEW t \in Tx PROVE TaskTyped(t) /\ Progress(t) /\ SessionTrue(t)
  <2>1. tasks[t] = NoTask /\ tasks[t].phase = "absent"
    BY <1>7 DEF NoTask
  <2>2. TaskTyped(t)
    BY <2>1, MonitoringAssumption DEF TaskTyped, NoTask, Phases
  <2> QED
    BY <2>1, <2>2 DEF Progress, SessionTrue, At, AfterRules, AfterRow, AfterEscalation
<1>9. RowTrue(row) /\ ~row.edd
  BY <1>7 DEF RowTrue, NoRow, Row
<1>10. FindingsMade
  BY <1>6, <1>7, <1>9 DEF FindingsMade
<1>11. TypeOK
  BY <1>5, <1>7, <1>8, <1>9 DEF TypeOK, TaskTyped, RowTrue
<1> QED
  BY <1>6, <1>7, <1>8, <1>9, <1>10, <1>11 DEF IInv

LEMMA WorkIInv ==
  ASSUME IInv, NEW t \in Tx, Work(t)
  PROVE  IInv'
BY ScoreIInv, CommitRulesIInv, CountIInv, CommitVelocityIInv, ReadRowIInv, ReadProfileIInv,
   CommitRowIInv, ReadLatestIInv, EscalateIInv, CommitLifecycleIInv, AcknowledgeIInv,
   LosesEarlyRaceIInv, LosesLateRaceIInv DEF Work

LEMMA StutterIInv ==
  ASSUME IInv, UNCHANGED vars
  PROVE  IInv'
<1>1. UNCHANGED monitoringVars /\ UNCHANGED <<profiles, latest, findings, desk, scan, left, vetted>>
  BY DEF vars, kycVars
<1>2. KycTypeOK'
  BY <1>1, IInvParts DEF KycTypeOK
<1>3. DeskTrue'
  BY <1>1, IInvParts DEF KycTrue, DeskTrue, KnownTrue, Exists, Found
<1> QED
  BY <1>1, <1>2, <1>3, DeskStep

LEMMA NextIInv ==
  ASSUME IInv, [Next]_vars
  PROVE  IInv'
BY KycIInv, IngestIInv, SendIInv, WorkIInv, BreaksIInv, RaisesIInv, RetryIInv, RetriesExhaustedIInv,
   CrashIInv, StutterIInv DEF Next

\* What a session has read supports what it will write, in every reachable state.
THEOREM Inductive == Spec => []IInv
<1>1. Init => IInv
  BY InitIInv
<1>2. IInv /\ [Next]_vars => IInv'
  BY NextIInv
<1> QED
  BY <1>1, <1>2, PTL DEF Spec

\* Every row, session, request and scan has the shape that its code gives it, and a task
\* holds a session only while it runs.
THEOREM TypeCorrect == Spec => []TypeOK
<1>1. IInv => TypeOK
  BY DEF IInv
<1> QED
  BY <1>1, Inductive, PTL

\* No alert is committed without its finding, no profile and no risk row asks for enhanced
\* due diligence unexplained, no sanctions hit lacks its finding, whatever sessions on the
\* same customer overlap, lose races, are retried or begin again.
THEOREM NothingUnexplained == Spec => []FindingsMade
<1>1. IInv => FindingsMade
  BY DEF IInv
<1> QED
  BY <1>1, Inductive, PTL

\* A task that succeeded has left the alert, the flag, the customer's row and the
\* escalation that its transaction called for.
THEOREM SuccessIsComplete == Spec => []DoneMeansMonitored
<1>1. IInv => DoneMeansMonitored
  BY DEF IInv, Progress, RulesDone, EscalationDone, DoneMeansMonitored, At, AfterRules,
         AfterRow, AfterEscalation
<1> QED
  BY <1>1, Inductive, PTL

-----------------------------------------------------------------------------
(* Alerts and their counter.  An attempt before the commit of its rules    *)
(* has an alert to spare, and the counter that a session has read belongs  *)
(* to alerts that are there; every other step leaves both as they are.     *)

TaskAccounted(t) ==
  /\ alerts[t] <= tasks[t].starts
  /\ At(t, "scoring") => alerts[t] + 1 <= tasks[t].starts
  /\ At(t, "counting") => tasks[t].held.count <= alerts["velocity"]

AInv == counts["velocity"] <= alerts["velocity"] /\ \A t \in Tx : TaskAccounted(t)

\* A step of one task that leaves alerts and counters alone, and begins neither a session on
\* the rules nor one on the velocity rule.
LEMMA UncountedStep ==
  ASSUME IInv, AInv, NEW t \in Tx, UNCHANGED <<alerts, counts>>, DOMAIN tasks' = Tx,
         \A u \in Tx : u # t => tasks'[u] = tasks[u],
         tasks'[t].starts = tasks[t].starts,
         tasks'[t].phase \notin {"scoring", "counting"}
  PROVE  AInv'
BY DEF AInv, TaskAccounted, At

LEMMA MovesUncounted ==
  ASSUME IInv, AInv, NEW t \in Tx, NEW phase \in Phases, NEW held, Moves(t, phase, held),
         phase \notin {"scoring", "counting"}, UNCHANGED <<alerts, counts>>
  PROVE  AInv'
BY MovedTask, UncountedStep

\* What the task's own fields are after the four steps that write more than its phase.
LEMMA EditedTask ==
  ASSUME IInv, NEW t \in Tx
  PROVE  /\ tasks[t].starts \in Nat /\ alerts[t] \in Nat
         /\ alerts["velocity"] \in Nat /\ counts["velocity"] \in Nat
         /\ DOMAIN tasks = Tx /\ DOMAIN tasks[t] = DOMAIN NoTask
BY IInvParts DEF TaskTyped, Rules

LEMMA IngestAInv ==
  ASSUME IInv, AInv, NEW t \in Tx, NEW kind \in Kinds, Ingest(t, kind)
  PROVE  AInv'
<1>1. /\ DOMAIN tasks' = Tx
      /\ \A u \in Tx : u # t => tasks'[u] = tasks[u]
      /\ tasks'[t].starts = tasks[t].starts /\ tasks'[t].phase = "stored"
  BY EditedTask DEF Ingest, NoTask
<1> QED
  BY <1>1, UncountedStep DEF Ingest

LEMMA RetryAInv ==
  ASSUME IInv, AInv, NEW t \in Tx, Retry(t)
  PROVE  AInv'
<1>1. /\ DOMAIN tasks' = Tx
      /\ \A u \in Tx : u # t => tasks'[u] = tasks[u]
      /\ tasks'[t].starts = tasks[t].starts /\ tasks'[t].phase = "queued"
  BY EditedTask DEF Retry, NoTask
<1> QED
  BY <1>1, UncountedStep DEF Retry

LEMMA ScoreAInv ==
  ASSUME IInv, AInv, NEW t \in Tx, NEW risky \in BOOLEAN, Score(t, risky)
  PROVE  AInv'
<1>1. /\ \A u \in Tx : u # t => tasks'[u] = tasks[u]
      /\ tasks'[t].starts = tasks[t].starts + 1 /\ tasks'[t].phase = "scoring"
      /\ UNCHANGED <<alerts, counts>>
  BY EditedTask DEF Score, NoTask
<1>2. TaskAccounted(t)'
  BY <1>1, EditedTask DEF AInv, TaskAccounted, At
<1> QED
  BY <1>1, <1>2 DEF AInv, TaskAccounted, At

LEMMA CountAInv ==
  ASSUME IInv, AInv, NEW t \in Tx, Count(t)
  PROVE  AInv'
<1> PICK held : held = [kind |-> "velocity", fires |-> VelocityFires,
                        count |-> counts["velocity"],
                        known |-> Lookup(IF VelocityFires THEN {<<"velocity">>} ELSE {})]
  OBVIOUS
<1>1. Moves(t, "counting", held) /\ UNCHANGED <<alerts, counts>>
  BY DEF Count
<1>2. /\ \A u \in Tx : u # t => tasks'[u] = tasks[u]
      /\ tasks'[t].starts = tasks[t].starts /\ tasks'[t].phase = "counting"
      /\ tasks'[t].held.count = counts["velocity"]
  BY <1>1, MovedTask DEF Phases
<1> QED
  BY <1>1, <1>2 DEF AInv, TaskAccounted, At

LEMMA CommitRulesAInv ==
  ASSUME IInv, AInv, NEW t \in Tx, CommitRules(t)
  PROVE  AInv'
<1>1. /\ \A u \in Tx : u # t => tasks'[u] = tasks[u]
      /\ tasks'[t].starts = tasks[t].starts /\ tasks'[t].phase = "scored"
  BY EditedTask DEF CommitRules, NoTask
<1>2. alerts[t] + 1 <= tasks[t].starts /\ alerts[t] <= tasks[t].starts
  BY DEF AInv, TaskAccounted, CommitRules
<1>3. /\ alerts'[t] \in {alerts[t], alerts[t] + 1}
      /\ \A x \in Tx \cup {"velocity"} : x # t => alerts'[x] = alerts[x]
      /\ counts'["velocity"] = counts["velocity"]
  BY IInvParts DEF CommitRules, Rules
<1>4. alerts'["velocity"] = alerts["velocity"]
  BY <1>3, MonitoringAssumption
<1>5. TaskAccounted(t)'
  BY <1>1, <1>2, <1>3, EditedTask DEF TaskAccounted, At
<1>6. ASSUME NEW u \in Tx, u # t PROVE TaskAccounted(u)'
  BY <1>1, <1>3, <1>4, <1>6 DEF AInv, TaskAccounted, At
<1> QED
  BY <1>3, <1>4, <1>5, <1>6 DEF AInv

LEMMA CommitVelocityAInv ==
  ASSUME IInv, AInv, NEW t \in Tx, CommitVelocity(t)
  PROVE  AInv'
<1>1. Moves(t, "counted", Idle) /\ At(t, "counting")
  BY DEF CommitVelocity
<1>2. /\ \A u \in Tx : u # t => tasks'[u] = tasks[u]
      /\ tasks'[t].starts = tasks[t].starts /\ tasks'[t].phase = "counted"
  BY <1>1, MovedTask DEF Phases
<1>3. /\ tasks[t].held.count \in Nat /\ tasks[t].held.count <= alerts["velocity"]
      /\ counts["velocity"] <= alerts["velocity"]
  BY <1>1, IInvParts DEF AInv, TaskAccounted, SessionTrue, CountingTrue
<1>4. /\ alerts'["velocity"] \in {alerts["velocity"], alerts["velocity"] + 1}
      /\ counts'["velocity"] <= alerts'["velocity"]
      /\ \A x \in Tx : x # "velocity" => alerts'[x] = alerts[x]
  <2>1. CASE tasks[t].held.fires
    BY <1>3, <2>1, IInvParts, EditedTask DEF CommitVelocity, Rules
  <2>2. CASE ~tasks[t].held.fires
    BY <1>3, <2>2, IInvParts DEF CommitVelocity
  <2> QED
    BY <2>1, <2>2
<1>5. \A u \in Tx : alerts'[u] = alerts[u]
  BY <1>4, MonitoringAssumption
<1>6. ASSUME NEW u \in Tx PROVE TaskAccounted(u)'
  <2>1. CASE u = t
    BY <1>2, <1>5, <2>1 DEF AInv, TaskAccounted, At
  <2>2. CASE u # t
    <3>1. At(u, "counting") => tasks[u].held.count \in Nat
      BY IInvParts DEF SessionTrue, CountingTrue
    <3> QED
      BY <1>2, <1>4, <1>5, <2>2, <3>1, EditedTask DEF AInv, TaskAccounted, At
  <2> QED
    BY <2>1, <2>2
<1> QED
  BY <1>4, <1>6 DEF AInv

LEMMA WorkAInv ==
  ASSUME IInv, AInv, NEW t \in Tx, Work(t)
  PROVE  AInv'
<1>1. CASE ReadRow(t) \/ ReadProfile(t) \/ CommitRow(t)
  BY <1>1, MovesUncounted DEF ReadRow, ReadProfile, CommitRow, Phases
<1>2. CASE ReadLatest(t)
  BY <1>2, MovesUncounted DEF ReadLatest, Phases
<1>3. CASE Escalate(t)
  BY <1>3, MovesUncounted DEF Escalate, Phases
<1>4. CASE CommitLifecycle(t) \/ Acknowledge(t)
  BY <1>4, MovesUncounted DEF CommitLifecycle, Acknowledge, Phases
<1>5. CASE LosesEarlyRace(t) \/ LosesLateRace(t)
  BY <1>5, MovesUncounted DEF LosesEarlyRace, LosesLateRace, Park, Phases
<1> QED
  BY <1>1, <1>2, <1>3, <1>4, <1>5, ScoreAInv, CommitRulesAInv, CountAInv, CommitVelocityAInv
     DEF Work

LEMMA NextAInv ==
  ASSUME IInv, AInv, [Next]_vars
  PROVE  AInv'
<1>1. CASE UNCHANGED monitoringVars
  BY <1>1 DEF monitoringVars, AInv, TaskAccounted, At
<1>2. ASSUME NEW t \in Tx, Send(t) \/ Breaks(t) \/ Raises(t) \/ RetriesExhausted(t) \/ Crash(t)
      PROVE  AInv'
  BY <1>2, MovesUncounted DEF Send, Breaks, Raises, RetriesExhausted, Crash, Park, Phases
<1>3. UNCHANGED vars => UNCHANGED monitoringVars
  BY DEF vars
<1> QED
  BY <1>1, <1>2, <1>3, IngestAInv, WorkAInv, RetryAInv DEF Next

\* However often tasks begin again, lose races and overwrite each other's counter, no attempt
\* leaves two alerts of the rule, and the counter of the velocity rule tells of no alert that
\* is not there.
THEOREM AlertsAreAccounted == Spec => []AlertsAccounted
<1>1. Init => AInv
  BY MonitoringAssumption DEF Init, AInv, TaskAccounted, At, NoTask, Rules
<1>2. IInv /\ AInv /\ [Next]_vars => AInv'
  BY NextAInv
<1>3. AInv => AlertsAccounted
  BY DEF AInv, TaskAccounted, AlertsAccounted
<1> QED
  BY <1>1, <1>2, <1>3, Inductive, PTL DEF Spec
=============================================================================
