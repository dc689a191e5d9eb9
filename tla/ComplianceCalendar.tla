-------------------------- MODULE ComplianceCalendar --------------------------
(***************************************************************************)
(* The compliance calendar of one tenant (services/compliance_calendar.py, *)
(* api/compliance_calendar.py) and its two nightly tasks                   *)
(* (tasks/compliance_calendar.py): events with a due date, seeded by       *)
(* request from what has a deadline, swept when they are overdue, counted  *)
(* as reminded when they are due soon, and moved by officers.              *)
(* DeadlineFindings.tla extends it with the other tracker of the same      *)
(* deadlines and with what analysts do about it.                           *)
(*                                                                         *)
(* A task or a request loads rows and commits once; the commit writes the  *)
(* columns whose value differs from the one it loaded, over whatever the   *)
(* row holds by then (READ COMMITTED, no row locks).                       *)
(***************************************************************************)
EXTENDS Naturals, FiniteSets

CONSTANTS
  Obligations,  \* regulatory obligations of one document, each with its effective_date
  Reviews,      \* policies and KYC profiles: each review moves the date of the next one
  Policies,     \* policies that an obligation may be linked to
  None,         \* no policy, or no obligation
  Dates,        \* the dates they may name at first
  MaxDay,       \* bound on the days that pass
  Lead,         \* reminder_days_before of an event, per kind
  Delay,        \* days an officer has to assess a change of the document
  Clerks,       \* officers, each with one request under way at a time
  Never,        \* null, of a date
  NoEvent,
  Budgets       \* bounds of a behaviour, see Budget

Budget == [events : Nat, findings : Nat, moves : Nat, links : Nat, crashes : Nat]

Kinds == {"deadline", "change"}

Days == 0..MaxDay

ASSUME CalendarAssumption ==
  /\ Dates \subseteq [Obligations \cup Reviews -> 0..MaxDay]
  /\ MaxDay \in Nat /\ Delay \in Nat
  /\ Lead \in [Kinds -> Nat]
  /\ Obligations \cap Reviews = {} /\ None \notin Obligations \cup Reviews
  /\ IsFiniteSet(Obligations \cup Reviews)
  /\ Never \notin Nat
  /\ Budgets \subseteq Budget

VARIABLES
  today,    \* the date
  dates,    \* the date each source names
  live,     \* the sources in scope: neither rejected nor deprecated
  exempt,   \* obligations the tenant has assessed as not applicable
  policyOf, \* linked_policy_id of each obligation
  events,   \* the committed rows of compliance_calendar_events
  scan,     \* the events the overdue sweep has loaded, {} when it does not run
  round,    \* the reminder counts the reminder task has loaded, << >> when it does not run
  desk,     \* per clerk: the request under way, or Idle
  left,     \* what is left of the bounds
  covered,  \* history: the fingerprints that a successful seed answered for
  verdict,  \* history: the status an officer gave an event last, or "none"
  raced     \* history: events an officer decided while the sweep had them loaded

calendarVars ==
  <<today, dates, live, exempt, policyOf, events, scan, round, desk, left, covered, verdict, raced>>

Sources == Obligations \cup Reviews

\* The fingerprint of an event names what it is about, its due date and the policy that the
\* obligation was linked to at the time: linked anew and seeded again, the same deadline has
\* a second event.  A change of a document of which no obligation applies is about None.
Fingerprints ==
  {<<"deadline", o, d, p>> : o \in Obligations, d \in Days, p \in Policies \cup {None}}
  \cup {<<"deadline", r, d, None>> : r \in Reviews, d \in Days}
  \cup {<<"change", o, d, p>> : o \in Obligations, d \in Delay..(MaxDay + Delay),
                               p \in Policies \cup {None}}
  \cup {<<"change", None, d, None>> : d \in Delay..(MaxDay + Delay)}

DueDay(f) == f[3]

\* "in_progress" stands for acknowledged, "completed" for any status that is not active.
Statuses == {"pending", "in_progress", "overdue", "completed"}

Event == [status : Statuses, reminders : Nat, last : Days \cup {Never}]

ASSUME NoEventAssumption == NoEvent \notin Event

NewEvent == [status |-> "pending", reminders |-> 0, last |-> Never]

Exists(f) == events[f] # NoEvent

UndecidedMutant(f) == Exists(f) /\ events[f].status = "pending"

\* What the sweep looks for.
Undecided(f) == Exists(f) /\ events[f].status \in {"pending", "in_progress"}

\* ACTIVE_EVENT_STATUSES
Active(f) == Undecided(f) \/ (Exists(f) /\ events[f].status = "overdue")

Idle == [kind |-> "idle"]

EventRequests ==
  [kind : {"seed", "change"}, wanted : SUBSET Fingerprints, missing : SUBSET Fingerprints]
  \cup [kind : {"update"}, event : Fingerprints, seen : Statuses, new : Statuses]

CalendarTypeOK ==
  /\ today \in Days
  /\ dates \in [Sources -> Days]
  /\ live \subseteq Sources /\ exempt \subseteq Obligations
  /\ policyOf \in [Obligations -> Policies \cup {None}]
  /\ events \in [Fingerprints -> Event \cup {NoEvent}]
  /\ scan \subseteq Fingerprints
  /\ DOMAIN round \subseteq Fingerprints /\ round \in [DOMAIN round -> Nat]
  /\ left \in Budget
  /\ covered \subseteq Fingerprints /\ raced \subseteq Fingerprints
  /\ verdict \in [Fingerprints -> Statuses \cup {"none"}]

CalendarInit ==
  /\ today = 0
  /\ dates \in Dates
  /\ live = Sources /\ exempt = {}
  /\ policyOf = [o \in Obligations |-> None]
  /\ events = [f \in Fingerprints |-> NoEvent]
  /\ scan = {}
  /\ round = << >>
  /\ desk = [c \in Clerks |-> Idle]
  /\ left \in Budgets
  /\ covered = {} /\ raced = {}
  /\ verdict = [f \in Fingerprints |-> "none"]

Spend(resource) ==
  /\ left[resource] > 0
  /\ left' = [left EXCEPT ![resource] = @ - 1]

-----------------------------------------------------------------------------
(* The world *)

NextDay ==
  /\ today < MaxDay
  /\ today' = today + 1
  /\ UNCHANGED <<dates, live, exempt, policyOf, events, scan, round, desk, left, covered, verdict, raced>>

\* An obligation is rejected, deprecated or taken up again; its date is the one it was
\* extracted with.
Rescope(o) ==
  /\ Spend("moves")
  /\ live' = IF o \in live THEN live \ {o} ELSE live \cup {o}
  /\ UNCHANGED <<today, dates, exempt, policyOf, events, scan, round, desk, covered, verdict, raced>>

\* The tenant assesses an obligation: not applicable, or applicable, be it in part.
Assess(o) ==
  /\ Spend("moves")
  /\ exempt' = IF o \in exempt THEN exempt \ {o} ELSE exempt \cup {o}
  /\ UNCHANGED <<today, dates, live, policyOf, events, scan, round, desk, covered, verdict, raced>>

\* An obligation is mapped to a policy, to another one, or to none any more.
Relink(o, p) ==
  /\ Spend("links")
  /\ p # policyOf[o]
  /\ policyOf' = [policyOf EXCEPT ![o] = p]
  /\ UNCHANGED <<today, dates, live, exempt, events, scan, round, desk, covered, verdict, raced>>

\* A review is done and names its next date.  The event of the old date stays.
Reviewed(r, d) ==
  /\ Spend("moves")
  /\ d > dates[r]
  /\ dates' = [dates EXCEPT ![r] = d]
  /\ UNCHANGED <<today, live, exempt, policyOf, events, scan, round, desk, covered, verdict, raced>>

-----------------------------------------------------------------------------
(* Requests *)

Takes(c, tracker, request) ==
  /\ desk[c] = Idle
  /\ Spend(tracker)
  /\ desk' = [desk EXCEPT ![c] = request]

Done(c) == desk' = [desk EXCEPT ![c] = Idle]

LinkedPolicy(s) == IF s \in Obligations THEN policyOf[s] ELSE None

\* POST /seed: every obligation and review in scope, here of all three kinds at once.
Wanted == {<<"deadline", s, dates[s], LinkedPolicy(s)>> : s \in live \ exempt}

Applicable == Obligations \ exempt

\* POST /regulatory-change/{doc_id}: every applicable obligation of the document, whatever
\* its status, or the document itself when it has none.
Affected ==
  IF Applicable = {} THEN {<<"change", None, today + Delay, None>>}
  ELSE {<<"change", o, today + Delay, policyOf[o]>> : o \in Applicable}

\* _create_or_update_event leaves an event alone that it finds.
Seeds(c, kind) ==
  /\ LET wanted == IF kind = "seed" THEN Wanted ELSE Affected
     IN Takes(c, "events",
              [kind |-> kind, wanted |-> wanted, missing |-> {f \in wanted : ~Exists(f)}])
  /\ UNCHANGED <<today, dates, live, exempt, policyOf, events, scan, round, covered, verdict, raced>>

\* (tenant, fingerprint) is unique: who inserts an event that another request inserted
\* meanwhile fails, with all the others of its transaction.
Seedable(missing) == \A f \in missing : ~Exists(f)

SeedsEnd(c) ==
  /\ desk[c].kind \in {"seed", "change"}
  /\ Seedable(desk[c].missing)
  /\ events' = [f \in Fingerprints |-> IF f \in desk[c].missing THEN NewEvent ELSE events[f]]
  /\ covered' = covered \cup desk[c].wanted
  /\ Done(c)
  /\ UNCHANGED <<today, dates, live, exempt, policyOf, scan, round, left, verdict, raced>>

\* PATCH /events/{id}: any status, from any status.
Updates(c, f, status) ==
  /\ Exists(f)
  /\ Takes(c, "events", [kind |-> "update", event |-> f, seen |-> events[f].status, new |-> status])
  /\ UNCHANGED <<today, dates, live, exempt, policyOf, events, scan, round, covered, verdict, raced>>

UpdateEnds(c) ==
  /\ desk[c].kind = "update"
  /\ LET f == desk[c].event IN
       /\ events' = IF desk[c].new = desk[c].seen THEN events
                    ELSE [events EXCEPT ![f].status = desk[c].new]
       /\ verdict' = [verdict EXCEPT ![f] = events'[f].status]
       /\ raced' = IF f \in scan THEN raced \cup {f} ELSE raced \ {f}
  /\ Done(c)
  /\ UNCHANGED <<today, dates, live, exempt, policyOf, scan, round, left, covered>>

RequestFailsMutant(c) ==
  /\ desk[c].kind \in {"seed", "change"}
  /\ Done(c)
  /\ covered' = covered \cup desk[c].wanted
  /\ UNCHANGED <<today, dates, live, exempt, policyOf, events, scan, round, left, verdict, raced>>

\* The process dies, the database fails or a unique key is violated: rolled back.
RequestFails(c) ==
  /\ desk[c] # Idle
  /\ Done(c)
  /\ UNCHANGED <<today, dates, live, exempt, policyOf, events, scan, round, left, covered, verdict, raced>>

-----------------------------------------------------------------------------
(* The nightly tasks *)

SweptMutant == {f \in Fingerprints : Exists(f) /\ DueDay(f) < today}

\* due_date < now: on the day itself it depends on the hour.
Swept == {f \in Fingerprints : Undecided(f) /\ DueDay(f) < today}

SweptToday == {f \in Fingerprints : Undecided(f) /\ DueDay(f) = today}

ScanStarts ==
  /\ scan = {}
  /\ \E passed \in SUBSET SweptToday :
       /\ scan' = Swept \cup passed
       /\ scan' # {}
  /\ UNCHANGED <<today, dates, live, exempt, policyOf, events, round, desk, left, covered, verdict, raced>>

ScanEnds ==
  /\ scan # {}
  /\ events' = [f \in Fingerprints |->
                  IF f \in scan THEN [events[f] EXCEPT !.status = "overdue"] ELSE events[f]]
  /\ scan' = {}
  /\ UNCHANGED <<today, dates, live, exempt, policyOf, round, desk, left, covered, verdict, raced>>

RemindableMutant ==
  {f \in Fingerprints : Active(f) /\ DueDay(f) <= today + Lead[f[1]]}

\* Not yet reminded today, and due within its lead or long ago.
Remindable ==
  {f \in Fingerprints :
     Active(f) /\ events[f].last # today /\ DueDay(f) <= today + Lead[f[1]]}

RoundStarts ==
  /\ round = << >>
  /\ Remindable # {}
  /\ round' = [f \in Remindable |-> events[f].reminders]
  /\ UNCHANGED <<today, dates, live, exempt, policyOf, events, scan, desk, left, covered, verdict, raced>>

\* mark_event_reminded; no message is sent.
RoundEnds ==
  /\ round # << >>
  /\ events' = [f \in Fingerprints |->
                  IF f \in DOMAIN round
                  THEN [events[f] EXCEPT !.reminders = round[f] + 1, !.last = today]
                  ELSE events[f]]
  /\ round' = << >>
  /\ UNCHANGED <<today, dates, live, exempt, policyOf, scan, desk, left, covered, verdict, raced>>

\* A task that fails or is lost rolls back; it is the same task that begins again the next
\* night, or at once when the broker delivers it once more.
ScanLost ==
  /\ scan # {}
  /\ Spend("crashes")
  /\ scan' = {}
  /\ UNCHANGED <<today, dates, live, exempt, policyOf, events, round, desk, covered, verdict, raced>>

RoundLost ==
  /\ round # << >>
  /\ Spend("crashes")
  /\ round' = << >>
  /\ UNCHANGED <<today, dates, live, exempt, policyOf, events, scan, desk, covered, verdict, raced>>

CalendarNext ==
  \/ NextDay
  \/ \E o \in Obligations :
       Rescope(o) \/ Assess(o) \/ \E p \in Policies \cup {None} : Relink(o, p)
  \/ \E r \in Reviews, d \in Days : Reviewed(r, d)
  \/ \E c \in Clerks :
       \/ \E kind \in {"seed", "change"} : Seeds(c, kind)
       \/ \E f \in Fingerprints, status \in {"in_progress", "completed"} : Updates(c, f, status)
       \/ SeedsEnd(c) \/ UpdateEnds(c) \/ RequestFails(c)
  \/ ScanStarts \/ ScanEnds \/ ScanLost
  \/ RoundStarts \/ RoundEnds \/ RoundLost

-----------------------------------------------------------------------------
(* Correctness *)

\* Whether the sweep, or the reminders, still have to do with an event.
Late ==
  \E f \in Fingerprints :
    /\ Exists(f) /\ events[f].status \in {"pending", "in_progress"}
    /\ DueDay(f) < today

Unreminded ==
  \E f \in Fingerprints :
    /\ Exists(f) /\ events[f].status # "completed" /\ events[f].reminders = 0
    /\ DueDay(f) <= today + Lead[f[1]]

\* Seeding is all or nothing: when a request to seed, or to propagate a change, has been
\* answered with success, the calendar has every event it was asked for, whoever seeded at
\* the same time and whatever failed in between.
SeedCovers == \A f \in covered : Exists(f)

\* What an officer has completed stays completed, although the sweep writes over whatever
\* it finds: the only completion it undoes is that of an event it had loaded before.
CompletedIsKept ==
  \A f \in Fingerprints : verdict[f] = "completed" =>
    events[f].status = "completed" \/ f \in raced

\* However often the reminder task is started, delivered again or overtaken by midnight, no
\* step counts a reminder of an event that has been reminded of that day, and each counts one.
RemindedOncePerDay ==
  [][\A f \in Fingerprints : Exists(f) /\ events'[f].reminders # events[f].reminders =>
       /\ events[f].last # today /\ events'[f].last = today
       /\ events'[f].reminders = events[f].reminders + 1]_calendarVars

\* Every event whose day is over is swept, and every one that comes within its lead or is
\* overdue is reminded of, unless somebody decides it first, although the tasks are lost and
\* overtaken by midnight and officers go on adding events: at last none is left.
NothingOverlooked == (Late ~> ~Late) /\ (Unreminded ~> ~Unreminded)
=============================================================================
