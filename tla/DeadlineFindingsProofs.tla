------------------------ MODULE DeadlineFindingsProofs ------------------------
(***************************************************************************)
(* Theorems about the compliance calendar and the findings of deadlines    *)
(* (ComplianceCalendar, DeadlineFindings), for every number of             *)
(* obligations, reviews, officers, cases, days and requests.               *)
(***************************************************************************)
EXTENDS DeadlineFindings, TLAPS

\* What a request or a task has loaded is still there when it commits: events are never
\* deleted.
LoadedExists ==
  /\ \A f \in scan : Exists(f)
  /\ \A f \in DOMAIN round : Exists(f)
  /\ \A c \in Clerks : desk[c].kind = "update" => Exists(desk[c].event)

\* A seed inserts what it did not find.
RestExists ==
  \A c \in Clerks : desk[c].kind \in {"seed", "change"} =>
    \A f \in desk[c].wanted : f \in desk[c].missing \/ Exists(f)

\* Only events that exist are decided, and a decision under the sweep's hands is recorded.
VerdictsKnown ==
  /\ \A f \in Fingerprints : verdict[f] # "none" => Exists(f)
  /\ \A f \in scan : verdict[f] = "completed" => f \in raced

\* Reminders are of the past; the reminder task has loaded only events that nobody has counted
\* a reminder of since, nor this day.
RemindersPast ==
  /\ \A f \in Fingerprints : Exists(f) /\ events[f].last # Never => events[f].last <= today
  /\ \A f \in DOMAIN round : events[f].last # today /\ round[f] = events[f].reminders

CalendarInv ==
  /\ LoadedExists
  /\ RestExists
  /\ VerdictsKnown
  /\ RemindersPast
  /\ SeedCovers
  /\ CompletedIsKept

\* Only the check creates findings, and neither findings nor cases are deleted.
FindingsKnown ==
  /\ \A f \in DOMAIN check : check[f] = "none" => findings[f] = "none"
  /\ \A c \in Clerks : desk[c].kind \in {"triage", "close", "escalate"} =>
       findings[desk[c].finding] # "none"
  /\ \A c \in Clerks : desk[c].kind = "link" => desk[c].case \in cases

\* A case that an escalation created is linked, and who escalates the same finding at the
\* time, or did not see that case, raced with that escalation.
EscalationsKnown ==
  /\ created \subseteq links
  /\ \A c, d \in Clerks :
       /\ c # d
       /\ desk[c].kind = "escalate" /\ desk[d].kind = "escalate"
       /\ desk[c].finding = desk[d].finding
       => desk[c].finding \in overlapped
  /\ \A c \in Clerks : desk[c].kind = "escalate" =>
       \A k \in Cases : <<k, desk[c].finding>> \in created => desk[c].finding \in overlapped

FindingInv ==
  /\ FindingsKnown
  /\ EscalationsKnown
  /\ OneCasePerFinding

\* The inductive invariant: the properties are not inductive without what the requests and
\* the tasks under way have loaded.
IInv == TypeOK /\ CalendarInv /\ FindingInv

-----------------------------------------------------------------------------
(* Types *)

\* What a request under way holds, by its kind.
LEMMA RequestTypes ==
  ASSUME TypeOK, NEW c \in Clerks
  PROVE  /\ desk[c].kind \in {"seed", "change"} =>
              desk[c].wanted \subseteq Fingerprints /\ desk[c].missing \subseteq Fingerprints
         /\ desk[c].kind = "update" =>
              /\ desk[c].event \in Fingerprints
              /\ desk[c].seen \in Statuses /\ desk[c].new \in Statuses
         /\ desk[c].kind \in {"triage", "close", "escalate"} =>
              desk[c].finding \in Breaches /\ desk[c].seen \in FindingStatuses
         /\ desk[c].kind = "triage" => desk[c].new \in FindingStatuses \ {"none"}
         /\ desk[c].kind \in {"escalate", "link"} => desk[c].case \in Cases
         /\ desk[c].kind = "link" => desk[c].add \subseteq Breaches
<1>1. desk[c] \in {Idle} \cup EventRequests \cup FindingRequests
  BY DEF TypeOK, DeskTypeOK
<1>2. CASE desk[c] = Idle
  BY <1>2 DEF Idle
<1>3. CASE desk[c] \in EventRequests
  BY <1>3 DEF EventRequests
<1>4. CASE desk[c] \in FindingRequests
  BY <1>4 DEF FindingRequests
<1> QED
  BY <1>1, <1>2, <1>3, <1>4

\* Fingerprints of what is wanted.
LEMMA WantedTypes ==
  ASSUME TypeOK
  PROVE  Wanted \subseteq Fingerprints /\ Affected \subseteq Fingerprints
<1>1. Wanted \subseteq Fingerprints
  <2> SUFFICES ASSUME NEW s \in live \ exempt
               PROVE  <<"deadline", s, dates[s], LinkedPolicy(s)>> \in Fingerprints
    BY DEF Wanted
  <2>1. s \in Sources /\ dates[s] \in Days
    BY DEF TypeOK, CalendarTypeOK
  <2>2. CASE s \in Obligations
    <3>1. LinkedPolicy(s) \in Policies \cup {None}
      BY <2>2 DEF LinkedPolicy, TypeOK, CalendarTypeOK
    <3> QED
      BY <2>1, <2>2, <3>1 DEF Fingerprints
  <2>3. CASE s \notin Obligations
    <3>1. s \in Reviews /\ LinkedPolicy(s) = None
      BY <2>1, <2>3 DEF LinkedPolicy, Sources
    <3> QED
      BY <2>1, <3>1 DEF Fingerprints
  <2> QED
    BY <2>2, <2>3
<1>2. Affected \subseteq Fingerprints
  <2>1. today + Delay \in Delay..(MaxDay + Delay)
    BY CalendarAssumption DEF TypeOK, CalendarTypeOK, Days
  <2>2. <<"change", None, today + Delay, None>> \in Fingerprints
    BY <2>1 DEF Fingerprints
  <2>3. ASSUME NEW o \in Applicable
        PROVE  <<"change", o, today + Delay, policyOf[o]>> \in Fingerprints
    <3>1. o \in Obligations /\ policyOf[o] \in Policies \cup {None}
      BY DEF Applicable, TypeOK, CalendarTypeOK
    <3> QED
      BY <2>1, <3>1 DEF Fingerprints
  <2> QED
    BY <2>2, <2>3 DEF Affected
<1> QED
  BY <1>1, <1>2

LEMMA InitTypes == Init => TypeOK
<1> SUFFICES ASSUME Init PROVE TypeOK
  OBVIOUS
<1> USE DEF Init, CalendarInit
<1>1. CalendarTypeOK
  <2>1. round \in [DOMAIN round -> Nat] /\ DOMAIN round \subseteq Fingerprints
    OBVIOUS
  <2>2. dates \in [Sources -> Days] /\ today \in Days
    <3>1. Dates \subseteq [Sources -> Days] /\ MaxDay \in Nat
      BY CalendarAssumption DEF Sources, Days
    <3> QED
      BY <3>1 DEF Days
  <2>3. left \in Budget
    BY CalendarAssumption
  <2> QED
    BY <2>1, <2>2, <2>3 DEF CalendarTypeOK, Statuses
<1>2. DeskTypeOK
  BY DEF DeskTypeOK
<1>3. findings \in [Breaches -> FindingStatuses]
  BY DEF FindingStatuses
<1>4. DOMAIN check \subseteq Breaches /\ check \in [DOMAIN check -> FindingStatuses]
  OBVIOUS
<1> QED
  BY <1>1, <1>2, <1>3, <1>4, FindingsAssumption DEF TypeOK

\* What spending leaves.
LEMMA SpendTypes ==
  ASSUME TypeOK, NEW r \in {"events", "findings", "moves", "links", "crashes"}, Spend(r)
  PROVE  left' \in Budget
<1>1. left \in Budget
  BY DEF TypeOK, CalendarTypeOK
<1>2. left[r] \in Nat /\ left[r] - 1 \in Nat
  BY <1>1 DEF Spend, Budget
<1> QED
  BY <1>1, <1>2 DEF Spend, Budget

\* A clerk takes a request, or is done with it.
LEMMA TakesTypes ==
  ASSUME TypeOK, NEW c \in Clerks, NEW tracker \in {"events", "findings"},
         NEW request \in EventRequests \cup FindingRequests, Takes(c, tracker, request)
  PROVE  /\ DeskTypeOK'
         /\ left' \in Budget
         /\ \A d \in Clerks : desk'[d] = IF d = c THEN request ELSE desk[d]
<1>1. DeskTypeOK
  BY DEF TypeOK
<1>2. left' \in Budget
  BY SpendTypes DEF Takes
<1> QED
  BY <1>1, <1>2 DEF Takes, DeskTypeOK

LEMMA DoneTypes ==
  ASSUME TypeOK, NEW c \in Clerks, Done(c)
  PROVE  /\ DeskTypeOK'
         /\ \A d \in Clerks : desk'[d] = IF d = c THEN Idle ELSE desk[d]
<1>1. DeskTypeOK
  BY DEF TypeOK
<1> QED
  BY <1>1 DEF Done, DeskTypeOK

LEMMA CalendarTypes ==
  ASSUME TypeOK, LoadedExists, CalendarNext, UNCHANGED findingVars
  PROVE  TypeOK'
<1> DEFINE Goal == CalendarTypeOK' /\ DeskTypeOK'
<1>0. CalendarTypeOK /\ DeskTypeOK
  BY DEF TypeOK
<1>1. SUFFICES Goal
  BY DEF TypeOK, findingVars
<1>2. CASE NextDay
  BY <1>0, <1>2, CalendarAssumption DEF NextDay, CalendarTypeOK, DeskTypeOK, Days
<1>3. ASSUME NEW o \in Obligations, Rescope(o) PROVE Goal
  <2>1. left' \in Budget
    BY <1>3, SpendTypes DEF Rescope
  <2>2. live' \subseteq Sources
    BY <1>0, <1>3 DEF Rescope, CalendarTypeOK, Sources
  <2> QED
    BY <1>0, <1>3, <2>1, <2>2 DEF Rescope, CalendarTypeOK, DeskTypeOK
<1>16. ASSUME NEW o \in Obligations, Assess(o) PROVE Goal
  <2>1. left' \in Budget
    BY <1>16, SpendTypes DEF Assess
  <2>2. exempt' \subseteq Obligations
    BY <1>0, <1>16 DEF Assess, CalendarTypeOK
  <2> QED
    BY <1>0, <1>16, <2>1, <2>2 DEF Assess, CalendarTypeOK, DeskTypeOK
<1>17. ASSUME NEW o \in Obligations, NEW p \in Policies \cup {None}, Relink(o, p) PROVE Goal
  <2>1. left' \in Budget
    BY <1>17, SpendTypes DEF Relink
  <2>2. policyOf' \in [Obligations -> Policies \cup {None}]
    BY <1>0, <1>17 DEF Relink, CalendarTypeOK
  <2> QED
    BY <1>0, <1>17, <2>1, <2>2 DEF Relink, CalendarTypeOK, DeskTypeOK
<1>4. ASSUME NEW r \in Reviews, NEW d \in Days, Reviewed(r, d) PROVE Goal
  <2>1. left' \in Budget
    BY <1>4, SpendTypes DEF Reviewed
  <2> QED
    BY <1>0, <1>4, <2>1 DEF Reviewed, CalendarTypeOK, DeskTypeOK
<1>5. ASSUME NEW c \in Clerks, NEW kind \in {"seed", "change"}, Seeds(c, kind) PROVE Goal
  <2> DEFINE wanted == IF kind = "seed" THEN Wanted ELSE Affected
             request == [kind |-> kind, wanted |-> wanted, missing |-> {f \in wanted : ~Exists(f)}]
  <2>1. wanted \subseteq Fingerprints
    BY WantedTypes
  <2>2. request \in EventRequests
    BY <2>1 DEF EventRequests
  <2>3. Takes(c, "events", request)
    BY <1>5 DEF Seeds
  <2> HIDE DEF request
  <2>4. DeskTypeOK' /\ left' \in Budget
    BY <2>2, <2>3, TakesTypes
  <2> QED
    BY <1>0, <1>5, <2>4 DEF Seeds, CalendarTypeOK
<1>6. ASSUME NEW c \in Clerks, SeedsEnd(c) PROVE Goal
  <2>1. desk[c].wanted \subseteq Fingerprints /\ desk[c].missing \subseteq Fingerprints
    BY <1>6, RequestTypes DEF SeedsEnd
  <2>2. NewEvent \in Event
    BY DEF NewEvent, Event, Statuses
  <2>3. events' \in [Fingerprints -> Event \cup {NoEvent}]
    BY <1>0, <1>6, <2>2 DEF SeedsEnd, CalendarTypeOK
  <2>4. DeskTypeOK'
    BY <1>6, DoneTypes DEF SeedsEnd
  <2> QED
    BY <1>0, <1>6, <2>1, <2>3, <2>4 DEF SeedsEnd, CalendarTypeOK
<1>7. ASSUME NEW c \in Clerks, NEW f \in Fingerprints, NEW status \in {"in_progress", "completed"},
             Updates(c, f, status)
      PROVE  Goal
  <2> DEFINE request == [kind |-> "update", event |-> f, seen |-> events[f].status, new |-> status]
  <2>1. events[f].status \in Statuses
    BY <1>0, <1>7 DEF Updates, Exists, CalendarTypeOK, Event
  <2>2. request \in EventRequests
    BY <2>1 DEF EventRequests, Statuses
  <2>3. Takes(c, "events", request)
    BY <1>7 DEF Updates
  <2> HIDE DEF request
  <2>4. DeskTypeOK' /\ left' \in Budget
    BY <2>2, <2>3, TakesTypes
  <2> QED
    BY <1>0, <1>7, <2>4 DEF Updates, CalendarTypeOK
<1>8. ASSUME NEW c \in Clerks, UpdateEnds(c) PROVE Goal
  <2> DEFINE f == desk[c].event
  <2>1. f \in Fingerprints /\ desk[c].new \in Statuses
    BY <1>8, RequestTypes DEF UpdateEnds
  <2>2. Exists(f)
    BY <1>8 DEF UpdateEnds, LoadedExists
  <2>3. events[f] \in Event
    BY <1>0, <2>1, <2>2 DEF Exists, CalendarTypeOK
  <2>4. events' \in [Fingerprints -> Event \cup {NoEvent}] /\ events'[f] \in Event
    BY <1>0, <1>8, <2>1, <2>3 DEF UpdateEnds, CalendarTypeOK, Event
  <2>5. verdict' \in [Fingerprints -> Statuses \cup {"none"}]
    BY <1>0, <1>8, <2>1, <2>4 DEF UpdateEnds, CalendarTypeOK, Event
  <2>6. raced' \subseteq Fingerprints
    BY <1>0, <1>8, <2>1 DEF UpdateEnds, CalendarTypeOK
  <2>7. DeskTypeOK'
    BY <1>8, DoneTypes DEF UpdateEnds
  <2> QED
    BY <1>0, <1>8, <2>4, <2>5, <2>6, <2>7 DEF UpdateEnds, CalendarTypeOK
<1>9. ASSUME NEW c \in Clerks, RequestFails(c) PROVE Goal
  <2>1. DeskTypeOK'
    BY <1>9, DoneTypes DEF RequestFails
  <2> QED
    BY <1>0, <1>9, <2>1 DEF RequestFails, CalendarTypeOK
<1>10. CASE ScanStarts
  <2>1. scan' \subseteq Fingerprints
    BY <1>10 DEF ScanStarts, Swept, SweptToday
  <2> QED
    BY <1>0, <1>10, <2>1 DEF ScanStarts, CalendarTypeOK, DeskTypeOK
<1>11. CASE ScanEnds
  <2>1. \A f \in scan : events[f] \in Event
    BY <1>0 DEF LoadedExists, Exists, CalendarTypeOK
  <2>2. events' \in [Fingerprints -> Event \cup {NoEvent}]
    BY <1>0, <1>11, <2>1 DEF ScanEnds, CalendarTypeOK, Event, Statuses
  <2> QED
    BY <1>0, <1>11, <2>2 DEF ScanEnds, CalendarTypeOK, DeskTypeOK
<1>12. CASE RoundStarts
  <2>1. Remindable \subseteq Fingerprints /\ \A f \in Remindable : events[f] \in Event
    BY <1>0 DEF Remindable, Active, Undecided, Exists, CalendarTypeOK
  <2>2. DOMAIN round' \subseteq Fingerprints /\ round' \in [DOMAIN round' -> Nat]
    BY <1>12, <2>1 DEF RoundStarts, Event
  <2> QED
    BY <1>0, <1>12, <2>2 DEF RoundStarts, CalendarTypeOK, DeskTypeOK
<1>13. CASE RoundEnds
  <2>1. \A f \in DOMAIN round : events[f] \in Event /\ round[f] + 1 \in Nat
    BY <1>0 DEF LoadedExists, Exists, CalendarTypeOK
  <2>2. events' \in [Fingerprints -> Event \cup {NoEvent}]
    BY <1>0, <1>13, <2>1 DEF RoundEnds, CalendarTypeOK, Event
  <2>3. DOMAIN round' \subseteq Fingerprints /\ round' \in [DOMAIN round' -> Nat]
    <3>1. round' = << >>
      BY <1>13 DEF RoundEnds
    <3> QED
      BY <3>1
  <2> QED
    BY <1>0, <1>13, <2>2, <2>3 DEF RoundEnds, CalendarTypeOK, DeskTypeOK
<1>14. CASE ScanLost
  <2>1. left' \in Budget
    BY <1>14, SpendTypes DEF ScanLost
  <2> QED
    BY <1>0, <1>14, <2>1 DEF ScanLost, CalendarTypeOK, DeskTypeOK
<1>15. CASE RoundLost
  <2>1. left' \in Budget
    BY <1>15, SpendTypes DEF RoundLost
  <2>2. DOMAIN round' \subseteq Fingerprints /\ round' \in [DOMAIN round' -> Nat]
    BY <1>15 DEF RoundLost
  <2> QED
    BY <1>0, <1>15, <2>1, <2>2 DEF RoundLost, CalendarTypeOK, DeskTypeOK
<1> QED
  BY <1>2, <1>3, <1>4, <1>5, <1>6, <1>7, <1>8, <1>9, <1>10, <1>11, <1>12, <1>13, <1>14, <1>15,
     <1>16, <1>17
  DEF CalendarNext

\* An analyst's request touches the calendar only through the clerk's desk.
LEMMA AnalystTypes ==
  ASSUME TypeOK, FindingsKnown, Analysts
  PROVE  TypeOK'
<1> DEFINE Goal == TypeOK'
<1>0. CalendarTypeOK /\ DeskTypeOK /\ findings \in [Breaches -> FindingStatuses]
  BY DEF TypeOK
<1>1. ASSUME NEW c \in Clerks, NEW request \in FindingRequests, Asks(c, request),
             overlapped' \subseteq Breaches
      PROVE  Goal
  <2>1. DeskTypeOK' /\ left' \in Budget
    BY <1>1, TakesTypes DEF Asks
  <2>2. CalendarTypeOK'
    BY <1>0, <1>1, <2>1 DEF Asks, CalendarTypeOK
  <2> QED
    BY <1>0, <1>1, <2>1, <2>2 DEF Asks, TypeOK
<1>2. ASSUME NEW c \in Clerks, Answered(c),
             findings' \in [Breaches -> FindingStatuses],
             cases' \subseteq Cases, links' \subseteq cases' \X Breaches,
             created' \subseteq cases' \X Breaches
      PROVE  Goal
  <2>1. DeskTypeOK'
    BY <1>2, DoneTypes DEF Answered
  <2>2. CalendarTypeOK'
    BY <1>0, <1>2 DEF Answered, CalendarTypeOK
  <2> QED
    BY <1>2, <2>1, <2>2 DEF Answered, TypeOK
<1>3. ASSUME NEW c \in Clerks, NEW f \in Breaches, Close(c, f) PROVE Goal
  <2>1. [kind |-> "close", finding |-> f, seen |-> findings[f]] \in FindingRequests
    BY <1>0 DEF FindingRequests
  <2>2. overlapped' \subseteq Breaches
    BY <1>3 DEF Close, TypeOK
  <2> QED
    BY <1>1, <1>3, <2>1, <2>2 DEF Close
<1>9. ASSUME NEW c \in Clerks, NEW f \in Breaches, NEW status \in FindingStatuses \ {"none"},
             Triage(c, f, status)
      PROVE  Goal
  <2>1. [kind |-> "triage", finding |-> f, seen |-> findings[f], new |-> status]
          \in FindingRequests
    BY <1>0 DEF FindingRequests
  <2>2. overlapped' \subseteq Breaches
    BY <1>9 DEF Triage, TypeOK
  <2> QED
    BY <1>1, <1>9, <2>1, <2>2 DEF Triage
<1>4. ASSUME NEW c \in Clerks, NEW f \in Breaches, NEW k \in Cases, Escalate(c, f, k) PROVE Goal
  <2>1. [kind |-> "escalate", finding |-> f, seen |-> findings[f], case |-> k] \in FindingRequests
    BY <1>0 DEF FindingRequests
  <2>2. overlapped' \subseteq Breaches
    BY <1>4 DEF Escalate, TypeOK
  <2> QED
    BY <1>1, <1>4, <2>1, <2>2 DEF Escalate
<1>5. ASSUME NEW c \in Clerks, NEW k \in Cases, NEW fs \in SUBSET Breaches, Link(c, k, fs) PROVE Goal
  <2> DEFINE request == [kind |-> "link", case |-> k, add |-> {f \in fs : k \notin Linked(f)}]
  <2>1. request \in FindingRequests
    BY DEF FindingRequests
  <2>2. Asks(c, request)
    BY <1>5 DEF Link
  <2>3. overlapped' \subseteq Breaches
    BY <1>5 DEF Link, TypeOK
  <2> HIDE DEF request
  <2> QED
    BY <1>1, <2>1, <2>2, <2>3
<1>6. ASSUME NEW c \in Clerks, TriageEnds(c) \/ CloseEnds(c) PROVE Goal
  <2>1. /\ desk[c].finding \in Breaches /\ desk[c].seen \in FindingStatuses
        /\ desk[c].kind = "triage" => desk[c].new \in FindingStatuses \ {"none"}
    BY <1>6, RequestTypes DEF TriageEnds, CloseEnds
  <2>2. findings' \in [Breaches -> FindingStatuses]
    BY <1>0, <1>6, <2>1 DEF TriageEnds, CloseEnds, Decided, FindingStatuses
  <2> QED
    BY <1>2, <1>6, <2>2 DEF TriageEnds, CloseEnds, TypeOK
<1>7. ASSUME NEW c \in Clerks, EscalateEnds(c) PROVE Goal
  <2>1. desk[c].finding \in Breaches /\ desk[c].seen \in FindingStatuses /\ desk[c].case \in Cases
    BY <1>7, RequestTypes DEF EscalateEnds
  <2>2. findings' \in [Breaches -> FindingStatuses]
    BY <1>0, <1>7, <2>1 DEF EscalateEnds, Decided, FindingStatuses
  <2>3. cases' \subseteq Cases /\ links' \subseteq cases' \X Breaches
        /\ created' \subseteq cases' \X Breaches
    BY <1>7, <2>1 DEF EscalateEnds, TypeOK
  <2> QED
    BY <1>2, <1>7, <2>2, <2>3 DEF EscalateEnds
<1>8. ASSUME NEW c \in Clerks, LinkEnds(c) PROVE Goal
  <2>1. desk[c].case \in cases /\ desk[c].add \subseteq Breaches
    BY <1>8, RequestTypes DEF LinkEnds, FindingsKnown
  <2>2. links' \subseteq cases' \X Breaches
    BY <1>8, <2>1 DEF LinkEnds, TypeOK
  <2> QED
    BY <1>2, <1>8, <2>2 DEF LinkEnds, TypeOK
<1> QED
  BY <1>3, <1>4, <1>5, <1>6, <1>7, <1>8, <1>9 DEF Analysts

LEMMA CheckTypes ==
  ASSUME TypeOK, CheckStarts \/ CheckEnds \/ CheckLost
  PROVE  TypeOK'
<1>0. CalendarTypeOK /\ DeskTypeOK /\ findings \in [Breaches -> FindingStatuses]
  BY DEF TypeOK
<1>1. CASE CheckStarts
  <2>1. Alerted \subseteq Breaches
    BY DEF Alerted, Breaches
  <2>2. DOMAIN check' \subseteq Breaches /\ check' \in [DOMAIN check' -> FindingStatuses]
    BY <1>0, <1>1, <2>1 DEF CheckStarts
  <2> QED
    BY <1>0, <1>1, <2>2 DEF CheckStarts, TypeOK, CalendarTypeOK, DeskTypeOK, calendarVars
<1>2. CASE CheckEnds
  <2>1. findings' \in [Breaches -> FindingStatuses]
    BY <1>0, <1>2 DEF CheckEnds, Raised, FindingStatuses
  <2>2. DOMAIN check' \subseteq Breaches /\ check' \in [DOMAIN check' -> FindingStatuses]
    <3>1. check' = << >>
      BY <1>2 DEF CheckEnds
    <3> QED
      BY <3>1
  <2> QED
    BY <1>0, <1>2, <2>1, <2>2 DEF CheckEnds, TypeOK, CalendarTypeOK, DeskTypeOK, calendarVars
<1>3. CASE CheckLost
  <2>1. left' \in Budget
    BY <1>3, SpendTypes DEF CheckLost
  <2>2. DOMAIN check' \subseteq Breaches /\ check' \in [DOMAIN check' -> FindingStatuses]
    BY <1>3 DEF CheckLost
  <2> QED
    BY <1>0, <1>3, <2>1, <2>2 DEF CheckLost, TypeOK, CalendarTypeOK, DeskTypeOK
<1> QED
  BY <1>1, <1>2, <1>3

-----------------------------------------------------------------------------
(* The calendar *)

\* Events are never deleted, and nothing but a seed's commit creates one.
LEMMA EventsStay ==
  ASSUME TypeOK, LoadedExists, CalendarNext, NEW f \in Fingerprints, Exists(f)
  PROVE  Exists(f)'
<1>0. events \in [Fingerprints -> Event \cup {NoEvent}] /\ events[f] \in Event
  BY DEF TypeOK, CalendarTypeOK, Exists
<1>1. SUFFICES events'[f] \in Event
  BY <1>1, NoEventAssumption DEF Exists
<1>2. ASSUME NEW c \in Clerks, SeedsEnd(c) PROVE events'[f] \in Event
  BY <1>0, <1>2 DEF SeedsEnd, Seedable
<1>3. ASSUME NEW c \in Clerks, UpdateEnds(c) PROVE events'[f] \in Event
  <2>1. desk[c].event \in Fingerprints /\ desk[c].new \in Statuses
    BY <1>3, RequestTypes DEF UpdateEnds
  <2> QED
    BY <1>0, <1>3, <2>1 DEF UpdateEnds, Event
<1>4. CASE ScanEnds
  BY <1>0, <1>4 DEF ScanEnds, Event, Statuses
<1>5. CASE RoundEnds
  <2>1. f \in DOMAIN round => round[f] + 1 \in Nat
    BY DEF TypeOK, CalendarTypeOK
  <2>2. today \in Days
    BY DEF TypeOK, CalendarTypeOK
  <2> QED
    BY <1>0, <1>5, <2>1, <2>2 DEF RoundEnds, Event
<1>6. CASE UNCHANGED events
  BY <1>0, <1>6
<1> QED
  BY <1>2, <1>3, <1>4, <1>5, <1>6
  DEF CalendarNext, NextDay, Rescope, Assess, Relink, Reviewed, Seeds, Updates, RequestFails, ScanStarts, ScanLost,
      RoundStarts, RoundLost

\* Who writes what.
LEMMA CalendarWriters ==
  ASSUME CalendarNext
  PROVE  /\ scan' \subseteq scan \/ ScanStarts
         /\ round' \in {round, << >>} \/ RoundStarts
         /\ covered' = covered \/ \E c \in Clerks : SeedsEnd(c)
         /\ (verdict' = verdict /\ raced' = raced) \/ \E c \in Clerks : UpdateEnds(c)
         /\ \/ events' = events \/ ScanEnds \/ RoundEnds
            \/ \E c \in Clerks : SeedsEnd(c) \/ UpdateEnds(c)
         /\ \/ desk' = desk
            \/ \E c \in Clerks :
                 \/ Done(c)
                 \/ \E kind \in {"seed", "change"} : Seeds(c, kind)
                 \/ \E f \in Fingerprints, status \in {"in_progress", "completed"} :
                      Updates(c, f, status)
         /\ today' = today \/ NextDay
BY DEF CalendarNext, NextDay, Rescope, Assess, Relink, Reviewed, Seeds, SeedsEnd, Updates, UpdateEnds, RequestFails,
       ScanStarts, ScanEnds, ScanLost, RoundStarts, RoundEnds, RoundLost

\* What becomes of the request of a clerk.
LEMMA DeskSteps ==
  ASSUME TypeOK, CalendarNext, NEW c \in Clerks
  PROVE  \/ desk'[c] = desk[c]
         \/ desk'[c] = Idle
         \/ \E kind \in {"seed", "change"}, wanted \in SUBSET Fingerprints :
              /\ desk'[c] = [kind |-> kind, wanted |-> wanted,
                             missing |-> {f \in wanted : ~Exists(f)}]
              /\ UNCHANGED <<events, scan, verdict, raced>>
         \/ \E f \in Fingerprints, status \in Statuses :
              /\ Exists(f) /\ UNCHANGED <<events, scan, verdict, raced>>
              /\ desk'[c] = [kind |-> "update", event |-> f, seen |-> events[f].status, new |-> status]
<1>0. desk \in [Clerks -> {Idle} \cup EventRequests \cup FindingRequests]
  BY DEF TypeOK, DeskTypeOK
<1>1. ASSUME NEW d \in Clerks, Done(d) PROVE desk'[c] \in {desk[c], Idle}
  BY <1>0, <1>1 DEF Done
<1>2. ASSUME NEW d \in Clerks, NEW kind \in {"seed", "change"}, Seeds(d, kind)
      PROVE  \/ desk'[c] = desk[c]
             \/ \E wanted \in SUBSET Fingerprints :
                  /\ desk'[c] = [kind |-> kind, wanted |-> wanted,
                                 missing |-> {f \in wanted : ~Exists(f)}]
                  /\ UNCHANGED <<events, scan, verdict, raced>>
  <2> DEFINE wanted == IF kind = "seed" THEN Wanted ELSE Affected
  <2>1. wanted \subseteq Fingerprints
    BY WantedTypes
  <2>2. /\ desk' = [desk EXCEPT ![d] = [kind |-> kind, wanted |-> wanted,
                                        missing |-> {f \in wanted : ~Exists(f)}]]
        /\ UNCHANGED <<events, scan, verdict, raced>>
    BY <1>2 DEF Seeds, Takes
  <2> HIDE DEF wanted
  <2> QED
    BY <1>0, <2>1, <2>2
<1>3. ASSUME NEW d \in Clerks, NEW f \in Fingerprints, NEW status \in {"in_progress", "completed"},
             Updates(d, f, status)
      PROVE  \/ desk'[c] = desk[c]
             \/ /\ Exists(f) /\ UNCHANGED <<events, scan, verdict, raced>>
                /\ desk'[c] = [kind |-> "update", event |-> f, seen |-> events[f].status,
                               new |-> status]
  BY <1>0, <1>3 DEF Updates, Takes
<1>4. {"in_progress", "completed"} \subseteq Statuses
  BY DEF Statuses
<1> QED
  BY <1>1, <1>2, <1>3, <1>4, CalendarWriters

LEMMA LoadedExistsStays ==
  ASSUME TypeOK, LoadedExists, CalendarNext
  PROVE  LoadedExists'
<1>1. \A f \in Fingerprints : Exists(f) => Exists(f)'
  BY EventsStay
<1>2. ASSUME NEW f \in scan' PROVE Exists(f)'
  <2>1. CASE ScanStarts
    BY <1>1, <1>2, <2>1 DEF ScanStarts, Swept, SweptToday, Undecided
  <2>2. CASE scan' \subseteq scan
    BY <1>1, <1>2, <2>2 DEF LoadedExists, TypeOK, CalendarTypeOK
  <2> QED
    BY <2>1, <2>2, CalendarWriters
<1>3. ASSUME NEW f \in DOMAIN round' PROVE Exists(f)'
  <2>1. CASE RoundStarts
    BY <1>1, <1>3, <2>1 DEF RoundStarts, Remindable, Active, Undecided
  <2>2. CASE round' = round
    BY <1>1, <1>3, <2>2 DEF LoadedExists, TypeOK, CalendarTypeOK
  <2>3. CASE round' = << >>
    BY <1>3, <2>3
  <2> QED
    BY <2>1, <2>2, <2>3, CalendarWriters
<1>4. ASSUME NEW c \in Clerks, desk'[c].kind = "update" PROVE events'[desk'[c].event] # NoEvent
  <2>1. CASE desk'[c] = desk[c]
    BY <1>1, <1>4, <2>1, RequestTypes DEF LoadedExists, Exists
  <2>2. CASE desk'[c] = Idle
    BY <1>4, <2>2 DEF Idle
  <2>3. CASE \E f \in Fingerprints, status \in Statuses :
               /\ Exists(f) /\ UNCHANGED events
               /\ desk'[c] = [kind |-> "update", event |-> f, seen |-> events[f].status, new |-> status]
    BY <2>3 DEF Exists
  <2>4. CASE \E kind \in {"seed", "change"}, wanted \in SUBSET Fingerprints :
               desk'[c] = [kind |-> kind, wanted |-> wanted,
                           missing |-> {f \in wanted : ~Exists(f)}]
    BY <1>4, <2>4
  <2> QED
    BY <2>1, <2>2, <2>3, <2>4, DeskSteps
<1> QED
  BY <1>2, <1>3, <1>4 DEF LoadedExists, Exists

LEMMA RestExistsStays ==
  ASSUME TypeOK, LoadedExists, RestExists, CalendarNext
  PROVE  RestExists'
<1>1. \A f \in Fingerprints : events[f] # NoEvent => events'[f] # NoEvent
  BY EventsStay DEF Exists
<1> SUFFICES ASSUME NEW c \in Clerks, desk'[c].kind \in {"seed", "change"},
                    NEW f \in desk'[c].wanted
             PROVE  f \in desk'[c].missing \/ events'[f] # NoEvent
  BY DEF RestExists, Exists
<1>2. CASE desk'[c] = desk[c]
  BY <1>1, <1>2, RequestTypes DEF RestExists, Exists
<1>3. CASE desk'[c] = Idle
  BY <1>3 DEF Idle
<1>4. CASE \E kind \in {"seed", "change"}, wanted \in SUBSET Fingerprints :
             /\ desk'[c] = [kind |-> kind, wanted |-> wanted, missing |-> {g \in wanted : ~Exists(g)}]
             /\ UNCHANGED events
  BY <1>4 DEF Exists
<1>5. CASE \E g \in Fingerprints, status \in Statuses :
             desk'[c] = [kind |-> "update", event |-> g, seen |-> events[g].status, new |-> status]
  BY <1>5
<1> QED
  BY <1>2, <1>3, <1>4, <1>5, DeskSteps

LEMMA SeedCoversStays ==
  ASSUME TypeOK, LoadedExists, RestExists, SeedCovers, CalendarNext
  PROVE  SeedCovers'
<1>1. \A f \in Fingerprints : Exists(f) => Exists(f)'
  BY EventsStay
<1>2. covered \subseteq Fingerprints
  BY DEF TypeOK, CalendarTypeOK
<1>3. CASE covered' = covered
  BY <1>1, <1>2, <1>3 DEF SeedCovers
<1>4. ASSUME NEW c \in Clerks, SeedsEnd(c) PROVE SeedCovers'
  <2>1. desk[c].wanted \subseteq Fingerprints
    BY <1>4, RequestTypes DEF SeedsEnd
  <2>2. ASSUME NEW f \in desk[c].missing, f \in Fingerprints PROVE Exists(f)'
    BY <1>4, <2>2, NoEventAssumption DEF SeedsEnd, Exists, NewEvent, Event, Statuses
  <2>3. \A f \in desk[c].wanted : f \in desk[c].missing \/ Exists(f)
    BY <1>4 DEF RestExists, SeedsEnd
  <2>4. covered' = covered \cup desk[c].wanted
    BY <1>4 DEF SeedsEnd
  <2> QED
    BY <1>1, <1>2, <2>1, <2>2, <2>3, <2>4 DEF SeedCovers
<1> QED
  BY <1>3, <1>4, CalendarWriters

\* What a commit leaves of an event's status, apart from the officers' own decisions.
LEMMA StatusSteps ==
  ASSUME TypeOK, LoadedExists, CalendarNext, NEW f \in Fingerprints, Exists(f)
  PROVE  \/ events'[f].status = events[f].status
         \/ ScanEnds /\ f \in scan
         \/ \E c \in Clerks : UpdateEnds(c) /\ desk[c].event = f
<1>0. events \in [Fingerprints -> Event \cup {NoEvent}] /\ events[f] \in Event
  BY DEF TypeOK, CalendarTypeOK, Exists
<1>1. ASSUME NEW c \in Clerks, SeedsEnd(c) PROVE events'[f] = events[f]
  BY <1>0, <1>1 DEF SeedsEnd, Seedable
<1>2. ASSUME NEW c \in Clerks, UpdateEnds(c), desk[c].event # f PROVE events'[f] = events[f]
  BY <1>0, <1>2 DEF UpdateEnds
<1>3. CASE ScanEnds
  BY <1>0, <1>3 DEF ScanEnds
<1>4. CASE RoundEnds
  BY <1>0, <1>4 DEF RoundEnds, Event
<1> QED
  BY <1>1, <1>2, <1>3, <1>4, CalendarWriters

LEMMA VerdictsStay ==
  ASSUME TypeOK, LoadedExists, VerdictsKnown, CompletedIsKept, CalendarNext
  PROVE  VerdictsKnown' /\ CompletedIsKept'
<1>0. /\ verdict \in [Fingerprints -> Statuses \cup {"none"}]
      /\ events \in [Fingerprints -> Event \cup {NoEvent}]
      /\ scan \subseteq Fingerprints
  BY DEF TypeOK, CalendarTypeOK
<1>1. \A f \in Fingerprints : Exists(f) => Exists(f)'
  BY EventsStay
<1>2. CASE verdict' = verdict /\ raced' = raced
  <2>1. \A f \in Fingerprints : verdict'[f] # "none" => Exists(f)'
    BY <1>1, <1>2 DEF VerdictsKnown
  <2>2. ASSUME NEW f \in scan', verdict'[f] = "completed" PROVE f \in raced'
    <3>1. CASE ScanStarts
      <4>1. f \in Fingerprints /\ events[f].status # "completed"
        BY <2>2, <3>1 DEF ScanStarts, Swept, SweptToday, Undecided
      <4> QED
        BY <1>2, <2>2, <4>1 DEF CompletedIsKept
    <3>2. CASE scan' \subseteq scan
      BY <1>2, <2>2, <3>2 DEF VerdictsKnown
    <3> QED
      BY <3>1, <3>2, CalendarWriters
  <2>3. ASSUME NEW f \in Fingerprints, verdict'[f] = "completed", f \notin raced'
        PROVE  events'[f].status = "completed"
    <3>1. Exists(f) /\ events[f].status = "completed" /\ f \notin scan
      BY <1>2, <2>3 DEF VerdictsKnown, CompletedIsKept
    <3>2. ASSUME NEW c \in Clerks, UpdateEnds(c), desk[c].event = f
          PROVE  events'[f].status = "completed"
      <4>1. verdict'[f] = events'[f].status
        BY <1>0, <3>2 DEF UpdateEnds
      <4> QED
        BY <2>3, <4>1
    <3> QED
      BY <3>1, <3>2, StatusSteps
  <2> QED
    BY <2>1, <2>2, <2>3 DEF VerdictsKnown, CompletedIsKept
<1>3. ASSUME NEW c \in Clerks, UpdateEnds(c)
      PROVE  VerdictsKnown' /\ CompletedIsKept'
  <2> DEFINE g == desk[c].event
  <2>1. g \in Fingerprints /\ Exists(g)
    BY <1>3, RequestTypes DEF UpdateEnds, LoadedExists
  <2>2. /\ verdict' = [verdict EXCEPT ![g] = events'[g].status]
        /\ raced' = IF g \in scan THEN raced \cup {g} ELSE raced \ {g}
        /\ scan' = scan
        /\ \A f \in Fingerprints : f # g => events'[f] = events[f]
    BY <1>0, <1>3 DEF UpdateEnds
  <2> HIDE DEF g
  <2>3. \A f \in Fingerprints : verdict'[f] # "none" => Exists(f)'
    BY <1>0, <1>1, <2>1, <2>2 DEF VerdictsKnown
  <2>4. \A f \in scan' : verdict'[f] = "completed" => f \in raced'
    BY <1>0, <2>1, <2>2 DEF VerdictsKnown
  <2>5. ASSUME NEW f \in Fingerprints, verdict'[f] = "completed", f \notin raced'
        PROVE  events'[f].status = "completed"
    BY <1>0, <2>1, <2>2, <2>5 DEF CompletedIsKept
  <2> QED
    BY <2>3, <2>4, <2>5 DEF VerdictsKnown, CompletedIsKept
<1> QED
  BY <1>2, <1>3, CalendarWriters

\* Whatever a commit writes of an event, it counts no reminder, but for the reminder task's
\* own commit.
LEMMA ReminderSteps ==
  ASSUME TypeOK, LoadedExists, CalendarNext, NEW f \in Fingerprints, Exists(f)
  PROVE  \/ events'[f].last = events[f].last /\ events'[f].reminders = events[f].reminders
         \/ /\ RoundEnds /\ f \in DOMAIN round
            /\ events'[f].last = today /\ events'[f].reminders = round[f] + 1
<1>0. events \in [Fingerprints -> Event \cup {NoEvent}] /\ events[f] \in Event
  BY DEF TypeOK, CalendarTypeOK, Exists
<1>1. ASSUME NEW c \in Clerks, SeedsEnd(c) PROVE events'[f] = events[f]
  BY <1>0, <1>1 DEF SeedsEnd, Seedable
<1>2. ASSUME NEW c \in Clerks, UpdateEnds(c)
      PROVE  events'[f].last = events[f].last /\ events'[f].reminders = events[f].reminders
  <2>1. desk[c].event \in Fingerprints
    BY <1>2, RequestTypes DEF UpdateEnds
  <2> QED
    BY <1>0, <1>2, <2>1 DEF UpdateEnds, Event
<1>3. CASE ScanEnds
  BY <1>0, <1>3 DEF ScanEnds, Event
<1>4. CASE RoundEnds
  BY <1>0, <1>4 DEF RoundEnds, Event
<1> QED
  BY <1>1, <1>2, <1>3, <1>4, CalendarWriters

\* Who creates an event has counted no reminder of it.
LEMMA NewEvents ==
  ASSUME TypeOK, LoadedExists, CalendarNext, NEW f \in Fingerprints, ~Exists(f), Exists(f)'
  PROVE  events'[f].last = Never
<1>0. events \in [Fingerprints -> Event \cup {NoEvent}] /\ events[f] = NoEvent
  BY DEF TypeOK, CalendarTypeOK, Exists
<1>1. ASSUME NEW c \in Clerks, SeedsEnd(c) PROVE events'[f].last = Never
  BY <1>0, <1>1 DEF SeedsEnd, NewEvent, Exists
<1>2. ASSUME NEW c \in Clerks, UpdateEnds(c) PROVE FALSE
  <2>1. desk[c].event \in Fingerprints /\ Exists(desk[c].event)
    BY <1>2, RequestTypes DEF UpdateEnds, LoadedExists
  <2> QED
    BY <1>0, <1>2, <2>1 DEF UpdateEnds, Exists
<1>3. CASE ScanEnds
  BY <1>0, <1>3 DEF ScanEnds, LoadedExists, Exists
<1>4. CASE RoundEnds
  BY <1>0, <1>4 DEF RoundEnds, LoadedExists, Exists
<1> QED
  BY <1>0, <1>1, <1>2, <1>3, <1>4, CalendarWriters DEF Exists

LEMMA RemindersStay ==
  ASSUME TypeOK, LoadedExists, RemindersPast, CalendarNext
  PROVE  RemindersPast'
<1>0. /\ events \in [Fingerprints -> Event \cup {NoEvent}]
      /\ DOMAIN round \subseteq Fingerprints /\ today \in Nat
      /\ today' = today \/ (today' = today + 1 /\ UNCHANGED <<events, round>>)
  BY CalendarAssumption, CalendarWriters DEF TypeOK, CalendarTypeOK, Days, NextDay
<1>1. ASSUME NEW f \in Fingerprints, Exists(f), events[f].last # Never
      PROVE  events[f].last \in Nat /\ events[f].last <= today
  <2>1. events[f] \in Event
    BY <1>0, <1>1 DEF Exists
  <2> QED
    BY <1>1, <2>1, CalendarAssumption DEF RemindersPast, Event, Days
<1>2. ASSUME NEW f \in Fingerprints, Exists(f)', events'[f].last # Never
      PROVE  events'[f].last <= today'
  <2>1. CASE ~Exists(f)
    BY <1>2, <2>1, NewEvents
  <2>2. CASE Exists(f)
    <3>1. events'[f].last = events[f].last \/ (RoundEnds /\ events'[f].last = today)
      BY <2>2, ReminderSteps
    <3>2. RoundEnds => today' = today
      BY DEF RoundEnds
    <3> QED
      BY <1>0, <1>1, <1>2, <2>2, <3>1, <3>2
  <2> QED
    BY <2>1, <2>2
<1>3. ASSUME NEW f \in DOMAIN round'
      PROVE  events'[f].last # today' /\ round'[f] = events'[f].reminders
  <2>1. CASE RoundStarts
    BY <1>3, <2>1 DEF RoundStarts, Remindable
  <2>2. CASE round' = << >>
    BY <1>3, <2>2
  <2>3. CASE round' = round
    <3>1. /\ f \in Fingerprints /\ Exists(f)
          /\ events[f].last # today /\ round[f] = events[f].reminders
      BY <1>0, <1>3, <2>3 DEF LoadedExists, RemindersPast
    <3>2. ~RoundEnds
      BY <1>3, <2>3 DEF RoundEnds
    <3>3. events'[f].last = events[f].last /\ events'[f].reminders = events[f].reminders
      BY <3>1, <3>2, ReminderSteps
    <3>4. events[f].last # today'
      BY <1>0, <1>1, <3>1, CalendarAssumption
    <3> QED
      BY <2>3, <3>1, <3>3, <3>4
  <2> QED
    BY <2>1, <2>2, <2>3, CalendarWriters
<1> QED
  BY <1>2, <1>3 DEF RemindersPast

\* The step that counts a reminder counts one, of an event not yet reminded of this day.
LEMMA CountingSteps ==
  ASSUME TypeOK, LoadedExists, RemindersPast, CalendarNext, NEW f \in Fingerprints, Exists(f),
         events'[f].reminders # events[f].reminders
  PROVE  /\ events[f].last # today /\ events'[f].last = today
         /\ events'[f].reminders = events[f].reminders + 1
BY ReminderSteps DEF RemindersPast

LEMMA FindingsLeaveEvents ==
  ASSUME [Next]_vars
  PROVE  CalendarNext \/ events' = events
BY DEF Next, CheckStarts, CheckEnds, CheckLost, Analysts, Triage, Close, Escalate, Link, TriageEnds,
       CloseEnds, EscalateEnds, LinkEnds, Asks, Answered, vars, calendarVars

LEMMA CalendarInvStays ==
  ASSUME TypeOK, CalendarInv, CalendarNext
  PROVE  CalendarInv'
BY LoadedExistsStays, RestExistsStays, SeedCoversStays, VerdictsStay, RemindersStay DEF CalendarInv

\* The check, and a request of an analyst, leave the calendar alone but for the desk.
LEMMA CalendarUntouched ==
  ASSUME TypeOK, CalendarInv,
         UNCHANGED <<today, events, scan, round, covered, verdict, raced>>,
         \A c \in Clerks : desk'[c] = desk[c] \/ desk'[c].kind \notin {"seed", "change", "update"}
  PROVE  CalendarInv'
<1> USE DEF CalendarInv
<1>1. LoadedExists'
  BY DEF LoadedExists, Exists
<1>2. RestExists'
  BY DEF RestExists, Exists
<1>3. VerdictsKnown' /\ CompletedIsKept'
  BY DEF VerdictsKnown, CompletedIsKept, Exists
<1>4. RemindersPast' /\ SeedCovers'
  BY DEF RemindersPast, SeedCovers, Exists
<1> QED
  BY <1>1, <1>2, <1>3, <1>4

-----------------------------------------------------------------------------
(* The findings *)

\* A step that leaves the findings, the cases and the check alone.
LEMMA FindingsUntouched ==
  ASSUME TypeOK, FindingInv, UNCHANGED findingVars,
         \A c \in Clerks :
           desk'[c] = desk[c] \/ desk'[c].kind \notin {"triage", "close", "escalate", "link"}
  PROVE  FindingInv'
<1> USE DEF FindingInv, findingVars
<1>1. FindingsKnown'
  BY DEF FindingsKnown
<1>2. EscalationsKnown'
  BY DEF EscalationsKnown
<1>3. OneCasePerFinding'
  BY DEF OneCasePerFinding
<1> QED
  BY <1>1, <1>2, <1>3

LEMMA CalendarKeepsFindings ==
  ASSUME TypeOK, FindingInv, CalendarNext, UNCHANGED findingVars
  PROVE  FindingInv'
<1> SUFFICES ASSUME NEW c \in Clerks
             PROVE  desk'[c] = desk[c] \/ desk'[c].kind \notin {"triage", "close", "escalate", "link"}
  BY FindingsUntouched
<1>1. CASE desk'[c] = Idle
  BY <1>1 DEF Idle
<1>2. CASE \E kind \in {"seed", "change"}, wanted \in SUBSET Fingerprints :
             desk'[c] = [kind |-> kind, wanted |-> wanted, missing |-> {f \in wanted : ~Exists(f)}]
  BY <1>2
<1>3. CASE \E f \in Fingerprints, status \in Statuses :
             desk'[c] = [kind |-> "update", event |-> f, seen |-> events[f].status, new |-> status]
  BY <1>3
<1> QED
  BY <1>1, <1>2, <1>3, DeskSteps

LEMMA CheckKeepsInv ==
  ASSUME TypeOK, CalendarInv, FindingInv, CheckStarts \/ CheckEnds \/ CheckLost
  PROVE  CalendarInv' /\ FindingInv'
<1> USE DEF FindingInv
<1>1. UNCHANGED <<today, events, scan, round, covered, verdict, raced, desk, cases, created, links,
                  overlapped>>
  BY DEF CheckStarts, CheckEnds, CheckLost, calendarVars
<1>2. CalendarInv'
  BY <1>1, CalendarUntouched
<1>3. EscalationsKnown' /\ OneCasePerFinding'
  BY <1>1 DEF EscalationsKnown, OneCasePerFinding
<1>4. CASE CheckStarts
  <2>1. FindingsKnown'
    BY <1>1, <1>4 DEF CheckStarts, FindingsKnown
  <2> QED
    BY <1>2, <1>3, <2>1
<1>5. CASE CheckLost
  <2>0. check' = << >> /\ findings' = findings
    BY <1>5 DEF CheckLost
  <2>1. FindingsKnown'
    BY <1>1, <2>0 DEF FindingsKnown
  <2> QED
    BY <1>2, <1>3, <2>1
<1>6. CASE CheckEnds
  <2>1. findings' = [f \in Breaches |-> IF f \in DOMAIN check THEN Raised(f) ELSE findings[f]]
        /\ check' = << >>
    BY <1>6 DEF CheckEnds
  <2>2. \A f \in Breaches : findings'[f] = findings[f] \/ findings'[f] = "new"
    BY <2>1 DEF Raised
  <2>3. FindingsKnown'
    <3>1. \A c \in Clerks : desk[c].kind \in {"triage", "close", "escalate"} =>
            desk[c].finding \in Breaches
      BY RequestTypes
    <3> QED
      BY <1>1, <2>1, <2>2, <3>1 DEF FindingsKnown
  <2> QED
    BY <1>2, <1>3, <2>3
<1> QED
  BY <1>2, <1>3, <1>4, <1>5, <1>6

\* An analyst begins: the desk gets a request, and escalations that overlap are remembered.
LEMMA AskKeepsInv ==
  ASSUME TypeOK, CalendarInv, FindingInv,
         NEW c \in Clerks, NEW request \in FindingRequests, Asks(c, request),
         overlapped \subseteq overlapped',
         request.kind \in {"triage", "close", "escalate"} => findings[request.finding] # "none",
         request.kind = "link" => request.case \in cases,
         request.kind = "escalate" =>
           /\ Linked(request.finding) = {}
           /\ \A d \in Clerks :
                desk[d].kind = "escalate" /\ desk[d].finding = request.finding =>
                  request.finding \in overlapped'
  PROVE  CalendarInv' /\ FindingInv'
<1> USE DEF FindingInv
<1>1. \A d \in Clerks : desk'[d] = IF d = c THEN request ELSE desk[d]
  BY TakesTypes DEF Asks
<1>2. request.kind \in {"triage", "close", "escalate", "link"}
  BY DEF FindingRequests
<1>3. CalendarInv'
  BY <1>1, <1>2, CalendarUntouched DEF Asks
<1>4. UNCHANGED <<findings, check, cases, created, links>>
  BY DEF Asks
<1>5. FindingsKnown'
  BY <1>1, <1>4 DEF FindingsKnown
<1>6. OneCasePerFinding'
  BY <1>4 DEF OneCasePerFinding
<1>7. EscalationsKnown'
  <2>1. ASSUME NEW k \in Cases, request.kind = "escalate", <<k, request.finding>> \in created
        PROVE  FALSE
    BY <2>1 DEF EscalationsKnown, Linked
  <2> QED
    BY <1>1, <1>4, <2>1 DEF EscalationsKnown
<1> QED
  BY <1>3, <1>5, <1>6, <1>7

\* An analyst ends: the desk is free, no finding comes or goes, and the cases stay.
LEMMA AnswerKeepsInv ==
  ASSUME TypeOK, CalendarInv, FindingInv,
         NEW c \in Clerks, Answered(c), cases \subseteq cases',
         \A f \in Breaches : findings[f] # "none" => findings'[f] # "none",
         \A f \in Breaches : findings'[f] = "none" \/ findings[f] # "none"
  PROVE  CalendarInv' /\ FindingsKnown'
<1> USE DEF FindingInv
<1>1. \A d \in Clerks : desk'[d] = IF d = c THEN Idle ELSE desk[d]
  BY DoneTypes DEF Answered
<1>2. CalendarInv'
  BY <1>1, CalendarUntouched DEF Answered, Idle
<1>3. FindingsKnown'
  <2>1. \A d \in Clerks : desk[d].kind \in {"triage", "close", "escalate"} =>
          desk[d].finding \in Breaches
    BY RequestTypes
  <2>2. check' = check /\ DOMAIN check \subseteq Breaches
    BY DEF Answered, TypeOK
  <2> QED
    BY <1>1, <2>1, <2>2 DEF FindingsKnown, Idle
<1> QED
  BY <1>2, <1>3

LEMMA AnalystsKeepInv ==
  ASSUME TypeOK, CalendarInv, FindingInv, Analysts
  PROVE  CalendarInv' /\ FindingInv'
<1> DEFINE Goal == CalendarInv' /\ FindingInv'
<1> USE DEF FindingInv
<1>0. findings \in [Breaches -> FindingStatuses]
  BY DEF TypeOK
<1>1. ASSUME NEW c \in Clerks, NEW f \in Breaches, Close(c, f) PROVE Goal
  <2>1. [kind |-> "close", finding |-> f, seen |-> findings[f]] \in FindingRequests
    BY <1>0 DEF FindingRequests
  <2> QED
    BY <1>1, <2>1, AskKeepsInv DEF Close
<1>7. ASSUME NEW c \in Clerks, NEW f \in Breaches, NEW status \in FindingStatuses \ {"none"},
             Triage(c, f, status)
      PROVE  Goal
  <2>1. [kind |-> "triage", finding |-> f, seen |-> findings[f], new |-> status]
          \in FindingRequests
    BY <1>0 DEF FindingRequests
  <2> QED
    BY <1>7, <2>1, AskKeepsInv DEF Triage
<1>2. ASSUME NEW c \in Clerks, NEW f \in Breaches, NEW k \in Cases, Escalate(c, f, k) PROVE Goal
  <2> DEFINE request == [kind |-> "escalate", finding |-> f, seen |-> findings[f], case |-> k]
  <2>1. request \in FindingRequests
    BY <1>0 DEF FindingRequests
  <2>2. Asks(c, request) /\ findings[f] # "none" /\ Linked(f) = {} /\ overlapped \subseteq overlapped'
    BY <1>2 DEF Escalate
  <2>3. \A d \in Clerks : desk[d].kind = "escalate" /\ desk[d].finding = f => f \in overlapped'
    BY <1>2 DEF Escalate
  <2>4. request.finding = f /\ request.kind = "escalate"
    OBVIOUS
  <2> HIDE DEF request
  <2> QED
    BY <2>1, <2>2, <2>3, <2>4, AskKeepsInv
<1>3. ASSUME NEW c \in Clerks, NEW k \in Cases, NEW fs \in SUBSET Breaches, Link(c, k, fs) PROVE Goal
  <2> DEFINE request == [kind |-> "link", case |-> k, add |-> {f \in fs : k \notin Linked(f)}]
  <2>1. request \in FindingRequests
    BY DEF FindingRequests
  <2>2. Asks(c, request) /\ k \in cases /\ overlapped \subseteq overlapped'
    BY <1>3 DEF Link
  <2>3. request.kind = "link" /\ request.case = k
    OBVIOUS
  <2> HIDE DEF request
  <2> QED
    BY <2>1, <2>2, <2>3, AskKeepsInv
<1>4. ASSUME NEW c \in Clerks, TriageEnds(c) \/ CloseEnds(c) PROVE Goal
  <2>1. desk[c].finding \in Breaches /\ findings[desk[c].finding] # "none"
    BY <1>4, RequestTypes DEF TriageEnds, CloseEnds, FindingsKnown
  <2>6. desk[c].kind = "triage" => desk[c].new # "none"
    BY RequestTypes
  <2>2. /\ UNCHANGED <<cases, created, links, overlapped>> /\ Answered(c)
        /\ findings' = [findings EXCEPT ![desk[c].finding] = findings'[desk[c].finding]]
        /\ findings'[desk[c].finding] # "none"
    BY <1>0, <1>4, <2>1, <2>6 DEF TriageEnds, CloseEnds, Answered, Decided
  <2>3. CalendarInv' /\ FindingsKnown'
    BY <1>0, <2>1, <2>2, AnswerKeepsInv
  <2>4. \A d \in Clerks : desk'[d] = IF d = c THEN Idle ELSE desk[d]
    BY <2>2, DoneTypes DEF Answered
  <2>5. EscalationsKnown' /\ OneCasePerFinding'
    BY <2>2, <2>4 DEF EscalationsKnown, OneCasePerFinding, Idle
  <2> QED
    BY <2>3, <2>5
<1>5. ASSUME NEW c \in Clerks, LinkEnds(c) PROVE Goal
  <2>1. /\ UNCHANGED <<findings, cases, created, overlapped>> /\ Answered(c)
        /\ links \subseteq links'
    BY <1>5 DEF LinkEnds, Answered
  <2>2. CalendarInv' /\ FindingsKnown'
    BY <2>1, AnswerKeepsInv
  <2>3. \A d \in Clerks : desk'[d] = IF d = c THEN Idle ELSE desk[d]
    BY <2>1, DoneTypes DEF Answered
  <2>4. EscalationsKnown' /\ OneCasePerFinding'
    BY <2>1, <2>3 DEF EscalationsKnown, OneCasePerFinding, Idle
  <2> QED
    BY <2>2, <2>4
<1>6. ASSUME NEW c \in Clerks, EscalateEnds(c) PROVE Goal
  <2> DEFINE f == desk[c].finding
             k == desk[c].case
  <2>1. f \in Breaches /\ k \in Cases /\ findings[f] # "none" /\ desk[c].kind = "escalate"
    BY <1>6, RequestTypes DEF EscalateEnds, FindingsKnown
  <2>2. /\ Answered(c) /\ UNCHANGED overlapped
        /\ cases \subseteq cases' /\ links' = links \cup {<<k, f>>}
        /\ created' = created \/ created' = created \cup {<<k, f>>}
        /\ findings' = [findings EXCEPT ![f] = findings'[f]]
        /\ findings'[f] \in {"escalated", findings[f]}
    BY <1>0, <1>6, <2>1 DEF EscalateEnds, Answered, Decided
  <2>3. \A d \in Clerks : desk'[d] = IF d = c THEN Idle ELSE desk[d]
    BY <2>2, DoneTypes DEF Answered
  <2>4. \A d \in Clerks : d # c /\ desk[d].kind = "escalate" /\ desk[d].finding = f => f \in overlapped
    BY <2>1 DEF EscalationsKnown
  <2>5. \A l \in Cases : <<l, f>> \in created => f \in overlapped
    BY <2>1 DEF EscalationsKnown
  <2> HIDE DEF f, k
  <2>6. CalendarInv' /\ FindingsKnown'
    BY <1>0, <2>1, <2>2, AnswerKeepsInv
  <2>7. \A g, l : <<l, g>> \in created' => <<l, g>> \in created \/ (g = f /\ l = k)
    BY <2>2
  <2>8. EscalationsKnown'
    <3>1. created' \subseteq links'
      BY <2>2 DEF EscalationsKnown
    <3> QED
      BY <2>2, <2>3, <2>4, <2>7, <3>1 DEF EscalationsKnown, Idle
  <2>9. OneCasePerFinding'
    BY <2>2, <2>5, <2>7 DEF OneCasePerFinding
  <2> QED
    BY <2>6, <2>8, <2>9
<1> QED
  BY <1>1, <1>2, <1>3, <1>4, <1>5, <1>6, <1>7 DEF Analysts

-----------------------------------------------------------------------------
(* The theorems *)

LEMMA InitIInv == Init => IInv
<1> SUFFICES ASSUME Init PROVE IInv
  OBVIOUS
<1>1. TypeOK
  BY InitTypes
<1> USE DEF Init, CalendarInit
<1>2. CalendarInv
  BY DEF CalendarInv, LoadedExists, RestExists, VerdictsKnown, RemindersPast, SeedCovers,
         CompletedIsKept, Exists, Idle
<1>3. FindingInv
  BY DEF FindingInv, FindingsKnown, EscalationsKnown, OneCasePerFinding, Idle
<1> QED
  BY <1>1, <1>2, <1>3 DEF IInv

LEMMA NextIInv == IInv /\ [Next]_vars => IInv'
<1> SUFFICES ASSUME IInv, [Next]_vars PROVE IInv'
  OBVIOUS
<1> USE DEF IInv
<1>1. CASE CalendarNext /\ UNCHANGED findingVars
  BY <1>1, CalendarTypes, CalendarInvStays, CalendarKeepsFindings DEF CalendarInv
<1>2. CASE CheckStarts \/ CheckEnds \/ CheckLost
  BY <1>2, CheckTypes, CheckKeepsInv
<1>3. CASE Analysts
  BY <1>3, AnalystTypes, AnalystsKeepInv DEF FindingInv
<1>4. CASE UNCHANGED vars
  <2>1. TypeOK'
    BY <1>4 DEF vars, calendarVars, findingVars, TypeOK, CalendarTypeOK, DeskTypeOK
  <2>2. CalendarInv'
    BY <1>4, CalendarUntouched DEF vars, calendarVars
  <2>3. FindingInv'
    BY <1>4, FindingsUntouched DEF vars, calendarVars
  <2> QED
    BY <2>1, <2>2, <2>3
<1> QED
  BY <1>1, <1>2, <1>3, <1>4 DEF Next

LEMMA Inductive == Spec => []IInv
BY InitIInv, NextIInv, PTL DEF Spec

\* Every variable of the calendar, the findings and the requests keeps its type.
THEOREM TypeCorrect == Spec => []TypeOK
<1>1. IInv => TypeOK
  BY DEF IInv
<1> QED
  BY <1>1, Inductive, PTL

\* A seed that was answered with success left every event it was asked for, whatever ran
\* and failed next to it (services/compliance_calendar.py, api/compliance_calendar.py).
THEOREM SeedingIsComplete == Spec => []SeedCovers
<1>1. IInv => SeedCovers
  BY DEF IInv, CalendarInv
<1> QED
  BY <1>1, Inductive, PTL

\* The overdue sweep undoes no completion but one of an event it had loaded before
\* (check_overdue_events).
THEOREM CompletionsStay == Spec => []CompletedIsKept
<1>1. IInv => CompletedIsKept
  BY DEF IInv, CalendarInv
<1> QED
  BY <1>1, Inductive, PTL

\* No step counts a reminder of an event that has been reminded of that day, whatever fails,
\* is delivered again or crosses midnight (get_events_requiring_reminders).
THEOREM OneReminderADay == Spec => RemindedOncePerDay
<1> DEFINE Once == \A f \in Fingerprints :
                     Exists(f) /\ events'[f].reminders # events[f].reminders =>
                       /\ events[f].last # today /\ events'[f].last = today
                       /\ events'[f].reminders = events[f].reminders + 1
<1>1. ASSUME IInv, [Next]_vars PROVE Once
  <2>1. CASE CalendarNext
    BY <1>1, <2>1, CountingSteps DEF IInv, CalendarInv
  <2>2. CASE events' = events
    BY <2>2
  <2> QED
    BY <1>1, <2>1, <2>2, FindingsLeaveEvents
<1>2. UNCHANGED vars => UNCHANGED calendarVars
  BY DEF vars
<1>3. Spec => [][Once]_vars
  BY <1>1, Inductive, PTL DEF Spec
<1>4. Spec => [][Once]_calendarVars
  BY <1>1, <1>2, Inductive, PTL DEF Spec
<1> QED
  BY <1>4 DEF RemindedOncePerDay

\* Escalations create two cases of a finding only where two of them were under way at once
\* (escalate_finding_to_case).
THEOREM OneCase == Spec => []OneCasePerFinding
<1>1. IInv => OneCasePerFinding
  BY DEF IInv, FindingInv
<1> QED
  BY <1>1, Inductive, PTL

\* The daily check takes an escalation back only where it had found the finding closed
\* (create_or_update_finding).
THEOREM EscalationsKept == Spec => CheckKeepsEscalation
<1> DEFINE Kept == CheckEnds =>
                     \A f \in Breaches : findings[f] = "escalated" /\ findings'[f] # "escalated" =>
                       check[f] = "closed"
<1>1. ASSUME IInv, [Next]_vars PROVE Kept
  <2> SUFFICES ASSUME CheckEnds, NEW f \in Breaches,
                      findings[f] = "escalated", findings'[f] # "escalated"
               PROVE  check[f] = "closed"
    OBVIOUS
  <2>1. f \in DOMAIN check /\ check[f] \in {"none", "closed"}
    BY DEF CheckEnds, Raised
  <2> QED
    BY <1>1, <2>1 DEF IInv, FindingInv, FindingsKnown
<1>2. Spec => [][Kept]_vars
  BY <1>1, Inductive, PTL DEF Spec
<1> QED
  BY <1>2 DEF CheckKeepsEscalation
=============================================================================
