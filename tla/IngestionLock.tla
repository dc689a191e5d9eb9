---------------------------- MODULE IngestionLock ----------------------------
(***************************************************************************)
(* The lock of manual ingestion runs: a Redis key with a time to live that *)
(* POST /api/ingestion/run sets before it queues the task and the task     *)
(* deletes when it ends (worker.py, api/ingestion.py).  The task never     *)
(* looks at the key: it runs whenever the broker delivers it, also a       *)
(* second time (task_acks_late, task_reject_on_worker_lost).               *)
(***************************************************************************)
EXTENDS Naturals, FiniteSets

CONSTANTS
  Tokens,    \* owner tokens, one per request that is under way
  None,      \* the key is absent
  TTL,       \* INGESTION_MANUAL_LOCK_TTL_SECONDS, in ticks
  TimeLimit  \* time_limit of the task, in ticks

ASSUME LockAssumption ==
  /\ None \notin Tokens
  /\ TTL \in Nat \ {0}
  /\ TimeLimit \in Nat \ {0}

VARIABLES
  lock,      \* the value of the key
  phase,     \* per token: where its request or task is
  held,      \* per token: ticks since it set the key, saturating at TTL
  ran,       \* per token: ticks since its task was started last
  returning  \* per token: has a delivery of its task ended without an acknowledgement?

lockVars == <<lock, phase, held, ran, returning>>

\* "acquired": the request holds the lock, the task is not queued yet; "released": the task
\* has run its finally clause and is not acknowledged yet.
Phases == {"idle", "acquired", "queued", "running", "released"}

LockTypeOK ==
  /\ lock \in Tokens \cup {None}
  /\ phase \in [Tokens -> Phases]
  /\ held \in [Tokens -> 0..TTL]
  /\ ran \in [Tokens -> 0..TimeLimit]
  /\ returning \in [Tokens -> BOOLEAN]

LockInit ==
  /\ lock = None
  /\ phase = [t \in Tokens |-> "idle"]
  /\ held = [t \in Tokens |-> TTL]
  /\ ran = [t \in Tokens |-> 0]
  /\ returning = [t \in Tokens |-> FALSE]
-----------------------------------------------------------------------------
Move(t, from, to) ==
  /\ phase[t] = from
  /\ phase' = [phase EXCEPT ![t] = to]

FreeMutant == TRUE

\* SET NX: the key is set only if it is absent; otherwise the request is answered 409.
Free == lock = None

Acquire(t) ==
  /\ Free
  /\ Move(t, "idle", "acquired")
  /\ lock' = t
  /\ held' = [held EXCEPT ![t] = 0]
  /\ returning' = [returning EXCEPT ![t] = FALSE]
  /\ UNCHANGED ran

UnlockedMutant(t) == None
\* _LOCK_RELEASE_LUA: compare and delete.
Unlocked(t) == IF lock = t THEN None ELSE lock

\* release_manual_ingestion_lock swallows the errors of Redis: the key may stay.
Release(t) == lock' = Unlocked(t) \/ UNCHANGED lock

Enqueue(t) ==
  /\ Move(t, "acquired", "queued")
  /\ UNCHANGED <<lock, held, ran, returning>>

EnqueueFails(t) ==
  /\ Move(t, "acquired", "idle")
  /\ Release(t)
  /\ UNCHANGED <<held, ran, returning>>

\* The API process dies between the two: nobody will release the lock.
RequestLost(t) ==
  /\ Move(t, "acquired", "idle")
  /\ UNCHANGED <<lock, held, ran, returning>>

Start(t) ==
  /\ Move(t, "queued", "running")
  /\ ran' = [ran EXCEPT ![t] = 0]
  /\ UNCHANGED <<lock, held, returning>>

\* The ingestion returns or raises; the finally clause releases.
Finish(t) ==
  /\ Move(t, "running", "released")
  /\ Release(t)
  /\ UNCHANGED <<held, ran, returning>>

Acknowledge(t) ==
  /\ Move(t, "released", "idle")
  /\ UNCHANGED <<lock, held, ran, returning>>

\* The hard time limit kills the process and acknowledges the task: no finally clause.
Killed(t) ==
  /\ Move(t, "running", "idle")
  /\ UNCHANGED <<lock, held, ran, returning>>

\* The worker is lost before it acknowledged: the broker delivers the task again.
WorkerLost(t) ==
  /\ Move(t, "running", "queued") \/ Move(t, "released", "queued")
  /\ returning' = [returning EXCEPT ![t] = @ \/ phase[t] = "released"]
  /\ UNCHANGED <<lock, held, ran>>

ExpiresMutant(t) == FALSE

\* EX: Redis deletes the key when its time to live is over.
Expires(t) == held[t] + 1 >= TTL

Tick ==
  /\ \A t \in Tokens : phase[t] = "running" => ran[t] < TimeLimit
  /\ held' = [t \in Tokens |-> IF held[t] < TTL THEN held[t] + 1 ELSE TTL]
  /\ ran' = [t \in Tokens |-> IF phase[t] = "running" THEN ran[t] + 1 ELSE ran[t]]
  /\ lock' = IF lock # None /\ Expires(lock) THEN None ELSE lock
  /\ UNCHANGED <<phase, returning>>

LockNext ==
  \/ \E t \in Tokens :
       \/ Acquire(t) \/ Enqueue(t) \/ EnqueueFails(t) \/ RequestLost(t)
       \/ Start(t) \/ Finish(t) \/ Acknowledge(t) \/ Killed(t) \/ WorkerLost(t)
  \/ Tick

LockSpec == LockInit /\ [][LockNext]_lockVars

\* Time passes; a task that has used up its time limit is killed if it does not end.
FairLockSpec == LockSpec /\ WF_lockVars(Tick) /\ \A t \in Tokens : WF_lockVars(Killed(t))
-----------------------------------------------------------------------------
(* Properties.                                                             *)

\* A manual run works under its own lock, unless the time to live has passed since the
\* request took it (a long queue, redeliveries), or an earlier delivery of the same task
\* already ended and released it.
RunsUnderLock ==
  \A t \in Tokens :
    phase[t] = "running" => \/ lock = t
                            \/ held[t] = TTL
                            \/ returning[t]

\* Two runs overlap only if one of them is late or redelivered in that way.
OverlapExplained ==
  \A s, t \in Tokens :
    s # t /\ phase[s] = "running" /\ phase[t] = "running" =>
      \E u \in {s, t} : held[u] = TTL \/ returning[u]

\* A late run that ends, and a request that gives up, never delete the lock of somebody
\* else: a key that still has time to live disappears only by an action of its owner.
NoForeignRelease ==
  [][lock # None /\ lock' # lock => phase'[lock] # phase[lock] \/ held'[lock] = TTL]_lockVars

\* Whatever dies or fails to release, the lock becomes free again.
LockFreed == \A t \in Tokens : lock = t ~> lock # t
=============================================================================
