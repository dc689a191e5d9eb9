----------------------------- MODULE RetryQueue -----------------------------
(***************************************************************************)
(* What the dead letter queue promises about an item, with no rows, no     *)
(* batches and no workers: it is pending until an attempt on it begins, an *)
(* attempt is concluded at most once, at most MaxRetries are begun until   *)
(* an administrator puts the item back, and a resolved item can only be    *)
(* deleted.  An attempt whose worker is lost is never concluded: the item  *)
(* stays as it is until it is deleted.  Nothing is promised of an item     *)
(* that two tasks took at once (contended) until it is put back.           *)
(***************************************************************************)
EXTENDS Naturals

CONSTANTS Ids, MaxRetries

VARIABLES
  status,  \* per item, "none" before it is created
  tries    \* per item, the attempts begun since it was created or put back

vars == <<status, tries>>

Init ==
  /\ status = [i \in Ids |-> "none"]
  /\ tries = [i \in Ids |-> 0]

Add(i) ==
  /\ status[i] = "none"
  /\ status' = [status EXCEPT ![i] = "pending"]
  /\ UNCHANGED tries

Attempt(i) ==
  /\ status[i] = "pending"
  /\ tries[i] < MaxRetries
  /\ status' = [status EXCEPT ![i] = "retrying"]
  /\ tries' = [tries EXCEPT ![i] = @ + 1]

Conclude(i, verdict) ==
  /\ status[i] = "retrying"
  /\ status' = [status EXCEPT ![i] = verdict]
  /\ UNCHANGED tries

\* A second task takes items that wait in the batch of a first.
Contend(taken) ==
  /\ \A i \in taken : status[i] = "pending"
  /\ status' = [i \in Ids |-> IF i \in taken THEN "contended" ELSE status[i]]
  /\ tries' = [i \in Ids |-> IF i \in taken THEN 0 ELSE tries[i]]

PutBack(i) ==
  /\ status[i] \in {"pending", "exhausted", "contended"}
  /\ status' = [status EXCEPT ![i] = "pending"]
  /\ tries' = [tries EXCEPT ![i] = 0]

Delete(i) ==
  /\ status[i] \notin {"none", "deleted"}
  /\ status' = [status EXCEPT ![i] = "deleted"]
  /\ UNCHANGED tries

Next ==
  \/ \E taken \in SUBSET Ids : Contend(taken)
  \/ \E i \in Ids :
       \/ Add(i) \/ Attempt(i) \/ PutBack(i) \/ Delete(i)
       \/ \E verdict \in {"pending", "resolved", "exhausted"} : Conclude(i, verdict)

Spec == Init /\ [][Next]_vars
=============================================================================
