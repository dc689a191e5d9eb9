---------------------------- MODULE MakerChecker ----------------------------
(***************************************************************************)
(* What the decision workflow promises to a compliance officer, with no    *)
(* rows, requests or sessions: a decision is drafted by its maker,         *)
(* submitted, and then signed or rejected once, for good; a signature is   *)
(* never the maker's own, and exactly one is kept.                         *)
(***************************************************************************)
CONSTANTS Ids, Users, None

VARIABLES phase, maker, checker, signed

vars == <<phase, maker, checker, signed>>

Init ==
  /\ phase = [i \in Ids |-> "none"]
  /\ maker = [i \in Ids |-> None]
  /\ checker = [i \in Ids |-> None]
  /\ signed = [i \in Ids |-> {}]

Draft(i, u) ==
  /\ phase[i] = "none"
  /\ phase' = [phase EXCEPT ![i] = "draft"]
  /\ maker' = [maker EXCEPT ![i] = u]
  /\ UNCHANGED <<checker, signed>>

Submit(i) ==
  /\ phase[i] = "draft"
  /\ phase' = [phase EXCEPT ![i] = "submitted"]
  /\ UNCHANGED <<maker, checker, signed>>

Sign(i, u) ==
  /\ phase[i] = "submitted"
  /\ u # maker[i]
  /\ phase' = [phase EXCEPT ![i] = "approved"]
  /\ checker' = [checker EXCEPT ![i] = u]
  /\ signed' = [signed EXCEPT ![i] = {u}]
  /\ UNCHANGED maker

Reject(i, u) ==
  /\ phase[i] = "submitted"
  /\ phase' = [phase EXCEPT ![i] = "rejected"]
  /\ checker' = [checker EXCEPT ![i] = u]
  /\ UNCHANGED <<maker, signed>>

Next ==
  \E i \in Ids : Submit(i) \/ \E u \in Users : Draft(i, u) \/ Sign(i, u) \/ Reject(i, u)

Spec == Init /\ [][Next]_vars
=============================================================================
