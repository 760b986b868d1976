----------------------------- MODULE AuditTrail -----------------------------
(***************************************************************************)
(* What the receipt emitter promises, without its queue, its session and   *)
(* its promises: a trail to which answered requests are appended, each at  *)
(* most once, until it is sealed; nothing in it ever moves or disappears;  *)
(* every request that is opened is answered, by an entry or by a refusal.  *)
(***************************************************************************)
EXTENDS Integers, Sequences

CONSTANT Requests

VARIABLES
  trail,   \* the requests recorded, in order
  answer,  \* "none", "open", "recorded" or "refused", for every request
  sealed   \* nothing is recorded any more

trailVars == <<trail, answer, sealed>>

TrailInit ==
  /\ trail = <<>>
  /\ answer = [q \in Requests |-> "none"]
  /\ sealed = FALSE

Open(q) ==
  /\ answer[q] = "none"
  /\ answer' = [answer EXCEPT ![q] = "open"]
  /\ UNCHANGED <<trail, sealed>>

Record(q) ==
  /\ answer[q] = "open"
  /\ ~sealed
  /\ trail' = Append(trail, q)
  /\ answer' = [answer EXCEPT ![q] = "recorded"]
  /\ UNCHANGED sealed

\* One cause may refuse several requests at once.
Refuse(Q) ==
  /\ Q # {}
  /\ answer' = [q \in Requests |-> IF q \in Q THEN "refused" ELSE answer[q]]
  /\ UNCHANGED <<trail, sealed>>

Seal == ~sealed /\ sealed' = TRUE /\ UNCHANGED <<trail, answer>>

TrailNext ==
  \/ \E q \in Requests : Open(q) \/ Record(q)
  \/ \E Q \in SUBSET {q \in Requests : answer[q] = "open"} : Refuse(Q)
  \/ Seal

TrailSpec == TrailInit /\ [][TrailNext]_trailVars

Answered(q) == answer[q] = "open" ~> answer[q] \in {"recorded", "refused"}

=============================================================================
