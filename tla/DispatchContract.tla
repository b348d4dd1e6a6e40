-------------------------- MODULE DispatchContract --------------------------
(***************************************************************************)
(* What the dispatch outbox promises a producer, without scans, claims,    *)
(* leases or clocks (lionagi/dispatch/outbox.py, module docstring).        *)
(*                                                                         *)
(* A row is open until it is settled.  It is settled as delivered only if  *)
(* some transport command for it exited zero and it needs no               *)
(* acknowledgement, as acked only if it needs one; otherwise it fails.     *)
(* What is delivered or acked is never reopened, and a failed row is       *)
(* reopened only by an operator.                                           *)
(***************************************************************************)
CONSTANT Rows

VARIABLES
  phase,    \* where each row stands
  needsAck, \* whether a row asks for an acknowledgement
  exited0   \* rows for which some transport command exited zero

vars == <<phase, needsAck, exited0>>

Settled == {"delivered", "acked", "failed"}
Phases == {"absent", "open", "purged"} \cup Settled

TypeOK == phase \in [Rows -> Phases] /\ needsAck \in [Rows -> BOOLEAN] /\ exited0 \subseteq Rows

Init ==
  /\ phase = [r \in Rows |-> "absent"]
  /\ needsAck \in [Rows -> BOOLEAN]
  /\ exited0 = {}

Goes(r, from, to) ==
  /\ phase[r] = from
  /\ phase' = [phase EXCEPT ![r] = to]

Accept(r, ack) ==
  /\ Goes(r, "absent", "open")
  /\ needsAck' = [needsAck EXCEPT ![r] = ack]
  /\ UNCHANGED exited0

Settle(r, to) == Goes(r, "open", to) /\ UNCHANGED <<needsAck, exited0>>

\* A send may outlive the row it was launched for.
TransportSucceeds(r) ==
  /\ phase[r] # "absent"
  /\ exited0' = exited0 \cup {r}
  /\ UNCHANGED <<phase, needsAck>>

Deliver(r) == r \in exited0 /\ ~needsAck[r] /\ Settle(r, "delivered")
Acknowledge(r) == needsAck[r] /\ Settle(r, "acked")
GiveUp(r) == Settle(r, "failed")
Reopen(r) == Goes(r, "failed", "open") /\ UNCHANGED <<needsAck, exited0>>

Purge(S) ==
  /\ \A r \in S : phase[r] \in {"open"} \cup Settled
  /\ phase' = [r \in Rows |-> IF r \in S THEN "purged" ELSE phase[r]]
  /\ UNCHANGED <<needsAck, exited0>>

Next ==
  \/ \E r \in Rows, ack \in BOOLEAN : Accept(r, ack)
  \/ \E r \in Rows : \/ TransportSucceeds(r) \/ Deliver(r)
                     \/ Acknowledge(r) \/ GiveUp(r) \/ Reopen(r)
  \/ \E S \in SUBSET Rows : Purge(S)

Spec == Init /\ [][Next]_vars
=============================================================================
