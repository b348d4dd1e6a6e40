--------------------------- MODULE CircuitBreaker ---------------------------
(***************************************************************************)
(* The circuit breaker in front of a service endpoint                      *)
(* (lionagi/service/resilience.py, CircuitBreaker).                        *)
(*                                                                         *)
(* Callers share one breaker on an event loop.  execute() asks             *)
(* _check_state() under the lock, awaits the call without it and reports   *)
(* under it again, so calls admitted in one state report in another: those *)
(* of a closed circuit in an open or half-open one, probes of one half-    *)
(* open episode in the next.                                               *)
(***************************************************************************)
EXTENDS Integers, FiniteSets

CONSTANTS
  Callers,       \* tasks that call execute(), one call each at a time
  Threshold,     \* failure_threshold
  RecoveryTime,  \* recovery_time
  HalfOpenCalls, \* half_open_max_calls
  MaxCount       \* bound on the failures counted

ASSUME ParameterAssumption ==
  /\ IsFiniteSet(Callers)
  /\ {Threshold, HalfOpenCalls} \subseteq Nat \ {0}
  /\ RecoveryTime \in Nat
  /\ MaxCount \in Nat /\ MaxCount >= Threshold

VARIABLES
  state,    \* closed, open or half_open
  failures, \* failure_count
  since,    \* now - last_failure_time, exact up to RecoveryTime
  probes,   \* _half_open_calls
  pc,       \* idle or calling
  probing,  \* history: the callers admitted in this half-open episode
  unheard   \* history: a probe of this episode ended without a verdict

vars == <<state, failures, since, probes, pc, probing, unheard>>

Init ==
  /\ state = "closed"
  /\ failures = 0
  /\ since = RecoveryTime
  /\ probes = 0
  /\ pc = [c \in Callers |-> "idle"]
  /\ probing = {}
  /\ unheard = FALSE

-----------------------------------------------------------------------------
Recovered == since >= RecoveryTime

\* Broken variant: the permits of the last episode are not given back.
Permits_Kept == probes
\* The half-open permits used when a call comes: a new episode starts afresh.
Permits == IF state = "open" THEN 0 ELSE probes

Halfway == state = "half_open" \/ (state = "open" /\ Recovered)

\* A call in a closed circuit.
Admit(c) ==
  /\ pc[c] = "idle"
  /\ state = "closed"
  /\ pc' = [pc EXCEPT ![c] = "calling"]
  /\ UNCHANGED <<state, failures, since, probes, probing, unheard>>

\* Broken variant: a half-open circuit lets every call through.
Probe_Unlimited(c) ==
  /\ pc[c] = "idle"
  /\ Halfway
  /\ state' = "half_open"
  /\ probes' = Permits + 1
  /\ pc' = [pc EXCEPT ![c] = "calling"]
  /\ probing' = IF state = "open" THEN {c} ELSE probing \cup {c}
  /\ unheard' = (state = "half_open" /\ unheard)
  /\ UNCHANGED <<failures, since>>

(* The first call after the recovery time opens a half-open episode, and   *)
(* HalfOpenCalls of them are let through in it.                            *)
Probe(c) ==
  /\ pc[c] = "idle"
  /\ Halfway
  /\ Permits < HalfOpenCalls
  /\ state' = "half_open"
  /\ probes' = Permits + 1
  /\ pc' = [pc EXCEPT ![c] = "calling"]
  /\ probing' = IF state = "open" THEN {c} ELSE probing \cup {c}
  /\ unheard' = (state = "half_open" /\ unheard)
  /\ UNCHANGED <<failures, since>>

\* CircuitBreakerOpenError: nothing changes but the metrics.
Reject(c) ==
  /\ pc[c] = "idle"
  /\ state # "closed"
  /\ Halfway => Permits >= HalfOpenCalls
  /\ UNCHANGED vars

Return(c) ==
  /\ pc[c] = "calling"
  /\ pc' = [pc EXCEPT ![c] = "idle"]
  /\ probing' = probing \ {c}

\* Broken variant: a success is counted, but does not close the circuit.
Succeed_StaysHalfOpen(c) ==
  /\ Return(c)
  /\ UNCHANGED <<state, failures, since, probes, unheard>>

\* The call succeeds: whoever made it, a half-open circuit closes.
Succeed(c) ==
  /\ Return(c)
  /\ state' = IF state = "half_open" THEN "closed" ELSE state
  /\ failures' = IF state = "half_open" THEN 0 ELSE failures
  /\ UNCHANGED <<since, probes, unheard>>

\* Broken variant: off by one.
Trips_OffByOne == state = "half_open" \/ (state = "closed" /\ failures' > Threshold)
\* Whether this failure opens the circuit.
Trips == state = "half_open" \/ (state = "closed" /\ failures' >= Threshold)

\* The call raises: it is counted in every state, and postpones recovery.
Fail(c) ==
  /\ Return(c)
  /\ failures < MaxCount
  /\ failures' = failures + 1
  /\ since' = 0
  /\ state' = IF Trips THEN "open" ELSE state
  /\ UNCHANGED <<probes, unheard>>

(* An excluded exception, or a cancellation, which is no Exception: the    *)
(* circuit hears nothing, and a probe's permit is not returned.            *)
Vanish(c) ==
  /\ Return(c)
  /\ unheard' = (unheard \/ c \in probing)
  /\ UNCHANGED <<state, failures, since, probes>>

Tick ==
  /\ since < RecoveryTime
  /\ since' = since + 1
  /\ UNCHANGED <<state, failures, probes, pc, probing, unheard>>

Call(c) == Admit(c) \/ Probe(c) \/ Reject(c)
Ends(c) == Succeed(c) \/ Fail(c) \/ Vanish(c)

Next ==
  \/ \E c \in Callers : Call(c) \/ Ends(c)
  \/ Tick

Spec == Init /\ [][Next]_vars

(* Time passes, every call ends, and callers keep calling.                 *)
Fairness ==
  /\ WF_vars(Tick)
  /\ \A c \in Callers : WF_vars(Ends(c)) /\ WF_vars(Admit(c) \/ Probe(c))

FairSpec == Spec /\ Fairness

-----------------------------------------------------------------------------
TypeOK ==
  /\ state \in {"closed", "open", "half_open"}
  /\ failures \in 0..MaxCount
  /\ since \in 0..RecoveryTime
  /\ probes \in 0..HalfOpenCalls
  /\ pc \in [Callers -> {"idle", "calling"}]
  /\ probing \subseteq {c \in Callers : pc[c] = "calling"}
  /\ unheard \in BOOLEAN

(* A closed circuit is below its threshold whatever reports came in while  *)
(* it was open or half-open, so it never trips late, and it never carries  *)
(* failures of a former outage along.                                      *)
ClosedIsBelowThreshold == state = "closed" => failures < Threshold

(* A half-open circuit is never left alone: of the probes it admitted one  *)
(* is still to report, unless one ended without a verdict, whose permit is *)
(* lost.  And it never has more of its own probes out than permitted.      *)
HalfOpenAwaitsVerdict ==
  state = "half_open" =>
    /\ Cardinality(probing) \in 0..HalfOpenCalls
    /\ probing # {} \/ unheard

(* An open circuit does not stay open for ever while calls keep coming,    *)
(* however long the calls of before the outage keep failing into it and    *)
(* however often callers are turned away meanwhile.                        *)
OpenEnds == state = "open" ~> state # "open"

(* A half-open circuit gets its verdict, unless a probe vanished.          *)
HalfOpenEnds == state = "half_open" ~> (state # "half_open" \/ unheard)
=============================================================================
