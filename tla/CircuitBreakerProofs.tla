------------------------- MODULE CircuitBreakerProofs -------------------------
(***************************************************************************)
(* Proofs about CircuitBreaker, for every number of callers, threshold,    *)
(* recovery time and number of half-open calls.                            *)
(***************************************************************************)
EXTENDS CircuitBreaker, FiniteSetTheorems, TLAPS

(* Only HalfOpenAwaitsVerdict is not inductive by itself: that the probes  *)
(* of an episode stay within HalfOpenCalls rests on each of them having    *)
(* taken a permit.                                                         *)
ProbesHavePermits == state = "half_open" => Cardinality(probing) <= probes

BreakerInv ==
  /\ TypeOK
  /\ ClosedIsBelowThreshold
  /\ ProbesHavePermits
  /\ state = "half_open" => (probing # {} \/ unheard)

-----------------------------------------------------------------------------
(* A fresh breaker satisfies it (__init__).                                *)
LEMMA InitInv == Init => BreakerInv
<1> SUFFICES ASSUME Init
             PROVE  BreakerInv
  OBVIOUS
<1>1. /\ Threshold \in Nat \ {0} /\ HalfOpenCalls \in Nat
      /\ RecoveryTime \in Nat /\ MaxCount \in Nat
  BY ParameterAssumption
<1>2. TypeOK
  <2>1. failures \in 0..MaxCount /\ since \in 0..RecoveryTime /\ probes \in 0..HalfOpenCalls
    BY <1>1 DEF Init
  <2>2. pc \in [Callers -> {"idle", "calling"}] /\ probing = {}
    BY DEF Init
  <2> QED
    BY <2>1, <2>2 DEF Init, TypeOK
<1>3. ClosedIsBelowThreshold
  BY <1>1 DEF Init, ClosedIsBelowThreshold
<1>4. state # "half_open"
  BY DEF Init
<1> QED
  BY <1>2, <1>3, <1>4 DEF BreakerInv, ProbesHavePermits

\* Callers are finitely many, so the probes among them can be counted.
LEMMA ProbingFinite ==
  ASSUME TypeOK
  PROVE  IsFiniteSet(probing) /\ Cardinality(probing) \in Nat
<1>1. probing \subseteq Callers
  BY DEF TypeOK
<1> QED
  BY <1>1, ParameterAssumption, FS_Subset, FS_CardinalityType

(* A call that returns leaves the probes of its episode: the history shrinks *)
(* by at most itself.                                                        *)
LEMMA ReturnFacts ==
  ASSUME TypeOK, NEW c \in Callers, Return(c)
  PROVE  /\ pc' \in [Callers -> {"idle", "calling"}]
         /\ probing' \subseteq {d \in Callers : pc'[d] = "calling"}
         /\ Cardinality(probing') <= Cardinality(probing)
         /\ Cardinality(probing') \in Nat
<1>1. probing' \subseteq probing
  BY DEF Return
<1>2. /\ Cardinality(probing') <= Cardinality(probing)
      /\ Cardinality(probing') \in Nat
  BY <1>1, ProbingFinite, FS_Subset, FS_CardinalityType
<1> QED
  BY <1>2 DEF Return, TypeOK

(* Every step of execute() keeps it: admission, probe and rejection by     *)
(* _check_state, and the three ways a call ends.                           *)
LEMMA StepInv == BreakerInv /\ [Next]_vars => BreakerInv'
<1> SUFFICES ASSUME BreakerInv, [Next]_vars
             PROVE  BreakerInv'
  OBVIOUS
<1> USE ParameterAssumption
<1>0. TypeOK
  BY DEF BreakerInv
<1>1. ASSUME NEW c \in Callers, Admit(c)
      PROVE  BreakerInv'
  BY <1>1 DEF BreakerInv, TypeOK, ClosedIsBelowThreshold, ProbesHavePermits, Admit
<1>2. ASSUME NEW c \in Callers, Probe(c)
      PROVE  BreakerInv'
  <2>1. Permits \in Nat /\ probes' = Permits + 1 /\ probes' \in 0..HalfOpenCalls
    BY <1>2, <1>0 DEF Probe, Permits, TypeOK
  <2>2. TypeOK'
    BY <1>2, <1>0, <2>1 DEF Probe, Halfway, TypeOK
  <2>3. ClosedIsBelowThreshold' /\ probing' # {}
    BY <1>2 DEF Probe, ClosedIsBelowThreshold
  <2>4. Cardinality(probing') <= probes'
    <3>1. CASE state = "open"
      <4>1. probing' = {c} /\ probes' = 1
        BY <1>2, <3>1, <2>1 DEF Probe, Permits
      <4> QED
        BY <4>1, FS_Singleton
    <3>2. CASE state # "open"
      <4>1. state = "half_open" /\ probing' = probing \cup {c} /\ probes' = probes + 1
        BY <1>2, <3>2, <2>1 DEF Probe, Halfway, Permits
      <4>2. Cardinality(probing) <= probes /\ probes \in Nat
        BY <4>1, <1>0 DEF BreakerInv, ProbesHavePermits, TypeOK
      <4>3. Cardinality(probing') \in {Cardinality(probing), Cardinality(probing) + 1}
        BY <4>1, <1>0, ProbingFinite, FS_AddElement
      <4> QED
        BY <4>1, <4>2, <4>3, <1>0, ProbingFinite
    <3> QED
      BY <3>1, <3>2
  <2> QED
    BY <2>2, <2>3, <2>4 DEF BreakerInv, ProbesHavePermits
<1>3. ASSUME NEW c \in Callers, Reject(c)
      PROVE  BreakerInv'
  BY <1>3 DEF Reject, vars, BreakerInv, TypeOK, ClosedIsBelowThreshold, ProbesHavePermits
<1>4. ASSUME NEW c \in Callers, Succeed(c)
      PROVE  BreakerInv'
  <2>1. Return(c) /\ state' # "half_open"
    BY <1>4, <1>0 DEF Succeed, TypeOK
  <2>2. TypeOK'
    BY <1>4, <1>0, <2>1, ReturnFacts DEF Succeed, TypeOK
  <2>3. ClosedIsBelowThreshold'
    BY <1>4, <1>0 DEF Succeed, BreakerInv, ClosedIsBelowThreshold, TypeOK
  <2> QED
    BY <2>1, <2>2, <2>3 DEF BreakerInv, ProbesHavePermits
<1>5. ASSUME NEW c \in Callers, Fail(c)
      PROVE  BreakerInv'
  <2>1. Return(c) /\ state' # "half_open"
    BY <1>5, <1>0 DEF Fail, Trips, TypeOK
  <2>2. TypeOK'
    BY <1>5, <1>0, <2>1, ReturnFacts DEF Fail, TypeOK
  <2>3. ClosedIsBelowThreshold'
    BY <1>5, <1>0 DEF Fail, Trips, BreakerInv, ClosedIsBelowThreshold, TypeOK
  <2> QED
    BY <2>1, <2>2, <2>3 DEF BreakerInv, ProbesHavePermits
<1>6. ASSUME NEW c \in Callers, Vanish(c)
      PROVE  BreakerInv'
  <2>1. Return(c)
    BY <1>6 DEF Vanish
  <2>2. TypeOK'
    BY <1>6, <1>0, <2>1, ReturnFacts DEF Vanish, TypeOK
  <2>3. ClosedIsBelowThreshold'
    BY <1>6 DEF Vanish, BreakerInv, ClosedIsBelowThreshold
  <2>4. ProbesHavePermits'
    BY <1>6, <1>0, <2>1, ReturnFacts, ProbingFinite
       DEF Vanish, BreakerInv, ProbesHavePermits, TypeOK
  <2>5. state' = "half_open" => (probing' # {} \/ unheard')
    BY <1>6, <2>1 DEF Vanish, Return, BreakerInv
  <2> QED
    BY <2>2, <2>3, <2>4, <2>5 DEF BreakerInv
<1>7. ASSUME Tick
      PROVE  BreakerInv'
  BY <1>7 DEF Tick, BreakerInv, TypeOK, ClosedIsBelowThreshold, ProbesHavePermits
<1>8. ASSUME UNCHANGED vars
      PROVE  BreakerInv'
  BY <1>8 DEF vars, BreakerInv, TypeOK, ClosedIsBelowThreshold, ProbesHavePermits
<1> QED
  BY <1>1, <1>2, <1>3, <1>4, <1>5, <1>6, <1>7, <1>8 DEF Next, Call, Ends

(* The inductive invariant holds in every state of every breaker.          *)
THEOREM BreakerInvariant == Spec => []BreakerInv
  BY InitInv, StepInv, PTL DEF Spec

-----------------------------------------------------------------------------
(* The variables of a breaker keep their types, its permits their limit,   *)
(* and a probe of the episode is a call under way (_check_state, execute). *)
THEOREM BreakerTypeCorrect == Spec => []TypeOK
<1>1. BreakerInv => TypeOK
  BY DEF BreakerInv
<1> QED
  BY <1>1, BreakerInvariant, PTL

(* A closed circuit is below its threshold: reports that come in while the *)
(* circuit is open or half-open never leave it closed and due (execute).   *)
THEOREM ClosedStaysBelowThreshold == Spec => []ClosedIsBelowThreshold
<1>1. BreakerInv => ClosedIsBelowThreshold
  BY DEF BreakerInv
<1> QED
  BY <1>1, BreakerInvariant, PTL

(* A half-open circuit has one to half_open_max_calls probes of its own    *)
(* episode out, or one of them ended without a verdict (_check_state).     *)
THEOREM HalfOpenHasProbes == Spec => []HalfOpenAwaitsVerdict
<1>1. BreakerInv => HalfOpenAwaitsVerdict
  BY ProbingFinite, ParameterAssumption
     DEF BreakerInv, HalfOpenAwaitsVerdict, ProbesHavePermits, TypeOK
<1> QED
  BY <1>1, BreakerInvariant, PTL
=============================================================================
