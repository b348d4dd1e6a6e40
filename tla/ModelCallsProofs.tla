-------------------------- MODULE ModelCallsProofs --------------------------
(***************************************************************************)
(* Proofs about ModelCalls, for every number of callers, all limits and    *)
(* costs and any number of cancellations and closes.                       *)
(***************************************************************************)
EXTENDS ModelCalls, CircuitBreakerProofs, EnumerationProofs

-----------------------------------------------------------------------------
(* The breaker: whatever the processor does, it does to the breaker what   *)
(* callers of execute() do.                                                *)

LEMMA InitIsBreakerInit == CallsInit => Init
  BY DEF CallsInit

(* Every step of a call through the processor is a step of the breaker, or *)
(* leaves it alone.                                                        *)
LEMMA StepIsBreakerStep == [CallsNext]_allVars => [Next]_vars
<1> SUFFICES ASSUME [CallsNext]_allVars
             PROVE  [Next]_vars
  OBVIOUS
<1>1. ASSUME NEW c \in Callers, Direct(c)
      PROVE  [Next]_vars
  BY <1>1 DEF Direct, Next
<1>2. ASSUME NEW c \in Callers, Start(c)
      PROVE  [Next]_vars
  BY <1>2 DEF Start, Next, Call
<1>3. ASSUME NEW c \in Callers, End(c)
      PROVE  [Next]_vars
  BY <1>3 DEF End, Next
<1>4. ASSUME NEW c \in Callers, Invoke(c) \/ Back(c) \/ CancelCaller(c)
      PROVE  UNCHANGED vars
  BY <1>4 DEF Invoke, Back, CancelCaller
<1>5. ASSUME NEW k \in Cycles, Turn(k)
      PROVE  UNCHANGED vars
  BY <1>5 DEF Turn, Grant, Defer, Finish, FinishCut
<1>6. CASE Replenish \/ Close
  BY <1>6 DEF Replenish, Close
<1>7. CASE Pass
  BY <1>7 DEF Pass, Next
<1>8. CASE UNCHANGED allVars
  BY <1>8 DEF allVars
<1> QED
  BY <1>1, <1>2, <1>3, <1>4, <1>5, <1>6, <1>7, <1>8 DEF CallsNext

(* Calls through the processor and past it are calls of one breaker        *)
(* (Endpoint.call): what is proved of CircuitBreaker holds of both.        *)
THEOREM CallsImplementBreaker == CallsSpec => Spec
  BY InitIsBreakerInit, StepIsBreakerStep, PTL DEF CallsSpec, Spec

(* A half-open circuit waits for one of its probes, whichever way it came, *)
(* unless one ended without a verdict (CircuitBreaker.execute).            *)
THEOREM CallsAwaitVerdict == CallsSpec => []HalfOpenAwaitsVerdict
  BY CallsImplementBreaker, HalfOpenHasProbes, PTL

-----------------------------------------------------------------------------
(* The processor.  The invariants rest on who drives: a cycle is off unless *)
(* its caller is in forward() or the replenisher in process(), so nobody    *)
(* begins a cycle over one that is under way.                               *)
DriversDrive ==
  /\ \A c \in Callers : caller[c] # "driving" => cycle[c].phase = "off"
  /\ timer \in {"none", "asleep"} => cycle[Timer].phase = "off"

HandsHold == \A k \in Cycles : cycle[k].phase = "asking" => cycle[k].hand \in Callers

(* What is granted was there, and is not there any more.                   *)
BudgetAgrees ==
  /\ "requests" \in conf.limits =>
       budget.requests >= 0 /\ budget.requests + spent.requests = conf.requests
  /\ "tokens" \in conf.limits =>
       budget.tokens >= 0 /\ budget.tokens + spent.tokens = conf.tokens

Unharmed == faults = [cancels |-> conf.cancels, closes |-> conf.closes]

(* Faults are only ever used up.  Without one a missing capacity has a     *)
(* cycle under way that took from it, and will refill it.                  *)
CapacityIsOwed ==
  /\ faults.cancels <= conf.cancels /\ faults.closes <= conf.closes
  /\ \A k \in Cycles : cycle[k].phase \in {"off", "cut"} => ~cycle[k].progress
  /\ Unharmed =>
       /\ \A k \in Cycles : cycle[k].phase # "cut"
       /\ capacity < conf.capacity => \E k \in Cycles : cycle[k].progress

CallsInv == ProcessorTypeOK /\ DriversDrive /\ HandsHold /\ BudgetAgrees /\ CapacityIsOwed

CycleStates ==
  [phase : {"off", "asking", "group", "cut"}, hand : Callers \cup {NoCall},
   deferred : Nat, progress : BOOLEAN]

LEMMA ModelFacts ==
  ASSUME conf \in Configurations
  PROVE  /\ conf.requests \in Nat /\ conf.tokens \in Nat
         /\ conf.cost \in [Callers -> Nat]
         /\ conf.capacity \in Nat \ {0}
         /\ conf.cancels \in Nat /\ conf.closes \in Nat
  BY ModelAssumption DEF Models

LEMMA CallsInitInv == CallsInit => CallsInv
<1> SUFFICES ASSUME CallsInit
             PROVE  CallsInv
  OBVIOUS
<1>1. /\ conf.requests \in Nat /\ conf.tokens \in Nat /\ conf.capacity \in Nat
      /\ conf.cancels \in Nat /\ conf.closes \in Nat
  BY ModelFacts DEF CallsInit
<1>2. /\ Off \in CycleStates /\ Off.phase = "off" /\ ~Off.progress
  BY DEF Off, CycleStates
<1>3. ProcessorTypeOK
  <2>1. cycle \in [Cycles -> CycleStates]
    BY <1>2 DEF CallsInit
  <2>2. budget \in [requests : Int, tokens : Int] /\ spent \in [requests : Nat, tokens : Nat]
    BY <1>1 DEF CallsInit, Limits, Nothing
  <2>3. faults \in [cancels : Nat, closes : Nat]
    BY <1>1 DEF CallsInit
  <2>4. queue \in Seq(Callers)
    BY DEF CallsInit
  <2> QED
    BY <1>1, <2>1, <2>2, <2>3, <2>4 DEF CallsInit, ProcessorTypeOK, CycleStates
<1>4. DriversDrive /\ HandsHold
  BY <1>2 DEF CallsInit, DriversDrive, HandsHold, Cycles
<1>5. BudgetAgrees
  BY <1>1 DEF CallsInit, BudgetAgrees, Limits, Nothing
<1>6. CapacityIsOwed
  BY <1>1, <1>2 DEF CallsInit, CapacityIsOwed
<1> QED
  BY <1>3, <1>4, <1>5, <1>6 DEF CallsInv

-----------------------------------------------------------------------------
(* What a cycle does until its next wait: its own record changes, it goes  *)
(* on with a caller's event in hand or waits for its group, and capacity   *)
(* only goes down if it made progress.                                     *)
Turned(k, q, progress) ==
  /\ queue' \in Seq(Callers)
  /\ cycle' \in [Cycles -> CycleStates]
  /\ \A j \in Cycles \ {k} : cycle'[j] = cycle[j]
  /\ cycle'[k].phase \in {"asking", "group"}
  /\ cycle'[k].phase = "asking" => cycle'[k].hand \in Callers
  /\ progress => cycle'[k].progress

LEMMA LookFacts ==
  ASSUME ProcessorTypeOK, NEW k \in Cycles, NEW q \in Seq(Callers),
         NEW n \in Nat, NEW b \in BOOLEAN, Look(k, q, n, b)
  PROVE  Turned(k, q, b)
<1>0. cycle \in [Cycles -> CycleStates]
  BY DEF ProcessorTypeOK, CycleStates
<1>1. CASE capacity' > 0 /\ q # <<>>
  <2> DEFINE r == [phase |-> "asking", hand |-> Head(q), deferred |-> n, progress |-> b]
  <2>1. cycle' = [cycle EXCEPT ![k] = r] /\ queue' = Tail(q)
    BY <1>1 DEF Look
  <2>2. Head(q) \in Callers /\ Tail(q) \in Seq(Callers)
    BY <1>1, HeadTailProperties
  <2>3. r \in CycleStates /\ r.phase = "asking" /\ r.hand \in Callers /\ r.progress = b
    BY <2>2 DEF CycleStates
  <2> HIDE DEF r
  <2> QED
    BY <1>0, <2>1, <2>2, <2>3 DEF Turned
<1>2. CASE ~(capacity' > 0 /\ q # <<>>)
  <2> DEFINE r == [Off EXCEPT !.phase = "group", !.progress = b]
  <2>1. cycle' = [cycle EXCEPT ![k] = r] /\ queue' = q
    BY <1>2 DEF Look
  <2>2. r \in CycleStates /\ r.phase = "group" /\ r.progress = b
    BY DEF CycleStates, Off
  <2> HIDE DEF r
  <2> QED
    BY <1>0, <2>1, <2>2 DEF Turned
<1> QED
  BY <1>1, <1>2

LEMMA SweepFacts ==
  ASSUME ProcessorTypeOK, NEW k \in Cycles, NEW q \in Seq(Callers), Sweep(k, q)
  PROVE  /\ Turned(k, q, FALSE)
         /\ by' \in [Callers -> Cycles \cup {NoCycle}]
         /\ capacity' \in Int /\ capacity' <= capacity
         /\ capacity' < capacity => cycle'[k].progress
<1> DEFINE n == Granted(q)
           r == [Off EXCEPT !.phase = "group", !.progress = n > 0]
<1>0. cycle \in [Cycles -> CycleStates] /\ capacity \in Int /\ conf.capacity \in Nat
  BY ModelFacts DEF ProcessorTypeOK, CycleStates
<1>1. n \in Nat /\ n <= Len(q)
  BY <1>0 DEF Granted
<1>2. queue' \in Seq(Callers)
  <2>1. \A i \in n + 1 .. Len(q) : q[i] \in Callers
    BY <1>1
  <2> HIDE DEF n
  <2>2. n + 1 \in Int /\ Len(q) \in Int
    BY <1>1
  <2>3. SubSeq(q, n + 1, Len(q)) \in Seq(Callers)
    BY <2>1, <2>2, SubSeqProperties
  <2> QED
    BY <2>3 DEF Sweep, n
<1>3. capacity' = capacity - n /\ cycle' = [cycle EXCEPT ![k] = r]
  BY DEF Sweep
<1>4. by' \in [Callers -> Cycles \cup {NoCycle}]
  BY DEF Sweep, ProcessorTypeOK
<1>5. r \in CycleStates /\ r.phase = "group" /\ (n > 0 => r.progress)
  <2> HIDE DEF n
  <2>1. (n > 0) \in BOOLEAN
    OBVIOUS
  <2> QED
    BY <2>1 DEF CycleStates, Off
<1> HIDE DEF n, r
<1>6. Turned(k, q, FALSE) /\ cycle'[k] = r
  BY <1>0, <1>2, <1>3, <1>5 DEF Turned
<1>7. capacity' \in Int /\ capacity' <= capacity /\ (capacity' < capacity => n > 0)
  BY <1>0, <1>1, <1>3
<1> QED
  BY <1>4, <1>5, <1>6, <1>7

LEMMA DriveFacts ==
  ASSUME ProcessorTypeOK, NEW k \in Cycles, NEW q \in Seq(Callers), Drive(k, q)
  PROVE  /\ Turned(k, q, FALSE)
         /\ by' \in [Callers -> Cycles \cup {NoCycle}]
         /\ capacity' \in Int /\ capacity' <= capacity
         /\ capacity' < capacity => cycle'[k].progress
<1>1. CASE Sweep(k, q)
  BY <1>1, SweepFacts
<1>2. CASE UNCHANGED <<line, by, capacity>> /\ Look(k, q, 0, FALSE)
  <2>1. Turned(k, q, FALSE)
    BY <1>2, LookFacts
  <2>2. by' \in [Callers -> Cycles \cup {NoCycle}]
    BY <1>2 DEF ProcessorTypeOK
  <2>3. capacity \in Int /\ capacity' = capacity
    BY <1>2 DEF ProcessorTypeOK
  <2>4. capacity' \in Int /\ capacity' <= capacity /\ ~(capacity' < capacity)
    BY <2>3
  <2> QED
    BY <2>1, <2>2, <2>4
<1> QED
  BY <1>1, <1>2 DEF Drive

(* Handed events and what is owed survive such a turn, if it forgets no    *)
(* progress made before.                                                   *)
LEMMA TurnKeeps ==
  ASSUME CallsInv, NEW k \in Cycles, NEW q, NEW p, Turned(k, q, p),
         UNCHANGED <<conf, faults>>,
         capacity' \in Int, capacity' <= capacity,
         capacity' < capacity => cycle'[k].progress,
         cycle[k].progress => cycle'[k].progress
  PROVE  HandsHold' /\ CapacityIsOwed'
<1>1. /\ cycle \in [Cycles -> CycleStates] /\ cycle' \in [Cycles -> CycleStates]
      /\ capacity \in Int
  BY DEF CallsInv, ProcessorTypeOK, Turned, CycleStates
<1>2. HandsHold'
  BY DEF CallsInv, HandsHold, Turned
<1>3. ASSUME NEW j \in Cycles, cycle'[j].phase \in {"off", "cut"}
      PROVE  ~cycle'[j].progress
  BY <1>3 DEF CallsInv, CapacityIsOwed, Turned
<1>4. ASSUME Unharmed'
      PROVE  /\ \A j \in Cycles : cycle'[j].phase # "cut"
             /\ capacity' < conf'.capacity => \E j \in Cycles : cycle'[j].progress
  <2>1. Unharmed /\ conf'.capacity = conf.capacity
    BY <1>4 DEF Unharmed
  <2>2. \A j \in Cycles : cycle'[j].phase # "cut"
    BY <2>1 DEF CallsInv, CapacityIsOwed, Turned
  <2>3. CASE capacity' < capacity
    BY <2>2, <2>3
  <2>4. CASE capacity' = capacity
    <3>1. capacity' < conf'.capacity => \E j \in Cycles : cycle[j].progress
      BY <2>1, <2>4 DEF CallsInv, CapacityIsOwed
    <3>2. ASSUME NEW j \in Cycles, cycle[j].progress
          PROVE  cycle'[j].progress
      BY <3>2 DEF Turned
    <3> QED
      BY <2>2, <3>1, <3>2
  <2> QED
    BY <1>1, <2>3, <2>4
<1>5. faults'.cancels <= conf'.cancels /\ faults'.closes <= conf'.closes
  BY DEF CallsInv, CapacityIsOwed
<1> QED
  BY <1>2, <1>3, <1>4, <1>5 DEF CapacityIsOwed

LEMMA InvokeInv ==
  ASSUME CallsInv, NEW c \in Callers, Invoke(c)
  PROVE  CallsInv'
<1> DEFINE q == Append(queue, c)
<1>0. ProcessorTypeOK /\ c \in Cycles /\ Timer \in Cycles /\ Timer # c
  BY ModelAssumption DEF CallsInv, Cycles
<1>1. q \in Seq(Callers)
  BY <1>0 DEF ProcessorTypeOK
<1>2. cycle[c].phase = "off" /\ ~cycle[c].progress
  BY <1>0 DEF Invoke, CallsInv, DriversDrive, CapacityIsOwed
<1>3. Drive(c, q)
  BY DEF Invoke
<1> HIDE DEF q
<1>4. /\ Turned(c, q, FALSE)
      /\ by' \in [Callers -> Cycles \cup {NoCycle}]
      /\ capacity' \in Int /\ capacity' <= capacity
      /\ capacity' < capacity => cycle'[c].progress
  BY <1>0, <1>1, <1>3, DriveFacts
<1>5. UNCHANGED <<conf, faults, budget, spent, dropped>>
  BY DEF Invoke
<1>6. HandsHold' /\ CapacityIsOwed'
  BY <1>0, <1>2, <1>4, <1>5, TurnKeeps
<1>7. ProcessorTypeOK'
  <2>1. status' \in [Callers -> {"new", "pending", "processing", "over"}]
    BY <1>0 DEF Invoke, ProcessorTypeOK
  <2>2. caller' \in [Callers -> {"out", "driving", "waiting", "back"}]
    BY <1>0 DEF Invoke, ProcessorTypeOK
  <2>3. timer' \in {"none", "asleep", "driving", "dead"}
    BY <1>0 DEF Invoke, ProcessorTypeOK
  <2>4. capacity' <= conf'.capacity
    BY <1>0, <1>4, <1>5, ModelFacts DEF ProcessorTypeOK
  <2>5. queue' \in Seq(Callers) /\ cycle' \in [Cycles -> CycleStates]
    BY <1>4 DEF Turned
  <2> QED
    BY <1>0, <1>4, <1>5, <2>1, <2>2, <2>3, <2>4, <2>5 DEF ProcessorTypeOK, CycleStates
<1>8. DriversDrive'
  <2>1. ASSUME NEW d \in Callers, caller'[d] # "driving"
        PROVE  cycle'[d].phase = "off"
    <3>1. d # c /\ caller'[d] = caller[d]
      BY <1>0, <2>1 DEF Invoke, ProcessorTypeOK
    <3> QED
      BY <1>4, <2>1, <3>1 DEF Turned, CallsInv, DriversDrive, Cycles
  <2>2. ASSUME timer' \in {"none", "asleep"}
        PROVE  cycle'[Timer].phase = "off"
    <3>1. timer \in {"none", "asleep"}
      BY <2>2 DEF Invoke
    <3> QED
      BY <1>0, <1>4, <3>1 DEF Turned, CallsInv, DriversDrive
  <2> QED
    BY <2>1, <2>2 DEF DriversDrive
<1>9. BudgetAgrees'
  BY <1>5 DEF CallsInv, BudgetAgrees
<1> QED
  BY <1>6, <1>7, <1>8, <1>9 DEF CallsInv

LEMMA ReplenishInv ==
  ASSUME CallsInv, Replenish
  PROVE  CallsInv'
<1>0. /\ ProcessorTypeOK /\ Timer \in Cycles
      /\ conf.requests \in Nat /\ conf.tokens \in Nat
  BY ModelFacts DEF CallsInv, Cycles, ProcessorTypeOK
<1>1. /\ budget' = [requests |-> conf.requests, tokens |-> conf.tokens]
      /\ spent' = [requests |-> 0, tokens |-> 0]
      /\ UNCHANGED <<conf, status, caller, faults, dropped>>
  BY DEF Replenish, Limits, Nothing
<1>2. BudgetAgrees'
  BY <1>0, <1>1 DEF BudgetAgrees
<1>3. budget' \in [requests : Int, tokens : Int] /\ spent' \in [requests : Nat, tokens : Nat]
  BY <1>0, <1>1
<1>4. CASE UNCHANGED <<queue, cycle, line, by, capacity, timer>>
  <2>1. ProcessorTypeOK'
    BY <1>0, <1>1, <1>3, <1>4 DEF ProcessorTypeOK
  <2>2. DriversDrive' /\ HandsHold' /\ CapacityIsOwed'
    BY <1>1, <1>4 DEF CallsInv, DriversDrive, HandsHold, CapacityIsOwed, Unharmed
  <2> QED
    BY <1>2, <2>1, <2>2 DEF CallsInv
<1>5. CASE timer' = "driving" /\ Drive(Timer, queue)
  <2>1. cycle[Timer].phase = "off" /\ ~cycle[Timer].progress
    BY <1>0 DEF Replenish, CallsInv, DriversDrive, CapacityIsOwed
  <2>2. /\ Turned(Timer, queue, FALSE)
        /\ by' \in [Callers -> Cycles \cup {NoCycle}]
        /\ capacity' \in Int /\ capacity' <= capacity
        /\ capacity' < capacity => cycle'[Timer].progress
    BY <1>0, <1>5, DriveFacts DEF ProcessorTypeOK
  <2>3. HandsHold' /\ CapacityIsOwed'
    BY <1>0, <1>1, <2>1, <2>2, TurnKeeps
  <2>4. ProcessorTypeOK'
    <3>1. capacity' <= conf'.capacity
      BY <1>0, <1>1, <2>2, ModelFacts DEF ProcessorTypeOK
    <3>2. queue' \in Seq(Callers) /\ cycle' \in [Cycles -> CycleStates]
      BY <2>2 DEF Turned
    <3> QED
      BY <1>0, <1>1, <1>3, <1>5, <2>2, <3>1, <3>2 DEF ProcessorTypeOK, CycleStates
  <2>5. DriversDrive'
    <3>1. \A d \in Callers : d \in Cycles \ {Timer}
      BY ModelAssumption DEF Cycles
    <3> QED
      BY <1>1, <1>5, <2>2, <3>1 DEF Turned, CallsInv, DriversDrive
  <2> QED
    BY <1>2, <2>3, <2>4, <2>5 DEF CallsInv
<1> QED
  BY <1>4, <1>5 DEF Replenish

-----------------------------------------------------------------------------
(* An asking driver stays where it is, and who drives with it.             *)
LEMMA TurnKeepsDrivers ==
  ASSUME CallsInv, NEW k \in Cycles, NEW q, NEW p, Turned(k, q, p),
         cycle[k].phase # "off", UNCHANGED <<caller, timer>>
  PROVE  DriversDrive'
  BY ModelAssumption DEF Turned, CallsInv, DriversDrive, Cycles

LEMMA GrantInv ==
  ASSUME CallsInv, NEW k \in Cycles, Grant(k)
  PROVE  CallsInv'
<1> DEFINE c == cycle[k].hand
           charge == Charge(c)
<1>0. /\ ProcessorTypeOK /\ c \in Callers /\ Permitted(c) /\ queue \in Seq(Callers)
      /\ UNCHANGED <<conf, status, caller, timer, faults, dropped>>
      /\ cycle[k].phase = "asking"
  BY DEF CallsInv, HandsHold, Grant, ProcessorTypeOK
<1>1. /\ conf.requests \in Nat /\ conf.tokens \in Nat /\ conf.cost[c] \in Nat
      /\ conf.capacity \in Nat
  BY <1>0, ModelFacts DEF ProcessorTypeOK
<1>2. /\ charge.requests = (IF "requests" \in conf.limits THEN 1 ELSE 0)
      /\ charge.tokens = (IF "tokens" \in conf.limits THEN conf.cost[c] ELSE 0)
  BY DEF Charge
<1>3. /\ budget.requests \in Int /\ budget.tokens \in Int
      /\ DOMAIN budget = {"requests", "tokens"}
      /\ spent.requests \in Nat /\ spent.tokens \in Nat
      /\ DOMAIN spent = {"requests", "tokens"}
  BY <1>0 DEF ProcessorTypeOK
<1>4. /\ budget' = [f \in {"requests", "tokens"} |-> budget[f] - charge[f]]
      /\ spent' = [f \in {"requests", "tokens"} |-> spent[f] + charge[f]]
  BY <1>3 DEF Grant
<1>5. /\ capacity' = capacity - 1 /\ Look(k, queue, 0, TRUE)
      /\ by' = [by EXCEPT ![c] = k]
  BY DEF Grant
<1> HIDE DEF c, charge
<1>6. Turned(k, queue, TRUE)
  BY <1>0, <1>5, LookFacts
<1>7. capacity' \in Int /\ capacity' <= capacity /\ cycle'[k].progress
  BY <1>0, <1>5, <1>6 DEF ProcessorTypeOK, Turned
<1>8. HandsHold' /\ CapacityIsOwed'
  BY <1>0, <1>6, <1>7, TurnKeeps
<1>9. DriversDrive'
  BY <1>0, <1>6, TurnKeepsDrivers
<1>10. /\ budget'.requests = budget.requests - charge.requests
       /\ budget'.tokens = budget.tokens - charge.tokens
       /\ spent'.requests = spent.requests + charge.requests
       /\ spent'.tokens = spent.tokens + charge.tokens
  BY <1>4
<1>11. BudgetAgrees'
  <2>1. /\ "requests" \in conf.limits => budget.requests >= 1
        /\ "tokens" \in conf.limits => budget.tokens >= conf.cost[c]
    BY <1>0 DEF Permitted
  <2> QED
    BY <1>0, <1>1, <1>2, <1>3, <1>10, <2>1 DEF CallsInv, BudgetAgrees
<1>12. ProcessorTypeOK'
  <2>1. charge.requests \in Nat /\ charge.tokens \in Nat
    BY <1>1, <1>2
  <2>2. budget' \in [requests : Int, tokens : Int] /\ spent' \in [requests : Nat, tokens : Nat]
    BY <1>3, <1>4, <2>1
  <2>3. by' \in [Callers -> Cycles \cup {NoCycle}]
    BY <1>0, <1>5 DEF ProcessorTypeOK
  <2>4. capacity' <= conf'.capacity
    BY <1>0, <1>1, <1>7 DEF ProcessorTypeOK
  <2>5. queue' \in Seq(Callers) /\ cycle' \in [Cycles -> CycleStates]
    BY <1>6 DEF Turned
  <2> QED
    BY <1>0, <1>7, <2>2, <2>3, <2>4, <2>5 DEF ProcessorTypeOK, CycleStates
<1> QED
  BY <1>8, <1>9, <1>11, <1>12 DEF CallsInv

LEMMA DeferInv ==
  ASSUME CallsInv, NEW k \in Cycles, Defer(k)
  PROVE  CallsInv'
<1> DEFINE q == Append(queue, cycle[k].hand)
           n == cycle[k].deferred + 1
           b == cycle[k].progress
<1>0. /\ ProcessorTypeOK /\ cycle[k].hand \in Callers /\ cycle[k].phase = "asking"
      /\ UNCHANGED <<conf, status, caller, line, by, capacity, budget, timer,
                     faults, spent, dropped>>
  BY DEF CallsInv, HandsHold, Defer
<1>1. cycle \in [Cycles -> CycleStates]
  BY <1>0 DEF ProcessorTypeOK, CycleStates
<1>2. q \in Seq(Callers) /\ n \in Nat /\ b \in BOOLEAN
  BY <1>0, <1>1 DEF ProcessorTypeOK, CycleStates
<1>3. \/ Look(k, q, n, b)
      \/ queue' = q /\ cycle' = [cycle EXCEPT ![k] = [Off EXCEPT !.phase = "group", !.progress = b]]
  BY DEF Defer
<1> HIDE DEF q, n, b
<1>4. Turned(k, q, b)
  <2>1. CASE Look(k, q, n, b)
    BY <1>0, <1>2, <2>1, LookFacts
  <2>2. CASE queue' = q /\ cycle' = [cycle EXCEPT ![k] = [Off EXCEPT !.phase = "group", !.progress = b]]
    <3> DEFINE r == [Off EXCEPT !.phase = "group", !.progress = b]
    <3>1. r \in CycleStates /\ r.phase = "group" /\ r.progress = b
      BY <1>2 DEF CycleStates, Off
    <3>2. cycle' = [cycle EXCEPT ![k] = r]
      BY <2>2
    <3> HIDE DEF r
    <3> QED
      BY <1>1, <1>2, <2>2, <3>1, <3>2 DEF Turned
  <2> QED
    BY <1>3, <2>1, <2>2
<1>5. capacity' \in Int /\ capacity' <= capacity /\ ~(capacity' < capacity)
  BY <1>0 DEF ProcessorTypeOK
<1>6. cycle[k].progress => cycle'[k].progress
  BY <1>4 DEF Turned, b
<1>7. HandsHold' /\ CapacityIsOwed'
  BY <1>0, <1>4, <1>5, <1>6, TurnKeeps
<1>8. DriversDrive'
  BY <1>0, <1>4, TurnKeepsDrivers
<1>9. BudgetAgrees'
  BY <1>0 DEF CallsInv, BudgetAgrees
<1>10. ProcessorTypeOK'
  <2>1. queue' \in Seq(Callers) /\ cycle' \in [Cycles -> CycleStates]
    BY <1>4 DEF Turned
  <2> QED
    BY <1>0, <2>1 DEF ProcessorTypeOK, CycleStates
<1> QED
  BY <1>7, <1>8, <1>9, <1>10 DEF CallsInv

-----------------------------------------------------------------------------
(* A cycle that is over: its driver drives no more.                        *)
LEMMA LeavingDriver ==
  ASSUME CallsInv, NEW k \in Cycles, NEW to \in {"waiting", "back"},
         cycle' = [cycle EXCEPT ![k] = Off], DriverLeaves(k, to), UNCHANGED conf
  PROVE  /\ DriversDrive' /\ HandsHold'
         /\ cycle' \in [Cycles -> CycleStates]
         /\ \A j \in Cycles \ {k} : cycle'[j] = cycle[j]
         /\ cycle'[k].phase = "off" /\ ~cycle'[k].progress
         /\ caller' \in [Callers -> {"out", "driving", "waiting", "back"}]
         /\ timer' \in {"none", "asleep", "driving", "dead"}
<1>0. /\ cycle \in [Cycles -> CycleStates] /\ Timer \notin Callers /\ Timer \in Cycles
      /\ caller \in [Callers -> {"out", "driving", "waiting", "back"}]
      /\ timer \in {"none", "asleep", "driving", "dead"}
      /\ \A c \in Callers : c \in Cycles
  BY ModelAssumption DEF CallsInv, ProcessorTypeOK, CycleStates, Cycles
<1>1. Off \in CycleStates /\ Off.phase = "off" /\ ~Off.progress
  BY DEF Off, CycleStates
<1>2. /\ cycle' \in [Cycles -> CycleStates]
      /\ \A j \in Cycles \ {k} : cycle'[j] = cycle[j]
      /\ cycle'[k] = Off
  BY <1>0, <1>1
<1>3. HandsHold'
  BY <1>1, <1>2 DEF CallsInv, HandsHold
<1>4. CASE k = Timer
  <2>1. UNCHANGED caller /\ timer' \in {"none", "asleep", "driving", "dead"}
    BY <1>0, <1>4 DEF DriverLeaves
  <2>2. DriversDrive'
    BY <1>0, <1>1, <1>2, <1>4, <2>1 DEF CallsInv, DriversDrive
  <2> QED
    BY <1>0, <1>1, <1>2, <1>3, <2>1, <2>2
<1>5. CASE k # Timer
  <2>1. k \in Callers /\ UNCHANGED timer /\ caller' = [caller EXCEPT ![k] = to]
    BY <1>5 DEF DriverLeaves, Cycles
  <2>2. DriversDrive'
    BY <1>0, <1>1, <1>2, <1>5, <2>1 DEF CallsInv, DriversDrive
  <2>3. caller' \in [Callers -> {"out", "driving", "waiting", "back"}]
    BY <1>0, <2>1
  <2> QED
    BY <1>0, <1>1, <1>2, <1>3, <2>1, <2>2, <2>3
<1> QED
  BY <1>4, <1>5

LEMMA FinishInv ==
  ASSUME CallsInv, NEW k \in Cycles, Finish(k)
  PROVE  CallsInv'
<1>0. /\ ProcessorTypeOK
      /\ UNCHANGED <<conf, status, queue, line, by, budget, faults, spent, dropped>>
  BY DEF CallsInv, Finish
<1>1. /\ DriversDrive' /\ HandsHold'
      /\ cycle' \in [Cycles -> CycleStates]
      /\ \A j \in Cycles \ {k} : cycle'[j] = cycle[j]
      /\ cycle'[k].phase = "off" /\ ~cycle'[k].progress
      /\ caller' \in [Callers -> {"out", "driving", "waiting", "back"}]
      /\ timer' \in {"none", "asleep", "driving", "dead"}
  BY <1>0, LeavingDriver DEF Finish
<1>2. /\ conf.capacity \in Nat /\ capacity \in Int /\ capacity <= conf.capacity
      /\ capacity' = IF cycle[k].progress THEN conf.capacity ELSE capacity
  BY <1>0, ModelFacts DEF ProcessorTypeOK, Finish
<1>3. capacity' \in Int /\ capacity' <= conf'.capacity
  BY <1>0, <1>2
<1>4. ProcessorTypeOK'
  BY <1>0, <1>1, <1>3 DEF ProcessorTypeOK, CycleStates
<1>5. BudgetAgrees'
  BY <1>0 DEF CallsInv, BudgetAgrees
<1>6. CapacityIsOwed'
  <2>1. \A j \in Cycles : cycle'[j].phase \in {"off", "cut"} => ~cycle'[j].progress
    BY <1>1 DEF CallsInv, CapacityIsOwed
  <2>2. ASSUME Unharmed'
        PROVE  /\ \A j \in Cycles : cycle'[j].phase # "cut"
               /\ capacity' < conf'.capacity => \E j \in Cycles : cycle'[j].progress
    <3>1. Unharmed
      BY <1>0, <2>2 DEF Unharmed
    <3>2. \A j \in Cycles : cycle'[j].phase # "cut"
      BY <1>1, <3>1 DEF CallsInv, CapacityIsOwed
    <3>3. CASE cycle[k].progress
      <4>1. ~(capacity' < conf'.capacity)
        BY <1>0, <1>2, <3>3
      <4> QED
        BY <3>2, <4>1
    <3>4. CASE ~cycle[k].progress
      <4>1. capacity' < conf'.capacity => \E j \in Cycles : cycle[j].progress
        BY <1>0, <1>2, <3>1, <3>4 DEF CallsInv, CapacityIsOwed
      <4>2. ASSUME NEW j \in Cycles, cycle[j].progress
            PROVE  cycle'[j].progress
        BY <1>1, <3>4, <4>2
      <4> QED
        BY <3>2, <4>1, <4>2
    <3> QED
      BY <3>3, <3>4
  <2> QED
    BY <1>0, <2>1, <2>2 DEF CallsInv, CapacityIsOwed
<1> QED
  BY <1>1, <1>4, <1>5, <1>6 DEF CallsInv

LEMMA FinishCutInv ==
  ASSUME CallsInv, NEW k \in Cycles, FinishCut(k)
  PROVE  CallsInv'
<1>0. /\ ProcessorTypeOK
      /\ UNCHANGED <<conf, status, queue, line, by, capacity, budget, faults, spent, dropped>>
  BY DEF CallsInv, FinishCut
<1>1. /\ DriversDrive' /\ HandsHold'
      /\ cycle' \in [Cycles -> CycleStates]
      /\ \A j \in Cycles \ {k} : cycle'[j] = cycle[j]
      /\ cycle'[k].phase = "off" /\ ~cycle'[k].progress
      /\ caller' \in [Callers -> {"out", "driving", "waiting", "back"}]
      /\ timer' \in {"none", "asleep", "driving", "dead"}
  BY <1>0, LeavingDriver DEF FinishCut
<1>2. ProcessorTypeOK'
  BY <1>0, <1>1 DEF ProcessorTypeOK, CycleStates
<1>3. BudgetAgrees'
  BY <1>0 DEF CallsInv, BudgetAgrees
<1>4. ~Unharmed'
  BY <1>0 DEF FinishCut, CallsInv, CapacityIsOwed, Unharmed
<1>5. CapacityIsOwed'
  BY <1>0, <1>1, <1>4 DEF CallsInv, CapacityIsOwed
<1> QED
  BY <1>1, <1>2, <1>3, <1>5 DEF CallsInv

-----------------------------------------------------------------------------
(* A cut cycle lets go of what it had, and is counted as a fault.          *)
LEMMA CutFacts ==
  ASSUME CallsInv, NEW k \in Cycles, Cut(k)
  PROVE  /\ cycle' \in [Cycles -> CycleStates]
         /\ \A j \in Cycles \ {k} : cycle'[j] = cycle[j]
         /\ cycle'[k].phase = "cut" /\ ~cycle'[k].progress
         /\ dropped' \subseteq Callers
         /\ by' \in [Callers -> Cycles \cup {NoCycle}]
<1> DEFINE lost == {c \in Group(k) : c \notin Running} \cup ({cycle[k].hand} \ {NoCall})
           r == [Off EXCEPT !.phase = "cut"]
<1>0. /\ cycle \in [Cycles -> CycleStates] /\ dropped \subseteq Callers
      /\ by \in [Callers -> Cycles \cup {NoCycle}]
  BY DEF CallsInv, ProcessorTypeOK, CycleStates
<1>1. lost \subseteq Callers
  BY <1>0 DEF Group, CycleStates
<1>2. /\ cycle' = [cycle EXCEPT ![k] = r]
      /\ dropped' = dropped \cup lost
      /\ by' = [c \in Callers |-> IF c \in lost THEN NoCycle ELSE by[c]]
  BY DEF Cut
<1>3. r \in CycleStates /\ r.phase = "cut" /\ ~r.progress
  BY DEF Off, CycleStates
<1> HIDE DEF lost, r
<1>4. by' \in [Callers -> Cycles \cup {NoCycle}]
  BY <1>0, <1>2
<1> QED
  BY <1>0, <1>1, <1>2, <1>3, <1>4

LEMMA CancelCallerInv ==
  ASSUME CallsInv, NEW c \in Callers, CancelCaller(c)
  PROVE  CallsInv'
<1>0. /\ ProcessorTypeOK /\ c \in Cycles /\ c # Timer /\ Timer \in Cycles
      /\ conf.cancels \in Nat /\ conf.closes \in Nat
      /\ \A d \in Callers : d \in Cycles
  BY ModelAssumption, ModelFacts DEF CallsInv, ProcessorTypeOK, Cycles
<1>1. /\ UNCHANGED <<conf, status, caller, queue, capacity, budget, timer, spent>>
      /\ faults.cancels > 0 /\ caller[c] = "driving"
      /\ faults' = [faults EXCEPT !.cancels = faults.cancels - 1]
  BY DEF CancelCaller
<1>2. /\ cycle' \in [Cycles -> CycleStates]
      /\ \A j \in Cycles \ {c} : cycle'[j] = cycle[j]
      /\ cycle'[c].phase = "cut" /\ ~cycle'[c].progress
      /\ dropped' \subseteq Callers
      /\ by' \in [Callers -> Cycles \cup {NoCycle}]
  BY <1>0, CutFacts DEF CancelCaller
<1>3. /\ faults' \in [cancels : Nat, closes : Nat]
      /\ faults'.cancels = faults.cancels - 1 /\ faults'.closes = faults.closes
      /\ faults.cancels \in Nat
  <2>1. faults \in [cancels : Nat, closes : Nat] /\ faults.cancels \in Nat
    BY <1>0 DEF ProcessorTypeOK
  <2>2. faults.cancels - 1 \in Nat
    BY <1>1, <2>1
  <2> QED
    BY <1>1, <2>1, <2>2
<1>4. ProcessorTypeOK'
  BY <1>0, <1>1, <1>2, <1>3 DEF ProcessorTypeOK, CycleStates
<1>5. DriversDrive' /\ HandsHold'
  BY <1>0, <1>1, <1>2 DEF CallsInv, DriversDrive, HandsHold
<1>6. BudgetAgrees'
  BY <1>1 DEF CallsInv, BudgetAgrees
<1>7. CapacityIsOwed'
  <2>1. faults.cancels <= conf.cancels /\ faults.closes <= conf.closes
    BY DEF CallsInv, CapacityIsOwed
  <2>2. ~Unharmed' /\ faults'.cancels <= conf'.cancels /\ faults'.closes <= conf'.closes
    BY <1>0, <1>1, <1>3, <2>1 DEF Unharmed
  <2>3. \A j \in Cycles : cycle'[j].phase \in {"off", "cut"} => ~cycle'[j].progress
    BY <1>2 DEF CallsInv, CapacityIsOwed
  <2> QED
    BY <2>2, <2>3 DEF CapacityIsOwed
<1> QED
  BY <1>4, <1>5, <1>6, <1>7 DEF CallsInv

LEMMA CloseInv ==
  ASSUME CallsInv, Close
  PROVE  CallsInv'
<1>0. /\ ProcessorTypeOK /\ Timer \in Cycles /\ Timer \notin Callers
      /\ conf.cancels \in Nat /\ conf.closes \in Nat
      /\ \A d \in Callers : d \in Cycles
  BY ModelAssumption, ModelFacts DEF CallsInv, ProcessorTypeOK, Cycles
<1>1. /\ UNCHANGED <<conf, status, caller, queue, capacity, budget, spent>>
      /\ faults.closes > 0 /\ timer' = "dead"
      /\ faults' = [faults EXCEPT !.closes = faults.closes - 1]
  BY DEF Close
<1>2. /\ cycle' \in [Cycles -> CycleStates]
      /\ \A j \in Cycles \ {Timer} : cycle'[j] = cycle[j]
      /\ cycle'[Timer].phase \in {"off", "cut"} => ~cycle'[Timer].progress
      /\ cycle'[Timer].phase = "asking" => cycle'[Timer].hand \in Callers
      /\ dropped' \subseteq Callers
      /\ by' \in [Callers -> Cycles \cup {NoCycle}]
  <2>1. CASE UNCHANGED <<cycle, line, by, dropped>>
    BY <1>0, <2>1 DEF CallsInv, ProcessorTypeOK, CapacityIsOwed, HandsHold, CycleStates
  <2>2. CASE Cut(Timer)
    BY <1>0, <2>2, CutFacts
  <2> QED
    BY <2>1, <2>2 DEF Close
<1>3. /\ faults' \in [cancels : Nat, closes : Nat]
      /\ faults'.closes = faults.closes - 1 /\ faults'.cancels = faults.cancels
      /\ faults.closes \in Nat
  <2>1. faults \in [cancels : Nat, closes : Nat] /\ faults.closes \in Nat
    BY <1>0 DEF ProcessorTypeOK
  <2>2. faults.closes - 1 \in Nat
    BY <1>1, <2>1
  <2> QED
    BY <1>1, <2>1, <2>2
<1>4. ProcessorTypeOK'
  BY <1>0, <1>1, <1>2, <1>3 DEF ProcessorTypeOK, CycleStates
<1>5. DriversDrive' /\ HandsHold'
  BY <1>0, <1>1, <1>2 DEF CallsInv, DriversDrive, HandsHold
<1>6. BudgetAgrees'
  BY <1>1 DEF CallsInv, BudgetAgrees
<1>7. CapacityIsOwed'
  <2>1. faults.cancels <= conf.cancels /\ faults.closes <= conf.closes
    BY DEF CallsInv, CapacityIsOwed
  <2>2. ~Unharmed' /\ faults'.cancels <= conf'.cancels /\ faults'.closes <= conf'.closes
    BY <1>0, <1>1, <1>3, <2>1 DEF Unharmed
  <2>3. \A j \in Cycles : cycle'[j].phase \in {"off", "cut"} => ~cycle'[j].progress
    BY <1>2 DEF CallsInv, CapacityIsOwed
  <2> QED
    BY <2>2, <2>3 DEF CapacityIsOwed
<1> QED
  BY <1>4, <1>5, <1>6, <1>7 DEF CallsInv

-----------------------------------------------------------------------------
(* A call that starts, ends or is returned from touches neither cycles nor *)
(* limits.                                                                 *)
LEMMA CallMovesInv ==
  ASSUME CallsInv, NEW c \in Callers, Start(c) \/ End(c) \/ Back(c)
  PROVE  CallsInv'
<1>0. ProcessorTypeOK
  BY DEF CallsInv
<1>1. UNCHANGED <<conf, queue, cycle, capacity, budget, timer, faults, spent, dropped>>
  BY DEF Start, End, Back
<1>2. status' \in [Callers -> {"new", "pending", "processing", "over"}]
  BY <1>0 DEF Start, End, Back, ProcessorTypeOK
<1>3. by' \in [Callers -> Cycles \cup {NoCycle}]
  BY <1>0 DEF Start, End, Back, ProcessorTypeOK
<1>4. /\ caller' \in [Callers -> {"out", "driving", "waiting", "back"}]
      /\ \A d \in Callers : caller'[d] # "driving" => caller[d] # "driving"
  BY <1>0 DEF Start, End, Back, ProcessorTypeOK
<1>5. ProcessorTypeOK'
  BY <1>0, <1>1, <1>2, <1>3, <1>4 DEF ProcessorTypeOK
<1>6. DriversDrive' /\ HandsHold'
  BY <1>1, <1>4 DEF CallsInv, DriversDrive, HandsHold
<1>7. BudgetAgrees' /\ CapacityIsOwed'
  BY <1>1 DEF CallsInv, BudgetAgrees, CapacityIsOwed, Unharmed
<1> QED
  BY <1>5, <1>6, <1>7 DEF CallsInv

LEMMA CallsStepInv == CallsInv /\ [CallsNext]_allVars => CallsInv'
<1> SUFFICES ASSUME CallsInv, [CallsNext]_allVars
             PROVE  CallsInv'
  OBVIOUS
<1>1. ASSUME UNCHANGED callVars
      PROVE  CallsInv'
  BY <1>1 DEF callVars, CallsInv, ProcessorTypeOK, DriversDrive, HandsHold,
              BudgetAgrees, CapacityIsOwed, Unharmed
<1>2. ASSUME NEW c \in Callers, Direct(c)
      PROVE  CallsInv'
  BY <1>1, <1>2 DEF Direct
<1>3. ASSUME NEW k \in Cycles, Turn(k)
      PROVE  CallsInv'
  BY <1>3, GrantInv, DeferInv, FinishInv, FinishCutInv DEF Turn
<1>4. CASE Pass
  BY <1>1, <1>4 DEF Pass
<1>5. CASE UNCHANGED allVars
  BY <1>1, <1>5 DEF allVars
<1> QED
  BY <1>2, <1>3, <1>4, <1>5, InvokeInv, CancelCallerInv, CallMovesInv,
     ReplenishInv, CloseInv DEF CallsNext

(* The inductive invariant of Processor.process and its callers always     *)
(* holds.                                                                  *)
THEOREM CallsInvariant == CallsSpec => []CallsInv
  BY CallsInitInv, CallsStepInv, PTL DEF CallsSpec

(* Every reachable state of a processor, its callers and the breaker has   *)
(* its type (Processor.process, iModel.invoke).                            *)
THEOREM CallsTypeCorrect == CallsSpec => []CallsTypeOK
<1>1. CallsInv /\ TypeOK => CallsTypeOK
  BY DEF CallsInv, CallsTypeOK
<1> QED
  BY <1>1, CallsInvariant, CallsImplementBreaker, BreakerTypeCorrect, PTL

(* However many cycles ask at once, requests and tokens granted between    *)
(* two resets stay within the limits (request_permission).                 *)
THEOREM LimitsAreKept == CallsSpec => []GrantsWithinLimits
<1>1. CallsInv => GrantsWithinLimits
  <2> SUFFICES ASSUME CallsInv
               PROVE  GrantsWithinLimits
    OBVIOUS
  <2>1. /\ conf.requests \in Nat /\ conf.tokens \in Nat
        /\ budget.requests \in Int /\ budget.tokens \in Int
        /\ spent.requests \in Nat /\ spent.tokens \in Nat
    BY ModelFacts DEF CallsInv, ProcessorTypeOK
  <2> QED
    BY <2>1 DEF CallsInv, BudgetAgrees, GrantsWithinLimits
<1> QED
  BY <1>1, CallsInvariant, PTL

(* Without cancellation or close the capacity is whole whenever no cycle   *)
(* is under way, however cycles overlapped (Processor.process).            *)
THEOREM CapacityIsRefilled == CallsSpec => []CapacityComesBack
<1>1. CallsInv => CapacityComesBack
  <2> SUFFICES ASSUME CallsInv, Unharmed, \A k \in Cycles : cycle[k].phase = "off"
               PROVE  capacity = conf.capacity
    BY DEF CapacityComesBack, Unharmed
  <2>1. \A k \in Cycles : ~cycle[k].progress
    BY DEF CallsInv, CapacityIsOwed
  <2>2. ~(capacity < conf.capacity)
    BY <2>1 DEF CallsInv, CapacityIsOwed
  <2>3. capacity \in Int /\ conf.capacity \in Nat /\ capacity <= conf.capacity
    BY ModelFacts DEF CallsInv, ProcessorTypeOK
  <2> QED
    BY <2>2, <2>3
<1> QED
  BY <1>1, CallsInvariant, PTL
-----------------------------------------------------------------------------
(* Where the calls are: in the queue q, in a hand of h or in the line l.   *)
Hands == [k \in Cycles |-> cycle[k].hand]
HandsTypes == [Cycles -> Callers \cup {NoCall}]

Held(h) == {h[k] : k \in Cycles} \ {NoCall}
At(q, h, l) == Elements(q) \cup Held(h) \cup Elements(l)

\* No place holds a call twice, and no two places hold the same one.
Apart(q, h, l) ==
  /\ q \in Seq(Callers) /\ l \in Seq(Callers) /\ h \in HandsTypes
  /\ NoRepeats(q) /\ NoRepeats(l)
  /\ \A j, k \in Cycles : h[j] = h[k] /\ h[j] # NoCall => j = k
  /\ Elements(q) \cap Elements(l) = {}
  /\ Held(h) \cap (Elements(q) \cup Elements(l)) = {}

\* g is h with x in the hand of k.
InHand(g, h, k, x) ==
  g \in HandsTypes /\ g[k] = x /\ \A j \in Cycles \ {k} : g[j] = h[j]

LEMMA HandsType ==
  ASSUME cycle \in [Cycles -> CycleStates]
  PROVE  Hands \in HandsTypes
BY DEF Hands, HandsTypes, CycleStates

\* Append(queue, event).
LEMMA QueueGains ==
  ASSUME NEW q, NEW h, NEW l, Apart(q, h, l), NEW c \in Callers, c \notin At(q, h, l)
  PROVE  /\ Apart(Append(q, c), h, l)
         /\ At(Append(q, c), h, l) = At(q, h, l) \cup {c}
<1> DEFINE a == Append(q, c)
<1>1. /\ a \in Seq(Callers) /\ Elements(a) = Elements(q) \cup {c}
      /\ NoRepeats(q) /\ c \notin Elements(q) => NoRepeats(a)
  BY AppendIs DEF Apart
<1> HIDE DEF a
<1>2. Apart(a, h, l) /\ At(a, h, l) = At(q, h, l) \cup {c}
  BY <1>1 DEF Apart, At
<1> QED
  BY <1>2 DEF a

\* Append(line, event).
LEMMA LineGains ==
  ASSUME NEW q, NEW h, NEW l, Apart(q, h, l), NEW c \in Callers, c \notin At(q, h, l)
  PROVE  /\ Apart(q, h, Append(l, c))
         /\ At(q, h, Append(l, c)) = At(q, h, l) \cup {c}
         /\ Elements(Append(l, c)) = Elements(l) \cup {c}
<1> DEFINE a == Append(l, c)
<1>1. /\ a \in Seq(Callers) /\ Elements(a) = Elements(l) \cup {c}
      /\ NoRepeats(l) /\ c \notin Elements(l) => NoRepeats(a)
  BY AppendIs DEF Apart
<1> HIDE DEF a
<1>2. Apart(q, h, a) /\ At(q, h, a) = At(q, h, l) \cup {c}
  BY <1>1 DEF Apart, At
<1> QED
  BY <1>1, <1>2 DEF a

\* The event in a hand is let go of.
LEMMA HandOpens ==
  ASSUME NEW q, NEW h, NEW l, Apart(q, h, l), NEW k \in Cycles,
         NEW g, InHand(g, h, k, NoCall)
  PROVE  Apart(q, g, l) /\ At(q, g, l) = At(q, h, l) \ {h[k]}
<1>1. /\ g \in HandsTypes /\ g[k] = NoCall
      /\ \A j \in Cycles \ {k} : g[j] = h[j]
  BY DEF InHand
<1>2. Held(g) = Held(h) \ {h[k]}
  <2>1. \A j \in Cycles \ {k} : h[j] # NoCall => h[j] # h[k]
    BY DEF Apart
  <2> QED
    BY <1>1, <2>1 DEF Held
<1>3. \A i, j \in Cycles : g[i] = g[j] /\ g[i] # NoCall => i = j
  BY <1>1 DEF Apart
<1>4. Apart(q, g, l)
  BY <1>1, <1>2, <1>3 DEF Apart
<1>5. h[k] \notin Elements(q) \cup Elements(l)
  <2>1. CASE h[k] = NoCall
    BY <2>1, ElementsType, ModelAssumption DEF Apart
  <2>2. CASE h[k] # NoCall
    BY <2>2 DEF Apart, Held
  <2> QED
    BY <2>1, <2>2
<1> QED
  BY <1>2, <1>4, <1>5 DEF At

\* queue.popleft().
LEMMA HandTakes ==
  ASSUME NEW q, NEW h, NEW l, Apart(q, h, l), NEW k \in Cycles, h[k] = NoCall, q # <<>>,
         NEW g, InHand(g, h, k, Head(q))
  PROVE  Apart(Tail(q), g, l) /\ At(Tail(q), g, l) = At(q, h, l)
<1> DEFINE t == Tail(q)
           c == Head(q)
<1>1. /\ c \in Elements(q) /\ c \in Callers /\ t \in Seq(Callers)
      /\ Elements(q) = Elements(t) \cup {c}
      /\ c \notin Elements(t) /\ NoRepeats(t)
  BY TailIs DEF Apart
<1> HIDE DEF t, c
<1>2. /\ g \in HandsTypes /\ g[k] = c /\ c # NoCall
      /\ \A j \in Cycles \ {k} : g[j] = h[j]
  BY <1>1, ModelAssumption DEF InHand, c
<1>3. Held(g) = Held(h) \cup {c}
  BY <1>2 DEF Held
<1>4. \A j \in Cycles : h[j] # c
  BY <1>1, <1>2 DEF Apart, Held
<1>5. \A i, j \in Cycles : g[i] = g[j] /\ g[i] # NoCall => i = j
  BY <1>2, <1>4 DEF Apart
<1>6. Apart(t, g, l) /\ At(t, g, l) = At(q, h, l)
  BY <1>1, <1>2, <1>3, <1>5 DEF Apart, At
<1> QED
  BY <1>6 DEF t

\* The head of the line gets the semaphore.
LEMMA LineMoves ==
  ASSUME NEW q, NEW h, NEW l, Apart(q, h, l), l # <<>>
  PROVE  /\ Apart(q, h, Tail(l))
         /\ Head(l) \in Callers /\ Head(l) \in At(q, h, l)
         /\ At(q, h, Tail(l)) = At(q, h, l) \ {Head(l)}
         /\ Elements(Tail(l)) = Elements(l) \ {Head(l)}
<1> DEFINE t == Tail(l)
           c == Head(l)
<1>1. /\ c \in Elements(l) /\ c \in Callers /\ t \in Seq(Callers)
      /\ Elements(l) = Elements(t) \cup {c}
      /\ c \notin Elements(t) /\ NoRepeats(t)
  BY TailIs DEF Apart
<1> HIDE DEF t, c
<1>2. c \notin Elements(q) \cup Held(h)
  BY <1>1 DEF Apart
<1>3. Apart(q, h, t) /\ At(q, h, t) = At(q, h, l) \ {c} /\ Elements(t) = Elements(l) \ {c}
  BY <1>1, <1>2 DEF Apart, At
<1> QED
  BY <1>1, <1>3 DEF t, c, At

\* Those of a group that wait for the semaphore are cancelled.
LEMMA LineDrops ==
  ASSUME NEW q, NEW h, NEW l, Apart(q, h, l), NEW S, S \cap (Elements(q) \cup Held(h)) = {}
  PROVE  /\ Apart(q, h, Without(l, S))
         /\ At(q, h, Without(l, S)) = At(q, h, l) \ S
         /\ Elements(Without(l, S)) = Elements(l) \ S
<1> DEFINE w == Without(l, S)
<1>1. w \in Seq(Callers) /\ Elements(w) = Elements(l) \ S /\ (NoRepeats(l) => NoRepeats(w))
  BY WithoutIs DEF Apart
<1> HIDE DEF w
<1>2. Apart(q, h, w) /\ At(q, h, w) = At(q, h, l) \ S
  BY <1>1 DEF Apart, At
<1> QED
  BY <1>1, <1>2 DEF w

\* Without limits the head of the queue is granted in one go.
LEMMA QueueSweeps ==
  ASSUME NEW q, NEW h, NEW l, Apart(q, h, l), NEW n \in 0..Len(q)
  PROVE  /\ Apart(SubSeq(q, n + 1, Len(q)), h, l \o SubSeq(q, 1, n))
         /\ At(SubSeq(q, n + 1, Len(q)), h, l \o SubSeq(q, 1, n)) = At(q, h, l)
         /\ Elements(l \o SubSeq(q, 1, n)) = Elements(l) \cup {q[i] : i \in 1..n}
<1> DEFINE a == SubSeq(q, 1, n)
           b == SubSeq(q, n + 1, Len(q))
           m == l \o a
<1>1. /\ a \in Seq(Callers) /\ b \in Seq(Callers)
      /\ Elements(a) = {q[i] : i \in 1..n}
      /\ Elements(q) = Elements(a) \cup Elements(b)
      /\ NoRepeats(a) /\ NoRepeats(b) /\ Elements(a) \cap Elements(b) = {}
  BY SplitIs DEF Apart
<1> HIDE DEF a, b
<1>2. /\ m \in Seq(Callers) /\ Elements(m) = Elements(l) \cup Elements(a)
      /\ NoRepeats(m)
  <2>1. Elements(l) \cap Elements(a) = {}
    BY <1>1 DEF Apart
  <2> QED
    BY <1>1, <2>1, JoinIs DEF Apart
<1> HIDE DEF m
<1>3. Apart(b, h, m) /\ At(b, h, m) = At(q, h, l)
  BY <1>1, <1>2 DEF Apart, At
<1> QED
  BY <1>1, <1>2, <1>3 DEF a, b, m

-----------------------------------------------------------------------------
(* A call has a place exactly while it waits to be run; one that is        *)
(* dropped waits for ever; a group has only calls in line or under way.    *)
Placed(c) ==
  /\ c \in At(queue, Hands, line) <=> status[c] = "pending" /\ c \notin dropped
  /\ c \in dropped => status[c] = "pending"
  /\ by[c] # NoCycle => c \in Elements(line) \/ status[c] = "processing"
  /\ caller[c] = "out" => status[c] = "new"

OpenHands == \A k \in Cycles : cycle[k].phase # "asking" => cycle[k].hand = NoCall

PlaceInv == Apart(queue, Hands, line) /\ OpenHands /\ \A c \in Callers : Placed(c)

LEMMA InitPlaces == CallsInit => PlaceInv
<1> SUFFICES ASSUME CallsInit
             PROVE  PlaceInv
  OBVIOUS
<1>1. \A k \in Cycles : cycle[k].hand = NoCall
  BY DEF CallsInit, Off
<1>2. Hands \in HandsTypes /\ Held(Hands) = {}
  BY <1>1 DEF Hands, HandsTypes, Held
<1>3. queue = <<>> /\ line = <<>> /\ Elements(queue) = {} /\ Elements(line) = {}
  BY DEF CallsInit, Elements
<1>4. <<>> \in Seq(Callers) /\ NoRepeats(<<>>)
  BY DEF NoRepeats
<1>5. Apart(queue, Hands, line) /\ At(queue, Hands, line) = {}
  <2>1. \A j \in Cycles : Hands[j] = NoCall
    BY <1>1 DEF Hands
  <2> QED
    BY <1>2, <1>3, <1>4, <2>1 DEF Apart, At
<1>6. \A c \in Callers : Placed(c)
  BY <1>5 DEF CallsInit, Placed
<1> QED
  BY <1>1, <1>5, <1>6 DEF PlaceInv, OpenHands

\* The hands after a step of cycle k.
LEMMA HandChanges ==
  ASSUME cycle \in [Cycles -> CycleStates], NEW k \in Cycles, NEW r \in CycleStates,
         cycle' = [cycle EXCEPT ![k] = r], OpenHands,
         r.phase # "asking" => r.hand = NoCall,
         NEW h, \A j \in Cycles \ {k} : h[j] = cycle[j].hand
  PROVE  InHand(Hands', h, k, r.hand) /\ OpenHands'
<1>1. \A j \in Cycles : cycle'[j] = IF j = k THEN r ELSE cycle[j]
  OBVIOUS
<1>2. \A j \in Cycles : Hands'[j] = cycle'[j].hand
  BY DEF Hands
<1>3. Hands' \in HandsTypes
  BY <1>1 DEF Hands, HandsTypes, CycleStates
<1> QED
  BY <1>1, <1>2, <1>3 DEF InHand, OpenHands

\* A hand that was open and stays so.
LEMMA HandStays ==
  ASSUME NEW h \in HandsTypes, NEW g, NEW k \in Cycles, InHand(g, h, k, NoCall), h[k] = NoCall
  PROVE  g = h
<1>1. \A j \in Cycles : g[j] = h[j]
  BY DEF InHand
<1> QED
  BY <1>1 DEF InHand, HandsTypes

\* The hands but for the one of cycle k, which is open.
Others(h, k) ==
  h \in HandsTypes /\ h[k] = NoCall /\ \A j \in Cycles \ {k} : h[j] = cycle[j].hand

LEMMA OthersAre ==
  ASSUME cycle \in [Cycles -> CycleStates], NEW k \in Cycles
  PROVE  /\ cycle[k].hand = NoCall => Others(Hands, k)
         /\ \E h : Others(h, k) /\ InHand(h, Hands, k, NoCall)
<1>1. Hands \in HandsTypes /\ \A j \in Cycles : Hands[j] = cycle[j].hand
  BY HandsType DEF Hands
<1> DEFINE h == [j \in Cycles |-> IF j = k THEN NoCall ELSE cycle[j].hand]
<1>2. h \in HandsTypes
  BY DEF HandsTypes, CycleStates
<1>3. h[k] = NoCall /\ \A j \in Cycles \ {k} : h[j] = cycle[j].hand
  OBVIOUS
<1> HIDE DEF h
<1> QED
  BY <1>1, <1>2, <1>3 DEF Others, InHand

(* The head of the loop of process(): the hand of the cycle, open before,  *)
(* takes the next event or stays open.                                     *)
LEMMA LookPlaces ==
  ASSUME ProcessorTypeOK, OpenHands, NEW k \in Cycles, NEW q, NEW l, NEW n \in Nat, NEW b \in BOOLEAN,
         NEW h, Others(h, k), Apart(q, h, l), Look(k, q, n, b)
  PROVE  /\ Apart(queue', Hands', l) /\ OpenHands'
         /\ At(queue', Hands', l) = At(q, h, l)
<1>0. cycle \in [Cycles -> CycleStates] /\ q \in Seq(Callers)
  BY DEF ProcessorTypeOK, CycleStates, Apart
<1>1. CASE capacity' > 0 /\ q # <<>>
  <2> DEFINE r == [phase |-> "asking", hand |-> Head(q), deferred |-> n, progress |-> b]
  <2>1. cycle' = [cycle EXCEPT ![k] = r] /\ queue' = Tail(q)
    BY <1>1 DEF Look
  <2>2. r \in CycleStates /\ r.phase = "asking" /\ r.hand = Head(q)
    BY <1>0, <1>1, HeadTailProperties DEF CycleStates
  <2> HIDE DEF r
  <2>3. InHand(Hands', h, k, Head(q)) /\ OpenHands'
    BY <1>0, <2>1, <2>2, HandChanges DEF Others
  <2>4. Apart(Tail(q), Hands', l) /\ At(Tail(q), Hands', l) = At(q, h, l)
    BY <1>1, <2>3, HandTakes DEF Others
  <2> QED
    BY <2>1, <2>3, <2>4
<1>2. CASE ~(capacity' > 0 /\ q # <<>>)
  <2> DEFINE r == [Off EXCEPT !.phase = "group", !.progress = b]
  <2>1. cycle' = [cycle EXCEPT ![k] = r] /\ queue' = q
    BY <1>2 DEF Look
  <2>2. r \in CycleStates /\ r.phase = "group" /\ r.hand = NoCall
    BY DEF CycleStates, Off
  <2> HIDE DEF r
  <2>3. InHand(Hands', h, k, NoCall) /\ OpenHands'
    BY <1>0, <2>1, <2>2, HandChanges DEF Others
  <2>4. Hands' = h
    BY <2>3, HandStays DEF Others
  <2> QED
    BY <2>1, <2>3, <2>4
<1> QED
  BY <1>1, <1>2

\* Without limits the cycle keeps its hands off.
LEMMA SweepPlaces ==
  ASSUME ProcessorTypeOK, OpenHands, NEW k \in Cycles, NEW q, cycle[k].hand = NoCall,
         Apart(q, Hands, line), Sweep(k, q)
  PROVE  /\ Apart(queue', Hands', line') /\ OpenHands'
         /\ At(queue', Hands', line') = At(q, Hands, line)
         /\ Elements(line) \subseteq Elements(line')
         /\ \A c \in Callers : by'[c] # NoCycle => c \in Elements(line') \/ by'[c] = by[c]
<1> DEFINE n == Granted(q)
           r == [Off EXCEPT !.phase = "group", !.progress = n > 0]
<1>0. /\ cycle \in [Cycles -> CycleStates] /\ q \in Seq(Callers)
      /\ capacity \in Int /\ conf.capacity \in Nat
  BY ModelFacts DEF ProcessorTypeOK, CycleStates, Apart
<1>1. n \in 0..Len(q)
  BY <1>0 DEF Granted
<1>2. /\ line' = line \o SubSeq(q, 1, n) /\ queue' = SubSeq(q, n + 1, Len(q))
      /\ cycle' = [cycle EXCEPT ![k] = r]
      /\ by' = [c \in Callers |-> IF \E i \in 1..n : q[i] = c THEN k ELSE by[c]]
  BY DEF Sweep
<1>3. r \in CycleStates /\ r.phase = "group" /\ r.hand = NoCall
  <2>1. (n > 0) \in BOOLEAN
    OBVIOUS
  <2> HIDE DEF n
  <2> QED
    BY <2>1 DEF CycleStates, Off
<1> HIDE DEF n, r
<1>4. Hands' = Hands /\ OpenHands'
  <2>1. Others(Hands, k)
    BY <1>0, OthersAre
  <2>2. InHand(Hands', Hands, k, NoCall) /\ OpenHands'
    BY <1>0, <1>2, <1>3, <2>1, HandChanges DEF Others
  <2> QED
    BY <2>1, <2>2, HandStays DEF Others
<1>5. /\ Apart(queue', Hands, line') /\ At(queue', Hands, line') = At(q, Hands, line)
      /\ Elements(line') = Elements(line) \cup {q[i] : i \in 1..n}
  BY <1>1, <1>2, QueueSweeps
<1> QED
  BY <1>2, <1>4, <1>5

LEMMA DrivePlaces ==
  ASSUME ProcessorTypeOK, OpenHands, NEW k \in Cycles, NEW q, cycle[k].hand = NoCall,
         Apart(q, Hands, line), Drive(k, q)
  PROVE  /\ Apart(queue', Hands', line') /\ OpenHands'
         /\ At(queue', Hands', line') = At(q, Hands, line)
         /\ Elements(line) \subseteq Elements(line')
         /\ \A c \in Callers : by'[c] # NoCycle => c \in Elements(line') \/ by'[c] = by[c]
<1>1. CASE Sweep(k, q)
  BY <1>1, SweepPlaces
<1>2. CASE UNCHANGED <<line, by, capacity>> /\ Look(k, q, 0, FALSE)
  <2>1. cycle \in [Cycles -> CycleStates] /\ Others(Hands, k)
    BY OthersAre DEF ProcessorTypeOK, CycleStates
  <2> DEFINE n == 0
             b == FALSE
  <2>2. Look(k, q, n, b) /\ n \in Nat /\ b \in BOOLEAN
    BY <1>2
  <2> HIDE DEF n, b
  <2>3. /\ Apart(queue', Hands', line) /\ OpenHands'
        /\ At(queue', Hands', line) = At(q, Hands, line)
    BY <2>1, <2>2, LookPlaces
  <2> QED
    BY <1>2, <2>3
<1> QED
  BY <1>1, <1>2 DEF Drive

LEMMA InvokePlaces ==
  ASSUME CallsInv, PlaceInv, NEW c \in Callers, Invoke(c)
  PROVE  PlaceInv'
<1> DEFINE q == Append(queue, c)
<1>0. /\ ProcessorTypeOK /\ c \in Cycles /\ OpenHands /\ Apart(queue, Hands, line)
      /\ UNCHANGED dropped
  BY DEF CallsInv, PlaceInv, Cycles, Invoke
<1>1. /\ caller[c] # "driving" /\ status[c] \in {"new", "over"}
      /\ caller' = [caller EXCEPT ![c] = "driving"]
      /\ status' = [status EXCEPT ![c] = "pending"]
      /\ status \in [Callers -> {"new", "pending", "processing", "over"}]
      /\ caller \in [Callers -> {"out", "driving", "waiting", "back"}]
  BY <1>0 DEF Invoke, PlaceInv, Placed, ProcessorTypeOK
<1>2. cycle[c].hand = NoCall
  BY <1>0, <1>1 DEF CallsInv, DriversDrive, OpenHands
<1>3. c \notin At(queue, Hands, line) /\ c \notin dropped
  BY <1>1 DEF PlaceInv, Placed
<1>4. Apart(q, Hands, line) /\ At(q, Hands, line) = At(queue, Hands, line) \cup {c}
  BY <1>0, <1>3, QueueGains
<1>5. Drive(c, q)
  BY DEF Invoke
<1> HIDE DEF q
<1>6. /\ Apart(queue', Hands', line') /\ OpenHands'
      /\ At(queue', Hands', line') = At(queue, Hands, line) \cup {c}
      /\ Elements(line) \subseteq Elements(line')
      /\ \A d \in Callers : by'[d] # NoCycle => d \in Elements(line') \/ by'[d] = by[d]
  BY <1>0, <1>2, <1>4, <1>5, DrivePlaces
<1>7. by[c] = NoCycle
  BY <1>1, <1>3 DEF PlaceInv, Placed, At
<1>8. ASSUME NEW d \in Callers
      PROVE  Placed(d)'
  <2>1. CASE d = c
    BY <1>0, <1>1, <1>3, <1>6, <1>7, <2>1 DEF Placed
  <2>2. CASE d # c
    <3>1. status'[d] = status[d] /\ caller'[d] = caller[d]
      BY <1>1, <2>2
    <3> QED
      BY <1>0, <1>6, <2>2, <3>1 DEF PlaceInv, Placed
  <2> QED
    BY <2>1, <2>2
<1> QED
  BY <1>6, <1>8 DEF PlaceInv

LEMMA ReplenishPlaces ==
  ASSUME CallsInv, PlaceInv, Replenish
  PROVE  PlaceInv'
<1>0. /\ ProcessorTypeOK /\ Timer \in Cycles /\ OpenHands /\ Apart(queue, Hands, line)
      /\ UNCHANGED <<status, caller, dropped>>
  BY DEF CallsInv, PlaceInv, Cycles, Replenish
<1>1. CASE UNCHANGED <<queue, cycle, line, by>>
  BY <1>0, <1>1 DEF PlaceInv, Placed, OpenHands, Hands
<1>2. CASE Drive(Timer, queue)
  <2>1. cycle[Timer].hand = NoCall
    BY <1>0 DEF Replenish, CallsInv, DriversDrive, OpenHands
  <2>2. /\ Apart(queue', Hands', line') /\ OpenHands'
        /\ At(queue', Hands', line') = At(queue, Hands, line)
        /\ Elements(line) \subseteq Elements(line')
        /\ \A d \in Callers : by'[d] # NoCycle => d \in Elements(line') \/ by'[d] = by[d]
    BY <1>0, <1>2, <2>1, DrivePlaces
  <2>3. \A d \in Callers : Placed(d)'
    BY <1>0, <2>2 DEF PlaceInv, Placed
  <2> QED
    BY <2>2, <2>3 DEF PlaceInv
<1> QED
  BY <1>1, <1>2 DEF Replenish

LEMMA GrantPlaces ==
  ASSUME CallsInv, PlaceInv, NEW k \in Cycles, Grant(k)
  PROVE  PlaceInv'
<1> DEFINE c == cycle[k].hand
<1>0. /\ ProcessorTypeOK /\ c \in Callers /\ OpenHands /\ Apart(queue, Hands, line)
      /\ Hands \in HandsTypes /\ Hands[k] = c /\ cycle \in [Cycles -> CycleStates]
      /\ UNCHANGED <<status, caller, dropped>>
  BY DEF CallsInv, HandsHold, PlaceInv, Grant, Apart, Hands, ProcessorTypeOK, CycleStates
<1>1. line' = Append(line, c) /\ by' = [by EXCEPT ![c] = k] /\ Look(k, queue, 0, TRUE)
  BY DEF Grant
<1>2. c \in At(queue, Hands, line)
  BY <1>0, ModelAssumption DEF At, Held
<1> HIDE DEF c
<1>h. PICK h : Others(h, k) /\ InHand(h, Hands, k, NoCall)
  BY <1>0, OthersAre
<1>3. /\ Apart(queue, h, line) /\ At(queue, h, line) = At(queue, Hands, line) \ {c}
      /\ c \notin At(queue, h, line)
  <2>1. Apart(queue, Hands, line) /\ Hands[k] = c
    BY <1>0
  <2>2. Apart(queue, h, line) /\ At(queue, h, line) = At(queue, Hands, line) \ {Hands[k]}
    BY <1>h, <2>1, HandOpens
  <2> QED
    BY <2>1, <2>2
<1>4. /\ Apart(queue, h, line') /\ At(queue, h, line') = At(queue, Hands, line)
      /\ Elements(line') = Elements(line) \cup {c}
  <2>1. /\ Apart(queue, h, Append(line, c))
        /\ At(queue, h, Append(line, c)) = At(queue, h, line) \cup {c}
        /\ Elements(Append(line, c)) = Elements(line) \cup {c}
    <3>1. c \in Callers
      BY <1>0
    <3> QED
      BY <1>3, <3>1, LineGains
  <2> QED
    BY <1>1, <1>2, <1>3, <2>1
<1>5. /\ Apart(queue', Hands', line') /\ OpenHands'
      /\ At(queue', Hands', line') = At(queue, Hands, line)
  <2> DEFINE n == 0
             b == TRUE
  <2>1. /\ ProcessorTypeOK /\ OpenHands /\ Apart(queue, h, line')
        /\ Look(k, queue, n, b) /\ n \in Nat /\ b \in BOOLEAN
    BY <1>0, <1>1, <1>4
  <2> HIDE DEF n, b
  <2>2. /\ Apart(queue', Hands', line') /\ OpenHands'
        /\ At(queue', Hands', line') = At(queue, h, line')
    BY <1>h, <2>1, LookPlaces
  <2> QED
    BY <1>4, <2>2
<1>6. \A d \in Callers : by'[d] # NoCycle => d \in Elements(line') \/ by'[d] = by[d]
  BY <1>0, <1>1, <1>4 DEF ProcessorTypeOK
<1>7. \A d \in Callers : Placed(d)'
  BY <1>0, <1>4, <1>5, <1>6 DEF PlaceInv, Placed
<1> QED
  BY <1>5, <1>7 DEF PlaceInv

LEMMA DeferPlaces ==
  ASSUME CallsInv, PlaceInv, NEW k \in Cycles, Defer(k)
  PROVE  PlaceInv'
<1> DEFINE c == cycle[k].hand
           q == Append(queue, c)
           n == cycle[k].deferred + 1
           b == cycle[k].progress
           r == [Off EXCEPT !.phase = "group", !.progress = b]
<1>0. /\ ProcessorTypeOK /\ c \in Callers /\ OpenHands /\ Apart(queue, Hands, line)
      /\ Hands \in HandsTypes /\ Hands[k] = c
      /\ UNCHANGED <<line, by, status, caller, dropped>>
      /\ cycle \in [Cycles -> CycleStates] /\ n \in Nat /\ b \in BOOLEAN
  BY DEF CallsInv, HandsHold, PlaceInv, Defer, Apart, Hands, ProcessorTypeOK, CycleStates
<1>1. \/ Look(k, q, n, b)
      \/ queue' = q /\ cycle' = [cycle EXCEPT ![k] = r]
  BY DEF Defer
<1>2. r \in CycleStates /\ r.phase = "group" /\ r.hand = NoCall
  BY <1>0 DEF CycleStates, Off
<1>3. c \in At(queue, Hands, line)
  BY <1>0, ModelAssumption DEF At, Held
<1> HIDE DEF c, n, b, r
<1>h. PICK h : Others(h, k) /\ InHand(h, Hands, k, NoCall)
  BY <1>0, OthersAre
<1>4. /\ Apart(queue, h, line) /\ At(queue, h, line) = At(queue, Hands, line) \ {c}
      /\ c \notin At(queue, h, line)
  <2>1. Apart(queue, Hands, line) /\ Hands[k] = c
    BY <1>0
  <2>2. Apart(queue, h, line) /\ At(queue, h, line) = At(queue, Hands, line) \ {Hands[k]}
    BY <1>h, <2>1, HandOpens
  <2> QED
    BY <2>1, <2>2
<1>5. Apart(q, h, line) /\ At(q, h, line) = At(queue, Hands, line)
  <2>1. c \in Callers
    BY <1>0
  <2>2. Apart(q, h, line) /\ At(q, h, line) = At(queue, h, line) \cup {c}
    BY <1>4, <2>1, QueueGains
  <2> QED
    BY <1>3, <1>4, <2>2
<1> HIDE DEF q
<1>6. /\ Apart(queue', Hands', line) /\ OpenHands'
      /\ At(queue', Hands', line) = At(queue, Hands, line)
  <2>1. CASE Look(k, q, n, b)
    <3>1. ProcessorTypeOK /\ OpenHands /\ n \in Nat /\ b \in BOOLEAN
      BY <1>0
    <3>2. /\ Apart(queue', Hands', line) /\ OpenHands'
          /\ At(queue', Hands', line) = At(q, h, line)
      BY <1>5, <1>h, <2>1, <3>1, LookPlaces
    <3> QED
      BY <1>5, <3>2
  <2>2. CASE queue' = q /\ cycle' = [cycle EXCEPT ![k] = r]
    <3>1. InHand(Hands', h, k, NoCall) /\ OpenHands'
      BY <1>0, <1>2, <1>h, <2>2, HandChanges DEF Others
    <3>2. Hands' = h
      BY <1>h, <3>1, HandStays DEF Others
    <3> QED
      BY <1>5, <2>2, <3>1, <3>2
  <2> QED
    BY <1>1, <2>1, <2>2
<1>7. \A d \in Callers : Placed(d)'
  BY <1>0, <1>6 DEF PlaceInv, Placed
<1> QED
  BY <1>0, <1>6, <1>7 DEF PlaceInv

\* A cycle that is over held nothing; its driver was not out.
LEMMA LeavePlaces ==
  ASSUME CallsInv, PlaceInv, NEW k \in Cycles, NEW to \in {"waiting", "back"},
         cycle[k].phase \in {"group", "cut"}, cycle' = [cycle EXCEPT ![k] = Off],
         DriverLeaves(k, to), UNCHANGED <<status, queue, line, by, dropped>>
  PROVE  PlaceInv'
<1>0. /\ cycle \in [Cycles -> CycleStates] /\ OpenHands
      /\ caller \in [Callers -> {"out", "driving", "waiting", "back"}]
  BY DEF CallsInv, ProcessorTypeOK, CycleStates, PlaceInv
<1>1. Off \in CycleStates /\ Off.hand = NoCall
  BY DEF Off, CycleStates
<1>2. Others(Hands, k)
  BY <1>0, OthersAre DEF OpenHands
<1>3. Hands' = Hands /\ OpenHands'
  <2>1. \A j \in Cycles : cycle'[j] = IF j = k THEN Off ELSE cycle[j]
    BY <1>0
  <2>2. \A j \in Cycles : cycle'[j].hand = cycle[j].hand
    BY <1>1, <1>2, <2>1 DEF Others, Hands
  <2> QED
    BY <1>0, <1>1, <2>1, <2>2 DEF Hands, OpenHands
<1>4. \A d \in Callers : caller'[d] = "out" => caller[d] = "out"
  BY <1>0 DEF DriverLeaves
<1>5. \A d \in Callers : Placed(d)'
  BY <1>3, <1>4 DEF PlaceInv, Placed
<1> QED
  BY <1>3, <1>5 DEF PlaceInv

(* Process.execute is cancelled: what the cycle has taken and not started  *)
(* loses its place, and is the only thing that does.                       *)
LEMMA CutPlaces ==
  ASSUME CallsInv, PlaceInv, NEW k \in Cycles, Cut(k), UNCHANGED <<status, queue, caller>>
  PROVE  PlaceInv'
<1> DEFINE waits == {c \in Group(k) : c \notin Running}
           lost == waits \cup ({cycle[k].hand} \ {NoCall})
           r == [Off EXCEPT !.phase = "cut"]
<1>0. /\ cycle \in [Cycles -> CycleStates] /\ OpenHands /\ Apart(queue, Hands, line)
      /\ by \in [Callers -> Cycles \cup {NoCycle}]
      /\ Hands \in HandsTypes /\ Hands[k] = cycle[k].hand
  BY DEF CallsInv, ProcessorTypeOK, CycleStates, PlaceInv, Apart, Hands
<1>1. /\ cycle' = [cycle EXCEPT ![k] = r] /\ dropped' = dropped \cup lost
      /\ line' = Without(line, lost)
      /\ by' = [c \in Callers |-> IF c \in lost THEN NoCycle ELSE by[c]]
  BY DEF Cut
<1>2. r \in CycleStates /\ r.phase = "cut" /\ r.hand = NoCall
  BY DEF CycleStates, Off
<1>3. waits \subseteq Elements(line)
  BY ModelAssumption DEF Group, Running, PlaceInv, Placed
<1>4. lost \subseteq At(queue, Hands, line)
  BY <1>0, <1>3 DEF At, Held
<1>5. At(queue, Hands, line) \subseteq Callers
  BY ElementsType DEF Apart, At, Held, HandsTypes, PlaceInv
<1> HIDE DEF waits, r
<1>h. PICK h : Others(h, k) /\ InHand(h, Hands, k, NoCall)
  BY <1>0, OthersAre
<1>6. Hands' = h /\ OpenHands'
  <2>1. InHand(Hands', h, k, NoCall) /\ OpenHands'
    BY <1>0, <1>1, <1>2, <1>h, HandChanges DEF Others
  <2> QED
    BY <1>h, <2>1, HandStays DEF Others
<1>7. Apart(queue, h, line) /\ At(queue, h, line) = At(queue, Hands, line) \ {cycle[k].hand}
  <2>1. Apart(queue, Hands, line) /\ Hands[k] = cycle[k].hand
    BY <1>0
  <2>2. Apart(queue, h, line) /\ At(queue, h, line) = At(queue, Hands, line) \ {Hands[k]}
    BY <1>h, <2>1, HandOpens
  <2> QED
    BY <2>1, <2>2
<1>8. lost \cap (Elements(queue) \cup Held(h)) = {}
  <2>1. waits \cap (Elements(queue) \cup Held(h)) = {}
    BY <1>3, <1>7 DEF Apart
  <2>2. cycle[k].hand \notin Elements(queue) \cup Held(h)
    <3>1. cycle[k].hand \notin At(queue, h, line)
      BY <1>7
    <3> QED
      BY <3>1 DEF At
  <2> QED
    BY <2>1, <2>2
<1>9. /\ Apart(queue, h, line') /\ At(queue, h, line') = At(queue, h, line) \ lost
      /\ Elements(line') = Elements(line) \ lost
  <2> HIDE DEF lost
  <2> QED
    BY <1>1, <1>7, <1>8, LineDrops
<1>10. At(queue, h, line') \cap Callers = At(queue, Hands, line) \ lost
  BY <1>5, <1>7, <1>9, ModelAssumption
<1> HIDE DEF lost
<1>11. ASSUME NEW d \in Callers
       PROVE  Placed(d)'
  <2>1. d \in At(queue', Hands', line') <=> d \in At(queue, Hands, line) /\ d \notin lost
    BY <1>6, <1>10
  <2>2. d \in lost => status[d] = "pending"
    BY <1>4 DEF PlaceInv, Placed
  <2>3. by'[d] # NoCycle => d \notin lost /\ by[d] # NoCycle
    BY <1>1
  <2> QED
    BY <1>1, <1>9, <2>1, <2>2, <2>3 DEF PlaceInv, Placed
<1> QED
  BY <1>6, <1>9, <1>11 DEF PlaceInv

LEMMA StartPlaces ==
  ASSUME CallsInv, PlaceInv, NEW c \in Callers, Start(c)
  PROVE  PlaceInv'
<1>0. /\ ProcessorTypeOK /\ OpenHands /\ Apart(queue, Hands, line)
      /\ line # <<>> /\ c = Head(line) /\ line' = Tail(line)
      /\ UNCHANGED <<caller, queue, cycle, dropped>>
  BY DEF CallsInv, PlaceInv, Start
<1>1. /\ status \in [Callers -> {"new", "pending", "processing", "over"}]
      /\ by \in [Callers -> Cycles \cup {NoCycle}]
  BY <1>0 DEF ProcessorTypeOK
<1>2. \/ status' = [status EXCEPT ![c] = "processing"] /\ by' = by
      \/ status' = [status EXCEPT ![c] = "over"] /\ by' = [by EXCEPT ![c] = NoCycle]
  BY DEF Start
<1>3. /\ Apart(queue, Hands, line') /\ c \in At(queue, Hands, line)
      /\ At(queue, Hands, line') = At(queue, Hands, line) \ {c}
      /\ Elements(line') = Elements(line) \ {c}
  BY <1>0, LineMoves
<1>4. status[c] = "pending" /\ c \notin dropped
  BY <1>3 DEF PlaceInv, Placed
<1>5. Hands' = Hands /\ OpenHands'
  BY <1>0 DEF Hands, OpenHands
<1>6. ASSUME NEW d \in Callers
      PROVE  Placed(d)'
  <2>1. CASE d = c
    BY <1>0, <1>1, <1>2, <1>3, <1>4, <1>5, <2>1 DEF PlaceInv, Placed
  <2>2. CASE d # c
    <3>1. status'[d] = status[d] /\ by'[d] = by[d]
      BY <1>1, <1>2, <2>2
    <3> QED
      BY <1>0, <1>3, <1>5, <2>2, <3>1 DEF PlaceInv, Placed
  <2> QED
    BY <2>1, <2>2
<1> QED
  BY <1>0, <1>3, <1>5, <1>6 DEF PlaceInv

LEMMA EndPlaces ==
  ASSUME CallsInv, PlaceInv, NEW c \in Callers, End(c)
  PROVE  PlaceInv'
<1>1. /\ status \in [Callers -> {"new", "pending", "processing", "over"}]
      /\ by \in [Callers -> Cycles \cup {NoCycle}]
      /\ status[c] = "processing"
      /\ status' = [status EXCEPT ![c] = "over"] /\ by' = [by EXCEPT ![c] = NoCycle]
      /\ UNCHANGED <<caller, queue, cycle, line, dropped>>
  BY DEF CallsInv, ProcessorTypeOK, End
<1>2. Hands' = Hands /\ (OpenHands => OpenHands')
  BY <1>1 DEF Hands, OpenHands
<1>3. ASSUME NEW d \in Callers
      PROVE  Placed(d)'
  <2>1. CASE d = c
    BY <1>1, <1>2, <2>1 DEF PlaceInv, Placed
  <2>2. CASE d # c
    BY <1>1, <1>2, <2>2 DEF PlaceInv, Placed
  <2> QED
    BY <2>1, <2>2
<1> QED
  BY <1>1, <1>2, <1>3 DEF PlaceInv

LEMMA StillPlaces ==
  ASSUME PlaceInv, UNCHANGED <<status, queue, cycle, line, by, dropped>>,
         \A c \in Callers : caller'[c] = "out" => caller[c] = "out"
  PROVE  PlaceInv'
<1>1. Hands' = Hands /\ OpenHands'
  BY DEF Hands, PlaceInv, OpenHands
<1>2. \A c \in Callers : Placed(c)'
  BY <1>1 DEF PlaceInv, Placed
<1> QED
  BY <1>1, <1>2 DEF PlaceInv

LEMMA NextPlaces ==
  ASSUME CallsInv, PlaceInv, [CallsNext]_allVars
  PROVE  PlaceInv'
<1>1. ASSUME NEW c \in Callers, Direct(c)
      PROVE  PlaceInv'
  BY <1>1, StillPlaces DEF Direct, callVars
<1>2. ASSUME NEW c \in Callers, Back(c)
      PROVE  PlaceInv'
  <2>1. \A d \in Callers : caller'[d] = "out" => caller[d] = "out"
    BY <1>2 DEF Back, CallsInv, ProcessorTypeOK
  <2> QED
    BY <1>2, <2>1, StillPlaces DEF Back
<1>3. ASSUME NEW c \in Callers, CancelCaller(c)
      PROVE  PlaceInv'
  BY <1>3, CutPlaces DEF CancelCaller, Cycles
<1>4. ASSUME NEW c \in Callers, Invoke(c) \/ Start(c) \/ End(c)
      PROVE  PlaceInv'
  BY <1>4, InvokePlaces, StartPlaces, EndPlaces
<1>5. ASSUME NEW k \in Cycles, Turn(k)
      PROVE  PlaceInv'
  <2>1. CASE Finish(k)
    BY <2>1, LeavePlaces DEF Finish
  <2>2. CASE FinishCut(k)
    BY <2>2, LeavePlaces DEF FinishCut
  <2> QED
    BY <1>5, <2>1, <2>2, GrantPlaces, DeferPlaces DEF Turn
<1>6. CASE Close
  <2>1. UNCHANGED <<status, queue, caller>>
    BY <1>6 DEF Close
  <2>2. CASE Cut(Timer)
    BY <2>1, <2>2, CutPlaces DEF Cycles
  <2>3. CASE UNCHANGED <<cycle, line, by, dropped>>
    BY <2>1, <2>3, StillPlaces
  <2> QED
    BY <1>6, <2>2, <2>3 DEF Close
<1>7. CASE Pass \/ UNCHANGED allVars
  BY <1>7, StillPlaces DEF Pass, allVars, callVars
<1> QED
  BY <1>1, <1>2, <1>3, <1>4, <1>5, <1>6, <1>7, ReplenishPlaces DEF CallsNext

(* Processor.process: however often it is deferred and by whichever cycle, *)
(* a pending call is in exactly one place, and one that was started is in  *)
(* none; only the cancellation of a cycle drops one.                       *)
THEOREM EachHasOnePlace == CallsSpec => []OnePlace
<1>1. PlaceInv => OnePlace
  <2> SUFFICES ASSUME PlaceInv, NEW c \in Callers
               PROVE  Places(c) = IF status[c] = "pending" /\ c \notin dropped THEN 1 ELSE 0
    BY DEF OnePlace
  <2> DEFINE inQueue == {i \in DOMAIN queue : queue[i] = c}
             inHand == {k \in Cycles : cycle[k].hand = c}
             inLine == {i \in DOMAIN line : line[i] = c}
  <2>0. Apart(queue, Hands, line) /\ c # NoCall
    BY ModelAssumption DEF PlaceInv
  <2>1. Cardinality(inQueue) = IF c \in Elements(queue) THEN 1 ELSE 0
    <3>1. CASE c \in Elements(queue)
      <4>1. PICK i \in DOMAIN queue : queue[i] = c
        BY <3>1 DEF Elements
      <4>2. inQueue = {i}
        BY <2>0, <4>1 DEF Apart, NoRepeats
      <4> QED
        BY <3>1, <4>2, FS_Singleton
    <3>2. CASE c \notin Elements(queue)
      <4>1. inQueue = {}
        BY <3>2 DEF Elements
      <4> QED
        BY <3>2, <4>1, FS_EmptySet
    <3> QED
      BY <3>1, <3>2
  <2>2. Cardinality(inHand) = IF c \in Held(Hands) THEN 1 ELSE 0
    <3>0. \A k \in Cycles : Hands[k] = cycle[k].hand
      BY DEF Hands
    <3>1. CASE c \in Held(Hands)
      <4>1. PICK k \in Cycles : Hands[k] = c
        BY <3>1 DEF Held
      <4>2. inHand = {k}
        BY <2>0, <3>0, <4>1 DEF Apart
      <4> QED
        BY <3>1, <4>2, FS_Singleton
    <3>2. CASE c \notin Held(Hands)
      <4>1. inHand = {}
        BY <2>0, <3>0, <3>2 DEF Held
      <4> QED
        BY <3>2, <4>1, FS_EmptySet
    <3> QED
      BY <3>1, <3>2
  <2>3. Cardinality(inLine) = IF c \in Elements(line) THEN 1 ELSE 0
    <3>1. CASE c \in Elements(line)
      <4>1. PICK i \in DOMAIN line : line[i] = c
        BY <3>1 DEF Elements
      <4>2. inLine = {i}
        BY <2>0, <4>1 DEF Apart, NoRepeats
      <4> QED
        BY <3>1, <4>2, FS_Singleton
    <3>2. CASE c \notin Elements(line)
      <4>1. inLine = {}
        BY <3>2 DEF Elements
      <4> QED
        BY <3>2, <4>1, FS_EmptySet
    <3> QED
      BY <3>1, <3>2
  <2>4. /\ c \in Elements(queue) => c \notin Held(Hands) /\ c \notin Elements(line)
        /\ c \in Held(Hands) => c \notin Elements(line)
    BY <2>0 DEF Apart
  <2>5. Places(c) = Cardinality(inQueue) + Cardinality(inHand) + Cardinality(inLine)
    BY DEF Places
  <2>6. c \in At(queue, Hands, line) <=> status[c] = "pending" /\ c \notin dropped
    BY DEF PlaceInv, Placed
  <2> HIDE DEF inQueue, inHand, inLine
  <2>7. Places(c) = IF c \in At(queue, Hands, line) THEN 1 ELSE 0
    BY <2>1, <2>2, <2>3, <2>4, <2>5 DEF At
  <2> QED
    BY <2>6, <2>7
<1>2. CallsInv /\ PlaceInv /\ [CallsNext]_allVars => PlaceInv'
  BY NextPlaces
<1> QED
  BY <1>1, <1>2, InitPlaces, CallsInvariant, PTL DEF CallsSpec

=============================================================================
