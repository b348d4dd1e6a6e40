----------------------------- MODULE ModelCalls -----------------------------
(***************************************************************************)
(* Calls through a model's shared processor to its endpoint:               *)
(* iModel.invoke (lionagi/service/imodel.py), Executor.forward and         *)
(* Processor.process (lionagi/protocols/generic/processor.py), the limits  *)
(* of RateLimitedAPIProcessor (lionagi/service/rate_limited_processor.py)  *)
(* and, behind them, the circuit breaker of the endpoint.                  *)
(*                                                                         *)
(* Every caller of invoke() runs a cycle of process() over the one queue,  *)
(* and so does the replenisher: a cycle grants calls of anybody, and waits *)
(* for those it granted.  Only the wait for the lock of the limits lets    *)
(* another task in between taking an event and granting it; without        *)
(* limits a cycle grants in one go.                                        *)
(***************************************************************************)
EXTENDS CircuitBreaker, Enumeration

CONSTANTS
  Configurations, \* models, as records of type Models
  Timer,          \* the replenisher
  NoCall,
  NoCycle

Cycles == Callers \cup {Timer}

(* A model: who calls its endpoint past the processor, who through invoke, *)
(* once or again and again, whether a breaker guards the endpoint, the     *)
(* limits set and what each call costs, queue_capacity, concurrency_limit, *)
(* and how many cancellations and closes befall it.                        *)
Models ==
  [direct : SUBSET Callers, routed : SUBSET Callers, again : BOOLEAN,
   breaker : BOOLEAN, limits : SUBSET {"requests", "tokens"},
   requests : Nat, tokens : Nat, cost : [Callers -> Nat],
   capacity : Nat \ {0}, slots : Nat \ {0}, cancels : Nat, closes : Nat]

ASSUME ModelAssumption ==
  /\ Configurations \subseteq Models
  /\ Timer \notin Callers
  /\ NoCall \notin Callers
  /\ NoCycle \notin Cycles

VARIABLES
  conf,     \* the model
  status,   \* of each call's event: new, pending, processing or over
  caller,   \* of each call: out, driving a cycle, waiting or back
  queue,    \* the processor's queue
  cycle,    \* per driver: its phase and its locals
  line,     \* granted calls waiting for the semaphore, first come first served
  by,       \* the cycle whose task group holds the granted call
  capacity, \* _available_capacity; cycles that look at once drive it below 0
  budget,   \* _available_requests and _available_tokens
  timer,    \* none, asleep, driving or dead
  faults,   \* cancellations and closes still to come
  spent,    \* history: what was granted since the limits were last reset
  dropped   \* history: calls that lost their place to a cancellation

callVars == <<conf, status, caller, queue, cycle, line, by, capacity, budget,
              timer, faults, spent, dropped>>
allVars == <<vars, callVars>>

Nothing == [requests |-> 0, tokens |-> 0]
Limits == [requests |-> conf.requests, tokens |-> conf.tokens]

\* deferred and events_processed > 0, the locals of process().
Off == [phase |-> "off", hand |-> NoCall, deferred |-> 0, progress |-> FALSE]

CallsInit ==
  /\ Init
  /\ conf \in Configurations
  /\ status = [c \in Callers |-> "new"]
  /\ caller = [c \in Callers |-> "out"]
  /\ queue = <<>>
  /\ cycle = [k \in Cycles |-> Off]
  /\ line = <<>>
  /\ by = [c \in Callers |-> NoCycle]
  /\ capacity = conf.capacity
  /\ budget = Limits
  /\ timer = "none"
  /\ faults = [cancels |-> conf.cancels, closes |-> conf.closes]
  /\ spent = Nothing
  /\ dropped = {}

-----------------------------------------------------------------------------
(* A cycle.                                                                *)

Group(k) == {c \in Callers : by[c] = k}
Running == {c \in Callers : status[c] = "processing"}

(* The head of the loop: the next event is taken and permission asked, or  *)
(* the cycle goes on to wait for its task group.                           *)
Look(k, q, deferred, progress) ==
  IF capacity' > 0 /\ q # <<>>
    THEN /\ cycle' = [cycle EXCEPT ![k] =
                       [phase |-> "asking", hand |-> Head(q),
                        deferred |-> deferred, progress |-> progress]]
         /\ queue' = Tail(q)
    ELSE /\ cycle' = [cycle EXCEPT ![k] =
                       [Off EXCEPT !.phase = "group", !.progress = progress]]
         /\ queue' = q

\* Without limits a queue longer than queue_capacity is denied as a whole.
Granted(q) ==
  IF Len(q) > conf.capacity \/ capacity < 0 THEN 0
  ELSE IF Len(q) < capacity THEN Len(q) ELSE capacity

Sweep(k, q) ==
  LET n == Granted(q) IN
  /\ line' = line \o SubSeq(q, 1, n)
  /\ queue' = SubSeq(q, n + 1, Len(q))
  /\ by' = [c \in Callers |-> IF \E i \in 1..n : q[i] = c THEN k ELSE by[c]]
  /\ capacity' = capacity - n
  /\ cycle' = [cycle EXCEPT ![k] =
                [Off EXCEPT !.phase = "group", !.progress = n > 0]]

\* process() from its call to its first wait.
Drive(k, q) ==
  \/ conf.limits = {} /\ Sweep(k, q)
  \/ conf.limits # {} /\ UNCHANGED <<line, by, capacity>> /\ Look(k, q, 0, FALSE)

\* Broken variant: a call is let through if there is a request left for it.
Permitted_TokensUnchecked(c) == "requests" \in conf.limits => budget.requests >= 1
\* request_permission: both limits are checked before either is charged.
Permitted(c) ==
  /\ "requests" \in conf.limits => budget.requests >= 1
  /\ "tokens" \in conf.limits => budget.tokens >= conf.cost[c]

Charge(c) == [requests |-> IF "requests" \in conf.limits THEN 1 ELSE 0,
              tokens |-> IF "tokens" \in conf.limits THEN conf.cost[c] ELSE 0]

\* A cycle gets the lock and its event is granted.
Grant(k) ==
  /\ cycle[k].phase = "asking"
  /\ LET c == cycle[k].hand IN
     /\ Permitted(c)
     /\ budget' = [f \in DOMAIN budget |-> budget[f] - Charge(c)[f]]
     /\ spent' = [f \in DOMAIN spent |-> spent[f] + Charge(c)[f]]
     /\ line' = Append(line, c)
     /\ by' = [by EXCEPT ![c] = k]
  /\ capacity' = capacity - 1
  /\ Look(k, queue, 0, TRUE)
  /\ UNCHANGED <<vars, conf, status, caller, timer, faults, dropped>>

\* Broken variant: a denied event is not put back.
Defer_Drops(k) ==
  /\ cycle[k].phase = "asking"
  /\ ~Permitted(cycle[k].hand)
  /\ UNCHANGED capacity
  /\ Look(k, queue, cycle[k].deferred + 1, cycle[k].progress)
  /\ UNCHANGED <<vars, conf, status, caller, line, by, budget, timer, faults, spent, dropped>>

(* It gets the lock and its event is denied: back to the end of the queue, *)
(* and on until as many were deferred in a row as the queue holds.         *)
Defer(k) ==
  /\ cycle[k].phase = "asking"
  /\ ~Permitted(cycle[k].hand)
  /\ UNCHANGED capacity
  /\ LET q == Append(queue, cycle[k].hand)
         deferred == cycle[k].deferred + 1
     IN \/ /\ deferred < Len(q)
           /\ Look(k, q, deferred, cycle[k].progress)
        \/ /\ deferred >= Len(q)
           /\ queue' = q
           /\ cycle' = [cycle EXCEPT ![k] =
                         [Off EXCEPT !.phase = "group", !.progress = cycle[k].progress]]
  /\ UNCHANGED <<vars, conf, status, caller, line, by, budget, timer, faults, spent, dropped>>

\* The driver's next state when its cycle is behind it.
DriverLeaves(k, to) ==
  /\ caller' = IF k = Timer THEN caller ELSE [caller EXCEPT ![k] = to]
  /\ timer' = IF k = Timer /\ timer = "driving" THEN "asleep" ELSE timer

\* Broken variant: only the last cycle under way gives the capacity back.
Finish_KeepsCapacity(k) ==
  /\ cycle[k].phase = "group"
  /\ Group(k) = {}
  /\ capacity' = IF \A j \in Cycles \ {k} : cycle[j].phase = "off" /\ cycle[k].progress
                   THEN conf.capacity ELSE capacity
  /\ cycle' = [cycle EXCEPT ![k] = Off]
  /\ DriverLeaves(k, "waiting")
  /\ UNCHANGED <<vars, conf, status, queue, line, by, budget, faults, spent, dropped>>

\* All calls of the group have ended: a cycle that granted any refills the capacity.
Finish(k) ==
  /\ cycle[k].phase = "group"
  /\ Group(k) = {}
  /\ capacity' = IF cycle[k].progress THEN conf.capacity ELSE capacity
  /\ cycle' = [cycle EXCEPT ![k] = Off]
  /\ DriverLeaves(k, "waiting")
  /\ UNCHANGED <<vars, conf, status, queue, line, by, budget, faults, spent, dropped>>

(* Cancellation of a driver: the event in its hand and the calls of its    *)
(* group that wait for the semaphore are in no place any more, and those   *)
(* that run are cancelled.                                                 *)
Cut(k) ==
  LET lost == {c \in Group(k) : c \notin Running} \cup ({cycle[k].hand} \ {NoCall}) IN
  /\ cycle[k].phase \in {"asking", "group"}
  /\ cycle' = [cycle EXCEPT ![k] = [Off EXCEPT !.phase = "cut"]]
  /\ dropped' = dropped \cup lost
  /\ line' = Without(line, lost)
  /\ by' = [c \in Callers |-> IF c \in lost THEN NoCycle ELSE by[c]]

\* The cancelled tasks are gone; nothing is refilled.
FinishCut(k) ==
  /\ cycle[k].phase = "cut"
  /\ Group(k) = {}
  /\ cycle' = [cycle EXCEPT ![k] = Off]
  /\ DriverLeaves(k, "back")
  /\ UNCHANGED <<vars, conf, status, queue, line, by, capacity, budget, faults, spent, dropped>>

-----------------------------------------------------------------------------
(* Calls.                                                                  *)

(* invoke(): the processor is started, with its replenisher when there is  *)
(* none yet, and the event forwarded.  A stopped one is started without.   *)
Invoke(c) ==
  /\ c \in conf.routed
  /\ \/ caller[c] = "out"
     \/ conf.again /\ caller[c] = "back" /\ status[c] = "over"
  /\ caller' = [caller EXCEPT ![c] = "driving"]
  /\ status' = [status EXCEPT ![c] = "pending"]
  /\ timer' = IF timer = "none" THEN "asleep" ELSE timer
  /\ Drive(c, Append(queue, c))
  /\ UNCHANGED <<vars, conf, budget, faults, spent, dropped>>

\* invoke() returns: its call is over, or ten seconds are.
Back(c) ==
  /\ caller[c] = "waiting"
  /\ caller' = [caller EXCEPT ![c] = "back"]
  /\ UNCHANGED <<vars, conf, status, queue, cycle, line, by, capacity, budget,
                 timer, faults, spent, dropped>>

\* Cancelled while waiting it just leaves; while driving it cuts its cycle.
CancelCaller(c) ==
  /\ faults.cancels > 0
  /\ caller[c] = "driving"
  /\ Cut(c)
  /\ faults' = [faults EXCEPT !.cancels = @ - 1]
  /\ UNCHANGED <<vars, conf, status, caller, queue, capacity, budget, timer, spent>>

\* The next call in line gets the semaphore and goes to the endpoint.
Start(c) ==
  /\ line # <<>> /\ c = Head(line)
  /\ Cardinality(Running) < conf.slots
  /\ line' = Tail(line)
  /\ \/ /\ conf.breaker
        /\ Admit(c) \/ Probe(c)
        /\ status' = [status EXCEPT ![c] = "processing"]
        /\ UNCHANGED by
     \/ /\ conf.breaker
        /\ Reject(c)
        /\ status' = [status EXCEPT ![c] = "over"]
        /\ by' = [by EXCEPT ![c] = NoCycle]
     \/ /\ ~conf.breaker
        /\ status' = [status EXCEPT ![c] = "processing"]
        /\ UNCHANGED <<vars, by>>
  /\ UNCHANGED <<conf, caller, queue, cycle, capacity, budget, timer, faults, spent, dropped>>

\* A call ends, one of a cut group by its cancellation.
End(c) ==
  /\ status[c] = "processing"
  /\ status' = [status EXCEPT ![c] = "over"]
  /\ by' = [by EXCEPT ![c] = NoCycle]
  /\ \/ conf.breaker /\ Ends(c) /\ (cycle[by[c]].phase = "cut" => Vanish(c))
     \/ ~conf.breaker /\ UNCHANGED vars
  /\ UNCHANGED <<conf, caller, queue, cycle, line, capacity, budget, timer,
                 faults, spent, dropped>>

-----------------------------------------------------------------------------
(* The replenisher.                                                        *)

\* Broken variant: the limits are reset and the queue left alone.
Replenish_NoDrive ==
  /\ timer = "asleep"
  /\ budget' = Limits
  /\ spent' = Nothing
  /\ UNCHANGED <<vars, conf, status, caller, queue, cycle, line, by, capacity,
                 timer, faults, dropped>>

\* Its sleep is over: the limits are reset, and what was deferred is driven.
Replenish ==
  /\ timer = "asleep"
  /\ budget' = Limits
  /\ spent' = Nothing
  /\ \/ /\ queue = <<>>
        /\ UNCHANGED <<queue, cycle, line, by, capacity, timer>>
     \/ /\ queue # <<>>
        /\ timer' = "driving"
        /\ Drive(Timer, queue)
  /\ UNCHANGED <<vars, conf, status, caller, faults, dropped>>

\* close(): the replenisher is cancelled, wherever it is, and never comes back.
Close ==
  /\ faults.closes > 0
  /\ \/ timer = "asleep" /\ UNCHANGED <<cycle, line, by, dropped>>
     \/ timer = "driving" /\ Cut(Timer)
  /\ timer' = "dead"
  /\ faults' = [faults EXCEPT !.closes = @ - 1]
  /\ UNCHANGED <<vars, conf, status, caller, queue, capacity, budget, spent>>

-----------------------------------------------------------------------------
\* Calls of the endpoint that bypass the processor, and time.
Direct(c) == c \in conf.direct /\ (Call(c) \/ Ends(c)) /\ UNCHANGED callVars
Pass == conf.breaker /\ Tick /\ UNCHANGED callVars

Turn(k) == Grant(k) \/ Defer(k) \/ Finish(k) \/ FinishCut(k)

CallsNext ==
  \/ \E c \in Callers :
       Direct(c) \/ Invoke(c) \/ Back(c) \/ CancelCaller(c) \/ Start(c) \/ End(c)
  \/ \E k \in Cycles : Turn(k)
  \/ Replenish \/ Close \/ Pass

CallsSpec == CallsInit /\ [][CallsNext]_allVars

\* What a caller or its call does of its own accord; never two that vie for long.
Proceed(c) ==
  \/ Invoke(c) \/ Back(c) \/ End(c)
  \/ c \in conf.direct /\ (Ends(c) \/ Admit(c) \/ Probe(c)) /\ UNCHANGED callVars

(* Cycles go on, calls get their slot and end, the replenisher wakes up,   *)
(* time passes, and callers keep calling.                                  *)
CallsFairness ==
  /\ WF_allVars(Replenish)
  /\ WF_allVars(Pass)
  /\ WF_allVars(\E c \in Callers : Start(c))
  /\ \A c \in Callers : WF_allVars(Proceed(c))
  /\ \A k \in Cycles : WF_allVars(Turn(k))

CallsFairSpec == CallsSpec /\ CallsFairness

-----------------------------------------------------------------------------
\* What is in line, OnePlace says.
ProcessorTypeOK ==
  /\ conf \in Configurations
  /\ status \in [Callers -> {"new", "pending", "processing", "over"}]
  /\ caller \in [Callers -> {"out", "driving", "waiting", "back"}]
  /\ queue \in Seq(Callers)
  /\ cycle \in [Cycles -> [phase : {"off", "asking", "group", "cut"},
                           hand : Callers \cup {NoCall},
                           deferred : Nat, progress : BOOLEAN]]
  /\ by \in [Callers -> Cycles \cup {NoCycle}]
  /\ capacity \in Int /\ capacity <= conf.capacity
  /\ budget \in [requests : Int, tokens : Int]
  /\ timer \in {"none", "asleep", "driving", "dead"}
  /\ faults \in [cancels : Nat, closes : Nat]
  /\ spent \in [requests : Nat, tokens : Nat]
  /\ dropped \subseteq Callers

CallsTypeOK == TypeOK /\ ProcessorTypeOK

(* However many cycles ask at once, what is granted between two resets     *)
(* stays within both limits.                                               *)
GrantsWithinLimits ==
  /\ "requests" \in conf.limits => spent.requests <= conf.requests
  /\ "tokens" \in conf.limits => spent.tokens <= conf.tokens

(* How often c is in the queue, in a cycle's hand or in line.              *)
Places(c) ==
  Cardinality({i \in DOMAIN queue : queue[i] = c})
    + Cardinality({k \in Cycles : cycle[k].hand = c})
    + Cardinality({i \in DOMAIN line : line[i] = c})

(* A pending call is in exactly one place, on its way to the endpoint,     *)
(* however often it was deferred and by whichever cycle; only the          *)
(* cancellation of a cycle drops the ones it had taken.  A call that is    *)
(* under way or over is in none and cannot be run again.                   *)
OnePlace ==
  \A c \in Callers :
    Places(c) = IF status[c] = "pending" /\ c \notin dropped THEN 1 ELSE 0

(* When every cycle is over the capacity is whole again, unless a cycle    *)
(* was cut: overlapping cycles that each take from it and refill it leave  *)
(* nothing missing.                                                        *)
CapacityComesBack ==
  (faults = [cancels |-> conf.cancels, closes |-> conf.closes]
    /\ \A k \in Cycles : cycle[k].phase = "off") => capacity = conf.capacity

\* The code can lose the means to grant anything: see README.
Jammed ==
  \/ conf.limits = {} /\ Len(queue) > conf.capacity
  \/ capacity <= 0 /\ \A k \in Cycles : ~cycle[k].progress
TooBig(c) ==
  \/ "tokens" \in conf.limits /\ conf.cost[c] > conf.tokens
  \/ "requests" \in conf.limits /\ conf.requests = 0

(* Every call that was forwarded gets its turn, long after its caller gave *)
(* up if need be: unless it was dropped, can never fit the limits, the     *)
(* replenisher is gone or the processor jammed.                            *)
EveryCallEnds ==
  \A c \in Callers :
    status[c] = "pending"
      ~> (status[c] # "pending" \/ c \in dropped \/ TooBig(c) \/ Jammed \/ timer = "dead")
=============================================================================
