----------------------------- MODULE TaskWorker -----------------------------
(***************************************************************************)
(* The durable ad-hoc task queue (ADR-0071): submission and cancellation   *)
(* (lionagi/studio/services/task_applications.py), admission               *)
(* (studio/scheduler/admit.py) and the worker tick that reaps lapsed       *)
(* leases, claims and executes (studio/scheduler/worker.py).               *)
(*                                                                         *)
(* A worker captures the clock once per tick, reads the lapsed leases, and *)
(* writes them back one by one; then reads the queue, and for each         *)
(* candidate asks admit(), claims, executes and settles it, all in         *)
(* separate transactions that other workers, submitters and cancellers     *)
(* interleave with.                                                        *)
(***************************************************************************)
EXTENDS Integers, FiniteSets

CONSTANTS
  Tasks,            \* schedule_runs rows, numbered in (queued_at, id) order
  Workers,          \* worker ids
  NoWorker,         \* leased_by = NULL
  NoKey,            \* concurrency_key = NULL
  NoLease,          \* lease_expires_at = NULL
  Applications,     \* what is submitted, see ApplicationType
  SubmitTTL,        \* DEFAULT_LEASE_TTL_SECONDS, as submit_task reads it
  LeaseTTL,         \* the workers' lease_ttl
  MaxLeaseAttempts, \* MAX_LEASE_ATTEMPTS
  WaiterCap,        \* key_concurrency * waiter_cap_multiplier
  Limit,            \* claim attempts per pass
  SlotsContended,   \* TRUE: reserve_slot may refuse
  Horizon,          \* bound on the clock
  MaxCrashes        \* bound on passes cut short

\* key: concurrency_key; dur: max_duration_seconds; parks:
\* allow_deferred_over_cap; notify: a notify request; served, warm: the
\* workers that advertise its required and its affinity capabilities.
ApplicationType(a) ==
  /\ DOMAIN a = {"key", "dur", "parks", "notify", "served", "warm"}
  /\ a.dur \in Nat
  /\ a.parks \in BOOLEAN
  /\ a.notify \in BOOLEAN
  /\ a.served \subseteq Workers
  /\ a.warm \subseteq Workers

ASSUME ParameterAssumption ==
  /\ Tasks \subseteq Nat
  /\ NoWorker \notin Workers
  /\ NoLease \notin Nat
  /\ Applications # {}
  /\ \A a \in Applications : ApplicationType(a)
  /\ {SubmitTTL, LeaseTTL, MaxLeaseAttempts, WaiterCap, Limit} \subseteq Nat
  /\ {Horizon, MaxCrashes} \subseteq Nat
  /\ SlotsContended \in BOOLEAN

VARIABLES
  status,   \* schedule_runs.status; "checked" once submit_task's pre-check passed
  app,      \* the columns submission writes
  holder,   \* leased_by
  expiry,   \* lease_expires_at
  tries,    \* lease_attempts
  pc,       \* where each worker is in its tick
  tick,     \* the now each worker captured when its tick began
  lapsed,   \* the expired leases the reaper read and has not come to yet
  queue,    \* the candidates of the claim pass still to be examined
  held,     \* WorkerCaps.claimed_keys
  job,      \* the candidate being examined, or the claim being executed
  clock,
  crashes,
  notices,  \* tasks whose rejection was put in the dispatch outbox
  claims    \* history: how often each task was claimed

taskVars == <<status, app, holder, expiry, tries>>
workerVars == <<pc, tick, lapsed, queue, held, job>>
vars == <<taskVars, workerVars, clock, crashes, notices, claims>>

Terminal == {"completed", "failed", "timed_out", "skipped", "cancelled"}
Outcomes == {"completed", "failed", "timed_out"}

NoJob == [task |-> 0, tries |-> 0, claim |-> 0, out |-> "failed"]

Init ==
  /\ status = [r \in Tasks |-> "absent"]
  /\ app = [r \in Tasks |-> CHOOSE a \in Applications : TRUE]
  /\ holder = [r \in Tasks |-> NoWorker]
  /\ expiry = [r \in Tasks |-> NoLease]
  /\ tries = [r \in Tasks |-> 0]
  /\ pc = [w \in Workers |-> "idle"]
  /\ tick = [w \in Workers |-> 0]
  /\ lapsed = [w \in Workers |-> {}]
  /\ queue = [w \in Workers |-> {}]
  /\ held = [w \in Workers |-> {}]
  /\ job = [w \in Workers |-> NoJob]
  /\ clock = 0
  /\ crashes = 0
  /\ notices = {}
  /\ claims = [r \in Tasks |-> 0]

-----------------------------------------------------------------------------
(* What admission reads of the queue.                                      *)

Running(k) == {r \in Tasks : status[r] = "running" /\ app[r].key = k}
Waiting(k) == {r \in Tasks : status[r] = "queued" /\ app[r].key = k}
Ahead(r) == {q \in Waiting(app[r].key) : q < r}

RunningKeys == {app[r].key : r \in {q \in Tasks : status[q] = "running"}} \ {NoKey}

-----------------------------------------------------------------------------
(* submit_task: queued_at is taken first, then the advisory pre-check, and *)
(* the INSERT in a transaction of its own.                                 *)
Check(r, a) ==
  /\ status[r] = "absent"
  /\ \A q \in Tasks : q < r => status[q] # "absent"
  /\ a.dur < SubmitTTL
  /\ \/ a.key = NoKey
     \/ a.parks
     \/ Running(a.key) = {}
     \/ Cardinality(Waiting(a.key)) < WaiterCap
  /\ status' = [status EXCEPT ![r] = "checked"]
  /\ app' = [app EXCEPT ![r] = a]
  /\ UNCHANGED <<holder, expiry, tries, workerVars, clock, crashes, notices, claims>>

Insert(r) ==
  /\ status[r] = "checked"
  /\ status' = [status EXCEPT ![r] = "queued"]
  /\ UNCHANGED <<app, holder, expiry, tries, workerVars, clock, crashes, notices, claims>>

\* cancel_task: queued -> cancelled only; the lease columns stay as they are.
Cancel(r) ==
  /\ status[r] = "queued"
  /\ status' = [status EXCEPT ![r] = "cancelled"]
  /\ UNCHANGED <<app, holder, expiry, tries, workerVars, clock, crashes, notices, claims>>

-----------------------------------------------------------------------------
(* worker_tick: heartbeat, reap, claim.                                    *)

\* Broken variant: a lease is lapsed at its last moment already.
Lapsed_Inclusive == {r \in Tasks : status[r] = "running" /\ expiry[r] <= clock}

\* running AND lease_expires_at < now.
Lapsed == {r \in Tasks : status[r] = "running" /\ expiry[r] < clock}

\* Capture now, then the reaper's read.  The heartbeat row is left out: a tick
\* writes it with the very now it compares it with, so it is never stale.
Begin(w) ==
  /\ pc[w] = "idle"
  /\ pc' = [pc EXCEPT ![w] = "reaping"]
  /\ tick' = [tick EXCEPT ![w] = clock]
  /\ lapsed' = [lapsed EXCEPT ![w] =
       {[task |-> r, tries |-> tries[r], expiry |-> expiry[r]] : r \in Lapsed}]
  /\ UNCHANGED <<taskVars, queue, held, job, clock, crashes, notices, claims>>

\* Broken variant: the reaper's write is guarded by the status alone.
StillLapsed_StatusOnly(x) == status[x.task] = "running"

StillLapsed(x) == status[x.task] = "running" /\ expiry[x.task] = x.expiry

\* Broken variant: off by one.
SpentLeases_OffByOne(x) == x.tries > MaxLeaseAttempts

SpentLeases(x) == x.tries >= MaxLeaseAttempts

Release(r) ==
  /\ holder' = [holder EXCEPT ![r] = NoWorker]
  /\ expiry' = [expiry EXCEPT ![r] = NoLease]

(* reap_expired_leases, one row: requeue it, or fail it for good once its  *)
(* leases are spent; neither if the lease is not the one that was read.    *)
Reap(w, x) ==
  /\ pc[w] = "reaping"
  /\ x \in lapsed[w]
  /\ lapsed' = [lapsed EXCEPT ![w] = @ \ {x}]
  /\ \/ /\ StillLapsed(x)
        /\ SpentLeases(x)
        /\ status' = [status EXCEPT ![x.task] = "failed"]
        /\ UNCHANGED <<holder, expiry>>
     \/ /\ StillLapsed(x)
        /\ ~SpentLeases(x)
        /\ status' = [status EXCEPT ![x.task] = "queued"]
        /\ Release(x.task)
     \/ /\ ~StillLapsed(x)
        /\ UNCHANGED <<status, holder, expiry>>
  /\ UNCHANGED <<app, tries, pc, tick, queue, held, job, clock, crashes, notices, claims>>

-----------------------------------------------------------------------------
(* claim_and_execute.                                                      *)

TooLong(r) == app[r].dur >= LeaseTTL

\* candidate_order: over-long tasks first, then warm ones, then by age.
Rank(w, r) == (IF TooLong(r) THEN 0 ELSE 2) + (IF w \in app[r].warm THEN 0 ELSE 1)
Earlier(w, q, r) == Rank(w, q) < Rank(w, r) \/ (Rank(w, q) = Rank(w, r) /\ q < r)

Candidates(w) == {r \in Tasks : status[r] = "queued" /\ w \in app[r].served}

\* The first Limit candidates; one page holds every row of these instances.
FirstCandidates(w) ==
  {r \in Candidates(w) : Cardinality({q \in Candidates(w) : Earlier(w, q, r)}) < Limit}

\* On to the next candidate; the tick is over when none is left, and what the
\* worker kept for it is gone.
Goes(w, rest, keys) ==
  /\ pc' = [pc EXCEPT ![w] = IF rest = {} THEN "idle" ELSE "claiming"]
  /\ tick' = [tick EXCEPT ![w] = IF rest = {} THEN 0 ELSE @]
  /\ held' = [held EXCEPT ![w] = IF rest = {} THEN {} ELSE keys]
  /\ job' = [job EXCEPT ![w] = NoJob]

NextCandidate(w) == Goes(w, queue[w], held[w])

\* The reads of the pass: running keys and candidates.
BeginClaims(w) ==
  /\ pc[w] = "reaping"
  /\ lapsed[w] = {}
  /\ queue' = [queue EXCEPT ![w] =
       {[task |-> r, tries |-> tries[r]] : r \in FirstCandidates(w)}]
  /\ Goes(w, FirstCandidates(w), RunningKeys)
  /\ UNCHANGED <<taskVars, lapsed, clock, crashes, notices, claims>>

\* Broken variant: nobody looks for a holder.
KeyHeld_Unchecked(w, r) == FALSE

\* Broken variant: the holder query does not look at the status.
KeyHeld_AnyRow(w, r) == app[r].key # NoKey /\ \E q \in Tasks : q = r \/ app[q].key = app[r].key

KeyHeld(w, r) ==
  /\ app[r].key # NoKey
  /\ app[r].key \in held[w] \/ Running(app[r].key) # {}

OverCap(r) == Cardinality(Ahead(r)) >= WaiterCap

\* admit() refuses for good, or leaves the task queued for a later tick.
Refused(w, r) == TooLong(r) \/ (KeyHeld(w, r) /\ OverCap(r) /\ ~app[r].parks)
Deferred(w, r) ==
  ~TooLong(r) /\ KeyHeld(w, r) /\ (OverCap(r) => app[r].parks)

\* The next candidate in order, and what admit() says of it.
Admit(w, x) ==
  /\ pc[w] = "claiming"
  /\ x \in queue[w]
  /\ \A y \in queue[w] : ~Earlier(w, y.task, x.task)
  /\ queue' = [queue EXCEPT ![w] = @ \ {x}]
  /\ \/ /\ Deferred(w, x.task)
        /\ Goes(w, queue[w] \ {x}, held[w])
     \/ /\ ~Deferred(w, x.task)
        /\ pc' = [pc EXCEPT ![w] = IF Refused(w, x.task) THEN "refusing" ELSE "admitted"]
        /\ job' = [job EXCEPT ![w] = [NoJob EXCEPT !.task = x.task, !.tries = x.tries]]
        /\ UNCHANGED <<tick, held>>
  /\ UNCHANGED <<taskVars, lapsed, clock, crashes, notices, claims>>

(* _reject_claim: queued -> skipped, if it is still queued, and then the   *)
(* notification it asked for.                                              *)
Reject(w) ==
  /\ pc[w] = "refusing"
  /\ LET r == job[w].task
         wins == status[r] = "queued"
     IN  /\ status' = IF wins THEN [status EXCEPT ![r] = "skipped"] ELSE status
         /\ \/ /\ wins /\ app[r].notify
               /\ pc' = [pc EXCEPT ![w] = "notifying"]
               /\ UNCHANGED <<tick, held, job>>
            \/ /\ ~(wins /\ app[r].notify)
               /\ NextCandidate(w)
  /\ UNCHANGED <<app, holder, expiry, tries, lapsed, queue, clock, crashes, notices, claims>>

\* enqueue_dispatch, whose failure is contained.
Notify(w) ==
  /\ pc[w] = "notifying"
  /\ notices' \in {notices, notices \cup {job[w].task}}
  /\ NextCandidate(w)
  /\ UNCHANGED <<taskVars, lapsed, queue, clock, crashes, claims>>

\* No capacity: the task stays queued.
NoSlot(w) ==
  /\ SlotsContended
  /\ pc[w] = "admitted"
  /\ NextCandidate(w)
  /\ UNCHANGED <<taskVars, lapsed, queue, clock, crashes, notices, claims>>

LeaseEnd(w) == tick[w] + LeaseTTL

\* Broken variant: two claims of one task can both win.
ClaimWins_Unguarded(w) == TRUE

ClaimWins(w) == status[job[w].task] = "queued"

(* queued -> running, guarded by the status alone; the lease runs from the *)
(* tick's now and the attempt is counted from the snapshot.                *)
Claim(w) ==
  /\ pc[w] = "admitted"
  /\ LET r == job[w].task IN
     \/ /\ ClaimWins(w)
        /\ status' = [status EXCEPT ![r] = "running"]
        /\ holder' = [holder EXCEPT ![r] = w]
        /\ expiry' = [expiry EXCEPT ![r] = LeaseEnd(w)]
        /\ tries' = [tries EXCEPT ![r] = job[w].tries + 1]
        /\ claims' = [claims EXCEPT ![r] = @ + 1]
        /\ held' = [held EXCEPT ![w] = @ \cup ({app[r].key} \ {NoKey})]
        /\ job' = [job EXCEPT ![w].claim = claims[r] + 1]
        /\ pc' = [pc EXCEPT ![w] = "executing"]
        /\ UNCHANGED tick
     \/ /\ ~ClaimWins(w)
        /\ NextCandidate(w)
        /\ UNCHANGED <<status, holder, expiry, tries, claims>>
  /\ UNCHANGED <<app, lapsed, queue, clock, crashes, notices>>

\* execute() returns zero, returns non-zero or raises, or hits its deadline.
Exit(w, out) ==
  /\ pc[w] = "executing"
  /\ pc' = [pc EXCEPT ![w] = "settling"]
  /\ job' = [job EXCEPT ![w].out = out]
  /\ UNCHANGED <<taskVars, tick, lapsed, queue, held, clock, crashes, notices, claims>>

\* Broken variant: the terminal write does not name the lease.
OwnsLease_StatusOnly(w) == status[job[w].task] = "running"

\* lease_guard: still running under exactly this claim's lease.
OwnsLease(w) ==
  LET r == job[w].task
  IN  status[r] = "running" /\ holder[r] = w /\ expiry[r] = LeaseEnd(w)

\* The guarded terminal write; the lease columns stay as they are.
Settle(w) ==
  /\ pc[w] = "settling"
  /\ status' = IF OwnsLease(w) THEN [status EXCEPT ![job[w].task] = job[w].out] ELSE status
  /\ NextCandidate(w)
  /\ UNCHANGED <<app, holder, expiry, tries, lapsed, queue, clock, crashes, notices, claims>>

-----------------------------------------------------------------------------
\* The pass is cut short: the process dies, the task is cancelled or a read or
\* write raises.  Never so late that its leases cannot lapse within Horizon.
Crash(w) ==
  /\ pc[w] # "idle"
  /\ crashes < MaxCrashes
  /\ clock + LeaseTTL < Horizon
  /\ crashes' = crashes + 1
  /\ Goes(w, {}, {})
  /\ lapsed' = [lapsed EXCEPT ![w] = {}]
  /\ queue' = [queue EXCEPT ![w] = {}]
  /\ UNCHANGED <<taskVars, clock, notices, claims>>

Tick ==
  /\ clock < Horizon
  /\ clock' = clock + 1
  /\ UNCHANGED <<taskVars, pc, tick, lapsed, queue, held, job, crashes, notices, claims>>

Work(w) ==
  \/ \E x \in lapsed[w] : Reap(w, x)
  \/ BeginClaims(w)
  \/ \E x \in queue[w] : Admit(w, x)
  \/ Reject(w) \/ Notify(w) \/ NoSlot(w) \/ Claim(w)
  \/ \E out \in Outcomes : Exit(w, out)
  \/ Settle(w)

Next ==
  \/ \E r \in Tasks : \/ \E a \in Applications : Check(r, a)
                      \/ Insert(r) \/ Cancel(r)
  \/ \E w \in Workers : Begin(w) \/ Work(w) \/ Crash(w)
  \/ Tick

Spec == Init /\ [][Next]_vars

(* The scheduler loop starts a pass on every tick unless one is running,   *)
(* a started pass goes on, and time passes; nobody has to submit or cancel.*)
Fairness ==
  /\ WF_vars(Tick)
  /\ \A w \in Workers : WF_vars(Begin(w)) /\ WF_vars(Work(w))

FairSpec == Spec /\ Fairness

-----------------------------------------------------------------------------
PCs == {"idle", "reaping", "claiming", "refusing", "notifying", "admitted",
        "executing", "settling"}
Statuses == {"absent", "checked", "queued", "running"} \cup Terminal
Jobs == [task : Tasks, tries : Nat, claim : Nat, out : Outcomes]
Examining(w) ==
  pc[w] \in {"refusing", "notifying", "admitted", "executing", "settling"}
Executing(w) == pc[w] \in {"executing", "settling"}

TypeOK ==
  /\ status \in [Tasks -> Statuses]
  /\ app \in [Tasks -> Applications]
  /\ holder \in [Tasks -> Workers \cup {NoWorker}]
  /\ expiry \in [Tasks -> Nat \cup {NoLease}]
  /\ tries \in [Tasks -> Nat]
  /\ pc \in [Workers -> PCs]
  /\ tick \in [Workers -> Nat]
  /\ \A w \in Workers : tick[w] <= clock
  /\ lapsed \in [Workers -> SUBSET [task : Tasks, tries : Nat, expiry : Nat]]
  /\ queue \in [Workers -> SUBSET [task : Tasks, tries : Nat]]
  /\ held \in [Workers -> SUBSET {a.key : a \in Applications}]
  /\ job \in [Workers -> Jobs \cup {NoJob}]
  /\ \A w \in Workers : Examining(w) => job[w] \in Jobs
  /\ clock \in Nat
  /\ crashes \in Nat
  /\ notices \subseteq Tasks
  /\ claims \in [Tasks -> Nat]
  /\ \A r \in Tasks :
       /\ status[r] = "running" => holder[r] \in Workers /\ expiry[r] \in Nat
       /\ status[r] \in {"absent", "checked", "queued"} =>
            holder[r] = NoWorker /\ expiry[r] = NoLease

(* The lease names its claim: whenever the guard of a worker's terminal    *)
(* write passes, nobody has claimed the task since that worker did.  Work  *)
(* whose lease was reaped and given to another worker is dropped, however  *)
(* late it ends (_execute_claimed, lease_guard).                           *)
LeaseNamesClaim ==
  \A w \in Workers :
    Executing(w) /\ OwnsLease(w) => claims[job[w].task] = job[w].claim

(* A task is leased only from queued, and what has ended stays ended: no   *)
(* late claim, reap, refusal or settle of any worker revives a task or     *)
(* changes its outcome.                                                    *)
OutcomeIsFinal ==
  [][\A r \in Tasks : status[r] \in Terminal => status'[r] = status[r]]_vars

(* reap_expired_leases: a live lease is never touched, even by a reaper    *)
(* that read the lapsed lease before it.                                   *)
LiveLeaseNotReaped ==
  [][\A r \in Tasks :
       status[r] = "running" /\ status'[r] = "queued" => expiry[r] < clock]_vars

(* MAX_LEASE_ATTEMPTS: a task is handed out at most that often, so a task  *)
(* that kills its worker cannot be retried for ever.                       *)
HandOutsBounded == \A r \in Tasks : claims[r] <= MaxLeaseAttempts

(* admit(): at most one running task per concurrency_key.                  *)
OneRunningPerKey ==
  \A q, r \in Tasks :
    q # r /\ status[q] = "running" /\ status[r] = "running" =>
      app[q].key = NoKey \/ app[q].key # app[r].key

(* The lease is exclusive: a worker executes a task that another one still *)
(* executes only once the lease of the other one has lapsed, so a task     *)
(* that ends within its lease is executed by nobody else meanwhile.  (The  *)
(* lease runs from the beginning of the tick that claimed it.)             *)
ExclusiveWithinLease ==
  \A v, w \in Workers :
    /\ v # w /\ Executing(v) /\ Executing(w)
    /\ job[v].task = job[w].task /\ job[v].claim < job[w].claim
    => LeaseEnd(v) < clock

(* Why the lease is exclusive: an execution holds its lease until the lease *)
(* has lapsed, the last claim is the only one that can, and a reaper keeps *)
(* lapsed leases only.                                                     *)
LeaseInv ==
  /\ \A w \in Workers : \A x \in lapsed[w] : x.expiry < clock
  /\ \A w \in Workers :
       Executing(w) => /\ job[w].claim <= claims[job[w].task]
                       /\ OwnsLease(w) \/ LeaseEnd(w) < clock
  /\ LeaseNamesClaim

(* P4, worker death needs bounded recovery: every queued task ends.        *)
EveryTaskEnds == \A r \in Tasks : status[r] = "queued" ~> status[r] \in Terminal
=============================================================================
