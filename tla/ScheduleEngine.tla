--------------------------- MODULE ScheduleEngine ---------------------------
(***************************************************************************)
(* The Studio scheduler (lionagi/studio/scheduler/engine.py) on one        *)
(* schedule: the tick that fires what is due, manual triggers, chained     *)
(* actions, the three repair passes of a restart, the stale-run reaper,    *)
(* and the rows they all leave in schedule_runs (lionagi/state/db.py).     *)
(*                                                                         *)
(* A daemon is a start of the process: its _running map and its counters   *)
(* die with it, the rows and the children it spawned do not.  The tick is  *)
(* one coroutine, every fire is a task of its own, and all of them         *)
(* interleave at their awaits.  The schedule's configuration is picked in  *)
(* Init and never changes.                                                 *)
(***************************************************************************)
EXTENDS Integers, FiniteSets

CONSTANTS
  Daemons,        \* starts of the scheduler process
  NoDaemon,
  MaxRows,        \* ids: schedule_runs rows and the fires that write them
  Configurations, \* what schedules may look like, see ConfigurationType
  Slots,          \* MAX_SCHEDULED_CONCURRENT
  MaxDepth,       \* _MAX_CHAIN_DEPTH
  Horizon         \* bound on the clock

\* once: trigger_type = "at", else a trigger that recurs; skips:
\* overlap_policy = "skip"; recovers: missed_fire_policy = "run_once"; limit:
\* max_runs, 0 for NULL; chains: on_success and on_fail are both set.  The rest
\* is the world: peers, how many schedulers on this database may be up at once,
\* and the bounds on starts, on fires (replacements of an orphan apart), on
\* manual triggers, and on faults (crashes, shutdowns and failing writes).
ConfigurationType(c) ==
  /\ DOMAIN c = {"once", "skips", "recovers", "limit", "chains", "peers",
                "starts", "fires", "manual", "faults"}
  /\ {c.once, c.skips, c.recovers, c.chains} \subseteq BOOLEAN
  /\ {c.limit, c.peers, c.starts, c.fires, c.manual, c.faults} \subseteq Nat
  /\ c.once => c.limit = 1

ASSUME SchedulerAssumption ==
  /\ NoDaemon \notin Daemons
  /\ {MaxRows, Slots, MaxDepth, Horizon} \subseteq Nat
  /\ MaxRows > 0
  /\ \A c \in Configurations : ConfigurationType(c)

Rows == 1..MaxRows
NoRow == 0
Never == -1     \* next_fire_at = NULL
NoClaim == -2   \* NO_CURSOR_CLAIM
Unread == -1    \* the rows have not been counted yet

VARIABLES
  conf,       \* the schedule's configuration
  enabled,    \* schedules.enabled
  cursor,     \* schedules.next_fire_at
  status,     \* schedule_runs.status; "none" before the row is written
  dispatched, \* the rows whose dispatched_at is set
  fire,       \* the task behind each id, and the columns it writes
  process,    \* the child: none, live, or what its sessions said at its end
  engine,     \* what each daemon has in memory
  now,
  starts, manual, faults,
  rewound     \* history: a write moved next_fire_at backwards

rowVars == <<status, dispatched>>
scheduleVars == <<enabled, cursor, rewound>>
bounds == <<starts, manual, faults>>
vars == <<conf, scheduleVars, rowVars, fire, process, engine, now, bounds>>

Terminal == {"completed", "failed", "cancelled", "timed_out"}
Statuses == {"none", "running"} \cup Terminal
\* done: all its sessions reached a terminal status, completed standing for
\* what they said; mute: it is gone without saying.
Verdicts == {"done", "mute"}
Steps == {"idle", "begun", "committed", "launched", "waiting", "settling",
          "settled", "chaining"}
Phases == {"down", "recover", "reconcile", "missed", "owed", "idle", "gate", "count"}

NoFire ==
  [pc |-> "idle", by |-> NoDaemon, depth |-> 0, parent |-> NoRow, replaces |-> NoRow,
   claim |-> NoClaim, instant |-> Never, at |-> 0, limited |-> FALSE, slotted |-> FALSE]

\* running: _running; claims: _max_runs_inflight; slots: _global_inflight; todo:
\* the rows a repair pass has read; due, at: what the tick has read; lock: who
\* holds _max_runs_lock; claimed, fired: what its holder has read.
NoEngine ==
  [phase |-> "down", running |-> NoRow, claims |-> 0, slots |-> 0, todo |-> {},
   due |-> Never, at |-> 0, lock |-> "free", claimed |-> 0, fired |-> Unread]

Init ==
  /\ conf \in Configurations
  /\ enabled = TRUE
  /\ cursor = 1
  /\ status = [r \in Rows |-> "none"]
  /\ dispatched = {}
  /\ fire = [r \in Rows |-> NoFire]
  /\ process = [r \in Rows |-> "none"]
  /\ engine = [d \in Daemons |-> NoEngine]
  /\ now = 1
  /\ starts = 0 /\ manual = 0 /\ faults = 0
  /\ rewound = FALSE

-----------------------------------------------------------------------------
Up(d) == engine[d].phase # "down"
Active(r) == fire[r].pc # "idle"
Free == {r \in Rows : ~Active(r) /\ status[r] = "none"}
NextFree == {r \in Free : \A q \in Free : r <= q}
Begun == {r \in Rows : (Active(r) \/ status[r] # "none") /\ fire[r].replaces = NoRow}
MayFire == Cardinality(Begun) < conf.fires

\* What list_undispatched_schedule_runs selects, and the claim of
\* tombstone_and_replace_schedule_run.
\* Broken variant: dispatched_at is not looked at.
Undispatched_AnyRunning(r) == status[r] = "running"
Undispatched(r) == status[r] = "running" /\ r \notin dispatched

\* The rows count_schedule_runs counts: top level, in the statuses given.
Count(S, st) == Cardinality({r \in Rows : fire[r].depth = 0 /\ st[r] \in S})

\* _compute_next_fire: one instant per unit of time, and none after an "at".
NextFire(at) == IF conf.once THEN Never ELSE at + 1

Due == cursor # Never /\ cursor <= now

MoveCursor(to) ==
  /\ cursor' = to
  /\ rewound' = (rewound \/ (to # Never /\ (cursor = Never \/ to < cursor)))

\* _check_max_runs, after the row statuses became st.
\* Broken variant: no max_runs is taken for one of 0.
CheckMaxRuns_NoneIsZero(r, st) ==
  enabled' = (enabled /\ ~(fire[r].depth = 0 /\ Count(Terminal, st) >= conf.limit))
CheckMaxRuns(r, st) ==
  enabled' = (enabled /\ ~(/\ fire[r].depth = 0
                           /\ conf.limit > 0
                           /\ Count(Terminal, st) >= conf.limit))

\* The finally blocks of _fire: the claims go back; release is idempotent.
\* Broken variant: the unit that the row owns already is given back as well.
Release_Twice(d, r) ==
  [engine[d] EXCEPT !.claims = IF conf.limit > 0 THEN @ - 1 ELSE @,
                    !.slots = IF fire[r].slotted THEN @ - 1 ELSE @]
Release(d, r) ==
  [engine[d] EXCEPT !.claims = IF fire[r].limited THEN @ - 1 ELSE @,
                    !.slots = IF fire[r].slotted THEN @ - 1 ELSE @]

\* The finally of _fire_inner as well: whatever run _running names is dropped.
Leave(d, r) ==
  [Release(d, r) EXCEPT !.running = IF fire[r].depth = 0 THEN NoRow ELSE @]

Ended(r) ==
  [fire[r] EXCEPT !.pc = "idle", !.by = NoDaemon, !.claim = NoClaim,
                  !.limited = FALSE, !.slotted = FALSE]

Fault == faults < conf.faults /\ faults' = faults + 1

-----------------------------------------------------------------------------
(* Starts and the repair passes.                                           *)

\* start, and the scan of _recover_undispatched_fires.
Start(d) ==
  /\ ~Up(d)
  /\ starts < conf.starts
  /\ Cardinality({e \in Daemons : Up(e)}) < conf.peers
  /\ starts' = starts + 1
  /\ engine' = [engine EXCEPT ![d] =
       [NoEngine EXCEPT !.phase = "recover",
                        !.todo = {r \in Rows : Undispatched(r)}]]
  /\ UNCHANGED <<conf, scheduleVars, rowVars, fire, process, now, manual, faults>>

\* An orphan is retried under a new id, unless it is a chain child or its
\* schedule was disabled: then it is closed with nothing to follow.
RecoverRow(d, r) ==
  /\ engine[d].phase = "recover"
  /\ r \in engine[d].todo
  /\ engine' = [engine EXCEPT ![d].todo = @ \ {r}]
  /\ \/ /\ fire[r].depth # 0 \/ ~enabled
        /\ status' = [status EXCEPT ![r] = IF @ = "running" THEN "failed" ELSE @]
        /\ UNCHANGED fire
     \/ /\ fire[r].depth = 0 /\ enabled
        /\ \E n \in NextFree :
             fire' = [fire EXCEPT ![n] =
               [NoFire EXCEPT !.pc = "begun", !.by = d, !.replaces = r,
                              !.instant = fire[r].instant, !.at = now]]
        /\ UNCHANGED status
  /\ UNCHANGED <<conf, scheduleVars, dispatched, process, now, bounds>>

\* The scan of _reconcile_dispatched_orphans.
RecoverDone(d) ==
  /\ engine[d].phase = "recover"
  /\ engine[d].todo = {}
  /\ engine' = [engine EXCEPT ![d] =
       [@ EXCEPT !.phase = "reconcile",
                 !.todo = {r \in Rows : status[r] = "running" /\ r \in dispatched}]]
  /\ UNCHANGED <<conf, scheduleVars, rowVars, fire, process, now, bounds>>

\* Is there a chained action, and may it still run?
\* Broken variant: chains have no end.
MayChain_Unbounded(r) == conf.chains /\ MayFire
MayChain(r) == conf.chains /\ fire[r].depth < MaxDepth /\ MayFire

\* A child on record: chain_depth + 1, no cursor claim, no admission claims.
Child(d, r) ==
  [NoFire EXCEPT !.pc = "begun", !.by = d, !.depth = fire[r].depth + 1, !.parent = r, !.at = now]

\* A row whose sessions have all ended is finalized from what they said.  The
\* pass goes on with its effects only if it won the row.
ReconcileRow(d, r) ==
  /\ engine[d].phase = "reconcile"
  /\ r \in engine[d].todo
  /\ engine' = [engine EXCEPT ![d].todo = @ \ {r}]
  /\ LET won == process[r] = "done" /\ status[r] = "running"
         st == [status EXCEPT ![r] = "completed"] IN
       IF won
       THEN /\ status' = st
            /\ CheckMaxRuns(r, st)
            /\ IF MayChain(r)
               THEN \E n \in NextFree : fire' = [fire EXCEPT ![n] = Child(d, r)]
               ELSE UNCHANGED fire
       ELSE UNCHANGED <<status, enabled, fire>>
  /\ UNCHANGED <<conf, cursor, rewound, dispatched, process, now, bounds>>

\* _check_missed_fires reads the schedule, and acts on what it read below.
ReconcileDone(d) ==
  /\ engine[d].phase = "reconcile"
  /\ engine[d].todo = {}
  /\ engine' = [engine EXCEPT ![d] =
       IF enabled /\ Due /\ MayFire
       THEN [@ EXCEPT !.phase = "missed", !.due = cursor, !.at = now]
       ELSE [@ EXCEPT !.phase = "idle"]]
  /\ UNCHANGED <<conf, scheduleVars, rowVars, fire, process, now, bounds>>

\* schedule_run_exists_since
FiredSince(t) == \E r \in Rows : status[r] # "none" /\ fire[r].depth = 0 /\ fire[r].at >= t

\* Back to waiting for the next tick.
Idle(e) == [e EXCEPT !.phase = "idle", !.due = Never, !.at = 0]

\* Recorded already, or to be recorded as skipped: the cursor is written with
\* no claim on what it was.
PassMissed(d) ==
  /\ engine[d].phase = "missed"
  /\ FiredSince(engine[d].due) \/ ~conf.recovers
  /\ MoveCursor(NextFire(engine[d].at))
  /\ engine' = [engine EXCEPT ![d] = Idle(@)]
  /\ UNCHANGED <<conf, enabled, rowVars, fire, process, now, bounds>>

\* _recover_missed_fire_run_once, up to the claims.
OweMissed(d) ==
  /\ engine[d].phase = "missed"
  /\ ~FiredSince(engine[d].due)
  /\ conf.recovers
  /\ engine' = [engine EXCEPT ![d].phase = "owed"]
  /\ UNCHANGED <<conf, scheduleVars, rowVars, fire, process, now, bounds>>

-----------------------------------------------------------------------------
(* _reserve_max_runs_budget, for the loop's coroutine and for fire_now: the*)
(* lock, the claims, an awaited count of the rows, then the decision and   *)
(* the claims written back.  Claims go back without the lock.              *)
\* Without max_runs nothing is awaited.
Locked(d, who) ==
  [engine EXCEPT ![d] = [@ EXCEPT !.lock = who, !.claimed = engine[d].claims,
                                  !.fired = IF conf.limit > 0 THEN Unread ELSE 0]]
Unlocked(e) == [e EXCEPT !.lock = "free", !.claimed = 0, !.fired = Unread]

Reserve(d) ==
  /\ engine[d].phase \in {"owed", "count"}
  /\ engine[d].lock = "free"
  /\ engine' = Locked(d, "loop")
  /\ UNCHANGED <<conf, scheduleVars, rowVars, fire, process, now, bounds>>

CountRows(d) ==
  /\ engine[d].lock # "free"
  /\ engine[d].fired = Unread
  /\ engine' = [engine EXCEPT ![d].fired = Count(Statuses \ {"none"}, status)]
  /\ UNCHANGED <<conf, scheduleVars, rowVars, fire, process, now, bounds>>

Answered(d, who) == engine[d].lock = who /\ engine[d].fired # Unread

\* max_runs against the rows on record, whatever their status, and the claims.
\* Broken variant: the claims are read after the count.
Exhausted_ReadLate(d) == conf.limit > 0 /\ engine[d].fired + engine[d].claims >= conf.limit
Exhausted(d) == conf.limit > 0 /\ engine[d].fired + engine[d].claimed >= conf.limit

\* What was read is written back, one higher, whatever went back meanwhile; a
\* refusal by the slots gives that one back.
Admit(d) ==
  [Unlocked(engine[d]) EXCEPT !.claims = IF conf.limit > 0 THEN engine[d].claimed + 1 ELSE @,
                              !.slots = @ + 1]
Defer(d) ==
  [Unlocked(engine[d]) EXCEPT !.claims = IF conf.limit > 0 THEN engine[d].claimed ELSE @]
HasSlot(d) == engine[d].slots < Slots /\ MayFire

\* A top-level fire of d, with its claims.
Top(d, claim, instant) ==
  [NoFire EXCEPT !.pc = "begun", !.by = d, !.claim = claim, !.instant = instant, !.at = now,
                 !.limited = conf.limit > 0, !.slotted = TRUE]
Begin(d, claim, instant) ==
  \E n \in NextFree : fire' = [fire EXCEPT ![n] = Top(d, claim, instant)]

\* The claims, then the cursor, then the fire, which claims the cursor value
\* just written.
RecoverMissed(d) ==
  /\ engine[d].phase = "owed"
  /\ Answered(d, "loop")
  /\ \/ /\ Exhausted(d)
        /\ enabled' = FALSE
        /\ engine' = [engine EXCEPT ![d] = Idle(Unlocked(@))]
        /\ UNCHANGED <<cursor, rewound, fire>>
     \/ /\ ~Exhausted(d)
        /\ ~HasSlot(d) \/ cursor # engine[d].due
        /\ engine' = [engine EXCEPT ![d] = Idle(Defer(d))]
        /\ UNCHANGED <<scheduleVars, fire>>
     \/ /\ ~Exhausted(d)
        /\ HasSlot(d) /\ cursor = engine[d].due
        /\ MoveCursor(NextFire(engine[d].at))
        /\ engine' = [engine EXCEPT ![d] = Idle(Admit(d))]
        /\ Begin(d, NextFire(engine[d].at), engine[d].due)
        /\ UNCHANGED enabled
  /\ UNCHANGED <<conf, rowVars, process, now, bounds>>

-----------------------------------------------------------------------------
(* The tick.                                                               *)

\* list_schedules: the tick decides on this snapshot.
Tick(d) ==
  /\ engine[d].phase = "idle"
  /\ enabled /\ Due /\ MayFire
  /\ engine' = [engine EXCEPT ![d] = [@ EXCEPT !.phase = "gate", !.due = cursor, !.at = now]]
  /\ UNCHANGED <<conf, scheduleVars, rowVars, fire, process, now, bounds>>

\* overlap_policy = "skip": the cursor is written with no claim.
SkipOverlap(d) ==
  /\ engine[d].phase = "gate"
  /\ conf.skips
  /\ engine[d].running # NoRow
  /\ MoveCursor(NextFire(engine[d].at))
  /\ engine' = [engine EXCEPT ![d] = Idle(@)]
  /\ UNCHANGED <<conf, enabled, rowVars, fire, process, now, bounds>>

Gate(d) ==
  /\ engine[d].phase = "gate"
  /\ ~(conf.skips /\ engine[d].running # NoRow)
  /\ engine' = [engine EXCEPT ![d].phase = "count"]
  /\ UNCHANGED <<conf, scheduleVars, rowVars, fire, process, now, bounds>>

\* Refused by max_runs: disabled.  Refused by the slots: still due.
Admission(d) ==
  /\ engine[d].phase = "count"
  /\ Answered(d, "loop")
  /\ \/ /\ Exhausted(d)
        /\ enabled' = FALSE
        /\ engine' = [engine EXCEPT ![d] = Idle(Unlocked(@))]
        /\ UNCHANGED fire
     \/ /\ ~Exhausted(d)
        /\ ~HasSlot(d)
        /\ engine' = [engine EXCEPT ![d] = Idle(Defer(d))]
        /\ UNCHANGED <<enabled, fire>>
     \/ /\ ~Exhausted(d)
        /\ HasSlot(d)
        /\ engine' = [engine EXCEPT ![d] = Idle(Admit(d))]
        /\ Begin(d, engine[d].due, engine[d].due)
        /\ UNCHANGED enabled
  /\ UNCHANGED <<conf, cursor, rewound, rowVars, process, now, bounds>>

\* fire_now: the same claims, no overlap gate, no claim on the cursor, and a
\* refusal of either kind is only reported.
FireNow(d) ==
  /\ Up(d)
  /\ engine[d].lock = "free"
  /\ manual < conf.manual
  /\ manual' = manual + 1
  /\ engine' = Locked(d, "manual")
  /\ UNCHANGED <<conf, scheduleVars, rowVars, fire, process, now, starts, faults>>

Trigger(d) ==
  /\ Answered(d, "manual")
  /\ \/ /\ Exhausted(d)
        /\ engine' = [engine EXCEPT ![d] = Unlocked(@)]
        /\ UNCHANGED fire
     \/ /\ ~Exhausted(d)
        /\ ~HasSlot(d)
        /\ engine' = [engine EXCEPT ![d] = Defer(d)]
        /\ UNCHANGED fire
     \/ /\ ~Exhausted(d)
        /\ HasSlot(d)
        /\ engine' = [engine EXCEPT ![d] = Admit(d)]
        /\ Begin(d, NoClaim, Never)
  /\ UNCHANGED <<conf, scheduleVars, rowVars, process, now, bounds>>

\* reap_stale_schedule_runs: the last unit of time stands for all later ones.
\* Broken variant: a row whose launch nobody confirmed is left alone.
Reap_Dispatched(d, r) ==
  /\ engine[d].phase = "idle"
  /\ status[r] = "running"
  /\ r \in dispatched
  /\ now = Horizon
  /\ status' = [status EXCEPT ![r] = "timed_out"]
  /\ UNCHANGED <<conf, scheduleVars, dispatched, fire, process, engine, now, bounds>>
Reap(d, r) ==
  /\ engine[d].phase = "idle"
  /\ status[r] = "running"
  /\ now = Horizon
  /\ status' = [status EXCEPT ![r] = "timed_out"]
  /\ UNCHANGED <<conf, scheduleVars, dispatched, fire, process, engine, now, bounds>>

-----------------------------------------------------------------------------
(* A fire: _fire_inner.                                                    *)

\* The task of r is at pc and its process is up.
Pc(r, pc) == fire[r].pc = pc /\ Up(fire[r].by)
Keep(d, E) == engine' = [engine EXCEPT ![d] = E]

\* _write_occurrence, one transaction: an orphan that is still running and
\* undispatched is replaced, or the cursor still holds what is claimed and
\* moves on.  Mine(r) is the predicate, Record(r, st) the write.
\* Broken variant: the cursor is not compared.
Mine_Unclaimed(r) == fire[r].replaces # NoRow => Undispatched(fire[r].replaces)
Mine(r) ==
  IF fire[r].replaces # NoRow
  THEN Undispatched(fire[r].replaces)
  ELSE fire[r].claim = NoClaim \/ fire[r].claim = cursor

Record(r, st) ==
  /\ status' = [q \in Rows |-> CASE q = r -> st
                                 [] q = fire[r].replaces -> "failed"
                                 [] OTHER -> status[q]]
  /\ IF fire[r].replaces # NoRow
     THEN UNCHANGED <<cursor, rewound>>
     ELSE MoveCursor(NextFire(fire[r].at))

\* The row now owns the max_runs unit.
Commit(r) ==
  /\ Pc(r, "begun")
  /\ Mine(r)
  /\ Record(r, "running")
  /\ fire' = [fire EXCEPT ![r] = [@ EXCEPT !.pc = "committed", !.limited = FALSE]]
  /\ Keep(fire[r].by, [engine[fire[r].by] EXCEPT
                            !.claims = IF fire[r].limited THEN @ - 1 ELSE @])
  /\ UNCHANGED <<conf, enabled, dispatched, process, now, bounds>>

\* _abandon_refused_fire, inside the try that ends in the finally.
Abandon(r) ==
  /\ Pc(r, "begun")
  /\ ~Mine(r)
  /\ fire' = [fire EXCEPT ![r] = NoFire]
  /\ Keep(fire[r].by, Leave(fire[r].by, r))
  /\ UNCHANGED <<conf, scheduleVars, rowVars, process, now, bounds>>

\* The action cannot be built: a failed row, or nothing, and no finally.
SetupFails(r) ==
  /\ Pc(r, "begun")
  /\ Fault
  /\ IF Mine(r)
     THEN /\ Record(r, "failed")
          /\ CheckMaxRuns(r, status')
          /\ fire' = [fire EXCEPT ![r] = Ended(r)]
     ELSE /\ fire' = [fire EXCEPT ![r] = NoFire]
          /\ UNCHANGED <<scheduleVars, status>>
  /\ Keep(fire[r].by, Release(fire[r].by, r))
  /\ UNCHANGED <<conf, dispatched, process, now, starts, manual>>

\* create_invocation raises: nothing is durable.
NeverBegins(r) ==
  /\ Pc(r, "begun")
  /\ Fault
  /\ fire' = [fire EXCEPT ![r] = NoFire]
  /\ Keep(fire[r].by, Release(fire[r].by, r))
  /\ UNCHANGED <<conf, scheduleVars, rowVars, process, now, starts, manual>>

\* A failure between the commit and the launch leaves the row to recovery.
LeaveUndispatched(r) ==
  /\ Pc(r, "committed")
  /\ Fault
  /\ fire' = [fire EXCEPT ![r] = Ended(r)]
  /\ Keep(fire[r].by, Leave(fire[r].by, r))
  /\ UNCHANGED <<conf, scheduleVars, rowVars, process, now, starts, manual>>

\* _running[sid], and the child exists.
Launch(r) ==
  /\ Pc(r, "committed")
  /\ fire' = [fire EXCEPT ![r].pc = "launched"]
  /\ process' = [process EXCEPT ![r] = "live"]
  /\ Keep(fire[r].by, [engine[fire[r].by] EXCEPT
                            !.running = IF fire[r].depth = 0 THEN r ELSE @])
  /\ UNCHANGED <<conf, scheduleVars, rowVars, now, bounds>>

\* on_launched: dispatched_at, whatever the row's status; a failure is swallowed.
Confirm(r) ==
  /\ Pc(r, "launched")
  /\ fire' = [fire EXCEPT ![r].pc = "waiting"]
  /\ \/ dispatched' = dispatched \cup {r} /\ UNCHANGED faults
     \/ Fault /\ UNCHANGED dispatched
  /\ UNCHANGED <<conf, scheduleVars, status, process, engine, now, starts, manual>>

\* _guarded_terminal_status
\* Broken variant: the write does not name the status it replaces.
Finalized_Unguarded(r, as) == [status EXCEPT ![r] = as]
Finalized(r, as) == [status EXCEPT ![r] = IF @ = "running" THEN as ELSE @]

\* The exit, and what the child's sessions said, decide; a lost race does not
\* stop the effects that follow.
Finish(r) ==
  /\ Pc(r, "waiting")
  /\ process[r] \in Verdicts
  /\ status' = Finalized(r, IF process[r] = "done" THEN "completed" ELSE "failed")
  /\ fire' = [fire EXCEPT ![r].pc = "settling"]
  /\ UNCHANGED <<conf, scheduleVars, dispatched, process, engine, now, bounds>>

\* The deadline: the process group is killed, the row timed out, nothing chained.
Deadline(r) ==
  /\ Pc(r, "launched") \/ Pc(r, "waiting")
  /\ process[r] = "live"
  /\ now = Horizon
  /\ process' = [process EXCEPT ![r] = "mute"]
  /\ status' = Finalized(r, "timed_out")
  /\ fire' = [fire EXCEPT ![r].pc = "settled"]
  /\ UNCHANGED <<conf, scheduleVars, dispatched, engine, now, bounds>>

\* _check_max_runs, then the chained action, awaited inline.
Settle(r) ==
  /\ Pc(r, "settling")
  /\ CheckMaxRuns(r, status)
  /\ IF MayChain(r)
     THEN /\ \E n \in NextFree :
               fire' = [fire EXCEPT ![n] = Child(fire[r].by, r), ![r] = [@ EXCEPT !.pc = "chaining"]]
          /\ UNCHANGED engine
     ELSE /\ fire' = [fire EXCEPT ![r] = Ended(r)]
          /\ Keep(fire[r].by, Leave(fire[r].by, r))
  /\ UNCHANGED <<conf, cursor, rewound, rowVars, process, now, bounds>>

\* After the deadline, or when the awaited child fire has returned.
Close(r) ==
  /\ \/ Pc(r, "settled") /\ CheckMaxRuns(r, status)
     \/ /\ Pc(r, "chaining")
        /\ ~\E q \in Rows : Active(q) /\ fire[q].parent = r /\ fire[q].by = fire[r].by
        /\ UNCHANGED enabled
  /\ fire' = [fire EXCEPT ![r] = Ended(r)]
  /\ Keep(fire[r].by, Leave(fire[r].by, r))
  /\ UNCHANGED <<conf, cursor, rewound, rowVars, process, now, bounds>>

-----------------------------------------------------------------------------
(* The world: children end, time passes, daemons stop and crash.           *)

\* Nobody looks at a child whose row is closed and whose fire is over.
ChildEnds(r) ==
  /\ process[r] = "live"
  /\ status[r] = "running" \/ Active(r)
  /\ \E v \in Verdicts : process' = [process EXCEPT ![r] = v]
  /\ UNCHANGED <<conf, scheduleVars, rowVars, fire, engine, now, bounds>>

Advance ==
  /\ now < Horizon
  /\ now' = now + 1
  /\ UNCHANGED <<conf, scheduleVars, rowVars, fire, process, engine, bounds>>

Tasks(d) == {r \in Rows : Active(r) /\ fire[r].by = d}
Forgotten(d) ==
  [r \in Rows |-> CASE r \notin Tasks(d) -> fire[r]
                    [] r \in Tasks(d) /\ fire[r].pc = "begun" -> NoFire
                    [] OTHER -> Ended(r)]

\* The process dies: memory and tasks are gone, the children live on.
Crash(d) ==
  /\ Up(d)
  /\ Fault
  /\ fire' = Forgotten(d)
  /\ engine' = [engine EXCEPT ![d] = NoEngine]
  /\ UNCHANGED <<conf, scheduleVars, rowVars, process, now, starts, manual>>

\* stop: the tasks are cancelled.  A launched child is killed and its row
\* cancelled; an undispatched row is left to the next start.  The handler runs
\* _check_max_runs wherever it catches a fire that has a child.
Stop(d) ==
  /\ Up(d)
  /\ Fault
  /\ LET killed == {r \in Tasks(d) : fire[r].pc \in {"launched", "waiting"}}
         caught == killed \cup {r \in Tasks(d) : fire[r].pc \in {"settling", "chaining"}}
         st == [r \in Rows |-> IF r \in killed /\ status[r] = "running"
                               THEN "cancelled" ELSE status[r]] IN
       /\ status' = st
       /\ process' = [r \in Rows |-> IF r \in killed /\ process[r] = "live"
                                     THEN "mute" ELSE process[r]]
       /\ enabled' = (enabled /\ ~(/\ conf.limit > 0
                                   /\ \E r \in caught : fire[r].depth = 0
                                   /\ Count(Terminal, st) >= conf.limit))
  /\ fire' = Forgotten(d)
  /\ engine' = [engine EXCEPT ![d] = NoEngine]
  /\ UNCHANGED <<conf, cursor, rewound, dispatched, now, starts, manual>>

Daemon(d) ==
  \/ Start(d)
  \/ \E r \in Rows : RecoverRow(d, r) \/ ReconcileRow(d, r) \/ Reap(d, r)
  \/ RecoverDone(d) \/ ReconcileDone(d) \/ PassMissed(d) \/ OweMissed(d)
  \/ Reserve(d) \/ CountRows(d) \/ RecoverMissed(d) \/ Admission(d) \/ Trigger(d)
  \/ Tick(d) \/ SkipOverlap(d) \/ Gate(d)

Fires(r) ==
  \/ Commit(r) \/ Abandon(r) \/ Launch(r) \/ Confirm(r)
  \/ Finish(r) \/ Settle(r) \/ Close(r)

Failures(r) == SetupFails(r) \/ NeverBegins(r) \/ LeaveUndispatched(r)

Next ==
  \/ \E d \in Daemons : Daemon(d) \/ FireNow(d) \/ Crash(d) \/ Stop(d)
  \/ \E r \in Rows : Fires(r) \/ Failures(r) \/ Deadline(r) \/ ChildEnds(r)
  \/ Advance

Spec == Init /\ [][Next]_vars

\* The tasks of a running process go on, children end or meet their deadline,
\* a stopped scheduler is started again; every tick first runs the reapers.
FairSpec ==
  /\ Spec
  /\ \A d \in Daemons : WF_vars(Daemon(d))
  /\ SF_vars(\E d \in Daemons, r \in Rows : Reap(d, r))
  /\ \A r \in Rows : WF_vars(Fires(r)) /\ WF_vars(ChildEnds(r) \/ Deadline(r))
  /\ WF_vars(Advance)

-----------------------------------------------------------------------------
FireRecords ==
  [pc : Steps, by : Daemons \cup {NoDaemon}, depth : 0..MaxDepth, parent : Rows \cup {NoRow},
   replaces : Rows \cup {NoRow}, claim : Nat \cup {Never, NoClaim}, instant : Nat \cup {Never},
   at : Nat, limited : BOOLEAN, slotted : BOOLEAN]
EngineRecords ==
  [phase : Phases, running : Rows \cup {NoRow}, claims : Int, slots : Int, todo : SUBSET Rows,
   due : Nat \cup {Never}, at : Nat, lock : {"free", "loop", "manual"}, claimed : Int,
   fired : Nat \cup {Unread}]

(* All variables have their types; above all no chain is deeper than       *)
(* _MAX_CHAIN_DEPTH, whichever of executor and reconcile pass extends it.  *)
TypeOK ==
  /\ conf \in Configurations
  /\ enabled \in BOOLEAN
  /\ cursor \in Nat \cup {Never}
  /\ status \in [Rows -> Statuses]
  /\ dispatched \subseteq Rows
  /\ process \in [Rows -> {"none", "live"} \cup Verdicts]
  /\ fire \in [Rows -> FireRecords]
  /\ engine \in [Daemons -> EngineRecords]
  /\ {now, starts, manual, faults} \subseteq Nat
  /\ rewound \in BOOLEAN

\* The orphans some row on record replaces, and the runs that count against
\* max_runs once those are taken out.
Replaced == {fire[r].replaces : r \in {q \in Rows : status[q] # "none"}}
Spent == {r \in Rows : fire[r].depth = 0 /\ status[r] # "none"} \ Replaced

(* _reserve_max_runs_budget: ticks, manual triggers, missed-fire recovery  *)
(* and orphan recovery together never start more runs than max_runs, with  *)
(* one scheduler on the database: no fire slips in between the count of    *)
(* the rows and the row of a fire that was admitted earlier.               *)
BudgetHolds ==
  conf.limit > 0 /\ conf.peers = 1 => Cardinality(Spent) <= conf.limit

(* _recover_undispatched_fires: with one scheduler on the database, a run  *)
(* whose child is known to have been launched is not fired again by a      *)
(* restart, wherever the process died and whichever write failed.          *)
ConfirmedOnce == conf.peers = 1 => dispatched \cap Replaced = {}

(* The claim on next_fire_at in create_schedule_run_and_advance: one       *)
(* instant of the schedule gives at most one run (an orphan's replacement  *)
(* apart), with any number of schedulers, as long as no fire without a     *)
(* claim has moved the cursor backwards.                                   *)
Recorded(r) == status[r] # "none" /\ fire[r].replaces = NoRow /\ fire[r].instant # Never
OneRunPerInstant ==
  ~rewound =>
    \A p, q \in Rows : Recorded(p) /\ Recorded(q) /\ fire[p].instant = fire[q].instant => p = q

(* _global_inflight counts exactly the fires that hold a slot, no more than*)
(* MAX_SCHEDULED_CONCURRENT, and _max_runs_inflight at least the fires that*)
(* hold a unit of max_runs: each of the many ends of a fire gives back what*)
(* it took, once.  With a budget of one it counts exactly those.  With more*)
(* it may count too many for ever: what goes back while a reservation waits*)
(* for the row count is written over by it (engine.py:1571).               *)
ClaimsMatchFires ==
  \A d \in Daemons :
    LET held == Cardinality({r \in Tasks(d) : fire[r].limited}) IN
    /\ engine[d].slots = Cardinality({r \in Tasks(d) : fire[r].slotted})
    /\ engine[d].slots <= Slots
    /\ engine[d].claims >= held
    /\ conf.limit <= 1 => engine[d].claims = held

(* Executor, reconcile pass, orphan recovery, reaper and shutdown may all  *)
(* finalize a run; whatever outcome is on record first stays.              *)
OutcomeIsFinal == [][\A r \in Rows : status[r] \in Terminal => status'[r] = status[r]]_vars

(* A run on record ends: by its executor, by a repair pass of the next     *)
(* start, or by the stale-run reaper.  (Ids and time are bounded, so that  *)
(* none runs for ever says the same of each.)                              *)
EveryRunEnds == <>[](\A r \in Rows : status[r] # "running")

(* An instant that has come is fired, recovered or passed over, or the runs*)
(* on record have used max_runs up: it is not overdue for ever, kept back  *)
(* by a slot, a run that is gone or a schedule that was disabled.  A tick  *)
(* or a recovery that finds max_runs taken disables the schedule for good  *)
(* (engine.py:1101, 1864), also when it was taken by a claim that is given *)
(* back, or by a run that is counted as claim and as row; that can happen  *)
(* where a fire fails, a process dies, or two fires claim at a time, so the*)
(* schedules with a budget and one of these are excepted.                  *)
SpuriousRefusals == conf.limit > 1 \/ (conf.limit = 1 /\ conf.manual + conf.faults > 0)
UsedUp == conf.limit > 0 /\ Count(Statuses \ {"none"}, status) >= conf.limit
Overdue == Due /\ MayFire /\ (enabled \/ ~(UsedUp \/ SpuriousRefusals))
DueIsHandled == []<>~Overdue

(* engine.py:948: "The guarded CAS below is the idempotency boundary       *)
(* against another finalizer; losing it means someone else already owns    *)
(* this row's follow-on effects".  With one scheduler on the database, a   *)
(* run has at most one chained run.  The executor does not keep to it: it  *)
(* goes on with its effects when it loses the row.                         *)
ChainedOnce ==
  conf.peers = 1 =>
    \A p, q \in Rows : fire[p].parent # NoRow /\ fire[p].parent = fire[q].parent => p = q
=============================================================================
