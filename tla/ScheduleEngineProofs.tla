------------------------ MODULE ScheduleEngineProofs ------------------------
(***************************************************************************)
(* Proofs about ScheduleEngine, for every number of daemons and rows, every*)
(* configuration of a schedule and every bound.                            *)
(***************************************************************************)
EXTENDS ScheduleEngine, FiniteSetTheorems, TLAPS

-----------------------------------------------------------------------------
(* The records a fire and a daemon go through.                             *)

(* The record of an id that no fire uses yet.                              *)
LEMMA NoFireType == NoFire \in FireRecords
BY SchedulerAssumption DEF NoFire, FireRecords, Steps, NoRow, NoClaim, Never

(* The memory of a process that is down.                                   *)
LEMMA NoEngineType == NoEngine \in EngineRecords
BY DEF NoEngine, EngineRecords, Phases, NoRow, Never, Unread

(* A fire that has ended keeps the columns it wrote.                       *)
LEMMA EndedType ==
  ASSUME TypeOK, NEW r \in Rows
  PROVE  Ended(r) \in FireRecords
<1>1. fire[r] \in FireRecords
  BY DEF TypeOK
<1>2. ASSUME NEW f \in FireRecords
      PROVE  [f EXCEPT !.pc = "idle", !.by = NoDaemon, !.claim = NoClaim,
                       !.limited = FALSE, !.slotted = FALSE] \in FireRecords
  BY DEF FireRecords, Steps, NoClaim
<1> QED
  BY <1>1, <1>2 DEF Ended

(* A chained fire is one level deeper, and MayChain keeps it in bounds.    *)
LEMMA ChildType ==
  ASSUME TypeOK, NEW d \in Daemons \cup {NoDaemon}, NEW r \in Rows, MayChain(r)
  PROVE  Child(d, r) \in FireRecords
<1>1. fire[r].depth + 1 \in 0..MaxDepth
  BY SchedulerAssumption DEF TypeOK, FireRecords, MayChain
<1>2. now \in Nat
  BY DEF TypeOK
<1>3. ASSUME NEW f \in FireRecords, NEW n \in Nat, NEW k \in 0..MaxDepth
      PROVE  [f EXCEPT !.pc = "begun", !.by = d, !.depth = k, !.parent = r, !.at = n]
               \in FireRecords
  BY DEF FireRecords, Steps
<1> QED
  BY <1>1, <1>2, <1>3, NoFireType DEF Child

(* A top-level fire.                                                       *)
LEMMA TopType ==
  ASSUME TypeOK, NEW d \in Daemons, NEW claim \in Nat \cup {Never, NoClaim},
         NEW instant \in Nat \cup {Never}
  PROVE  Top(d, claim, instant) \in FireRecords
<1>1. now \in Nat /\ (conf.limit > 0) \in BOOLEAN
  BY DEF TypeOK
<1>2. ASSUME NEW f \in FireRecords, NEW n \in Nat, NEW b \in BOOLEAN
      PROVE  [f EXCEPT !.pc = "begun", !.by = d, !.claim = claim, !.instant = instant,
                       !.at = n, !.limited = b, !.slotted = TRUE] \in FireRecords
  BY DEF FireRecords, Steps
<1> QED
  BY <1>1, <1>2, NoFireType DEF Top

(* Giving claims back.                                                     *)
LEMMA ReleaseType ==
  ASSUME TypeOK, NEW d \in Daemons, NEW r \in Rows
  PROVE  Release(d, r) \in EngineRecords /\ Leave(d, r) \in EngineRecords
<1>1. engine[d] \in EngineRecords /\ engine[d].claims \in Int /\ engine[d].slots \in Int
      /\ engine[d].running \in Rows \cup {NoRow}
  BY DEF TypeOK, EngineRecords
<1>3. Release(d, r) \in EngineRecords
  <2> DEFINE x == IF fire[r].limited THEN engine[d].claims - 1 ELSE engine[d].claims
             y == IF fire[r].slotted THEN engine[d].slots - 1 ELSE engine[d].slots
  <2>1. x \in Int /\ y \in Int
    BY <1>1
  <2>2. Release(d, r) = [engine[d] EXCEPT !.claims = x, !.slots = y]
    BY <1>1 DEF Release, EngineRecords
  <2> HIDE DEF x, y
  <2> QED
    BY <1>1, <2>1, <2>2 DEF EngineRecords
<1>4. ASSUME NEW e \in EngineRecords, NEW x \in Rows \cup {NoRow}
      PROVE  [e EXCEPT !.running = x] \in EngineRecords
  BY DEF EngineRecords
<1>5. Release(d, r).running \in Rows \cup {NoRow}
  BY <1>3 DEF EngineRecords
<1> QED
  BY <1>3, <1>4, <1>5 DEF Leave, NoRow

(* The id a new fire gets was not in use.                                  *)
LEMMA NextFreeType == NextFree \subseteq Rows /\ NextFree \subseteq Free
BY DEF NextFree, Free

(* _compute_next_fire returns an instant or NULL.                          *)
LEMMA NextFireType ==
  ASSUME NEW at \in Nat
  PROVE  NextFire(at) \in Nat \cup {Never}
BY DEF NextFire, Never

(* A write of next_fire_at keeps the types.                                *)
LEMMA MoveCursorType ==
  ASSUME TypeOK, NEW to \in Nat \cup {Never}, MoveCursor(to)
  PROVE  cursor' \in Nat \cup {Never} /\ rewound' \in BOOLEAN
<1>1. cursor' \in Nat \cup {Never}
  BY DEF MoveCursor
<1>2. rewound' \in BOOLEAN
  BY Zenon DEF MoveCursor
<1> QED
  BY <1>1, <1>2

(* So does a disabling by max_runs.                                        *)
LEMMA CheckMaxRunsType ==
  ASSUME NEW r \in Rows, NEW st, CheckMaxRuns(r, st)
  PROVE  enabled' \in BOOLEAN
BY Zenon DEF CheckMaxRuns

-----------------------------------------------------------------------------
(* The type invariant.                                                     *)

(* The types hold at the start.                                            *)
LEMMA InitType == Init => TypeOK
<1> SUFFICES ASSUME Init
             PROVE  TypeOK
  OBVIOUS
<1>1. fire \in [Rows -> FireRecords] /\ engine \in [Daemons -> EngineRecords]
  BY NoFireType, NoEngineType DEF Init
<1>2. status \in [Rows -> Statuses] /\ process \in [Rows -> {"none", "live"} \cup Verdicts]
  BY DEF Init, Statuses
<1>3. dispatched \subseteq Rows /\ rewound \in BOOLEAN /\ enabled \in BOOLEAN
  BY DEF Init
<1> QED
  BY <1>1, <1>2, <1>3 DEF Init, TypeOK

(* Starts and repair passes.                                               *)
LEMMA RepairType ==
  ASSUME TypeOK, NEW d \in Daemons,
         \/ Start(d) \/ RecoverDone(d) \/ ReconcileDone(d)
         \/ \E r \in Rows : RecoverRow(d, r) \/ ReconcileRow(d, r)
  PROVE  TypeOK'
<1> USE SchedulerAssumption
<1>0. engine[d] \in EngineRecords /\ now \in Nat /\ starts \in Nat
  BY DEF TypeOK
<1>1. CASE Start(d)
  <2>1. [NoEngine EXCEPT !.phase = "recover", !.todo = {r \in Rows : Undispatched(r)}]
          \in EngineRecords
    <3>1. ASSUME NEW e \in EngineRecords, NEW X \in SUBSET Rows
          PROVE  [e EXCEPT !.phase = "recover", !.todo = X] \in EngineRecords
      BY DEF EngineRecords, Phases
    <3> QED
      BY <3>1, NoEngineType
  <2>2. engine' \in [Daemons -> EngineRecords]
    BY <1>1, <2>1 DEF Start, TypeOK
  <2> QED
    BY <1>1, <2>2 DEF Start, TypeOK, scheduleVars, rowVars
<1>2. CASE RecoverDone(d)
  <2>1. engine' \in [Daemons -> EngineRecords]
    BY <1>2, <1>0 DEF RecoverDone, TypeOK, EngineRecords, Phases
  <2> QED
    BY <1>2, <2>1 DEF RecoverDone, TypeOK, scheduleVars, rowVars, bounds
<1>3. CASE ReconcileDone(d)
  <2>1. engine' \in [Daemons -> EngineRecords]
    BY <1>3, <1>0 DEF ReconcileDone, TypeOK, EngineRecords, Phases
  <2> QED
    BY <1>3, <2>1 DEF ReconcileDone, TypeOK, scheduleVars, rowVars, bounds
<1>4. ASSUME NEW r \in Rows, RecoverRow(d, r)
      PROVE  TypeOK'
  <2>1. engine' \in [Daemons -> EngineRecords]
    BY <1>4, <1>0 DEF RecoverRow, TypeOK, EngineRecords
  <2>2. status' \in [Rows -> Statuses]
    BY <1>4 DEF RecoverRow, TypeOK, Statuses, Terminal
  <2>3. [NoFire EXCEPT !.pc = "begun", !.by = d, !.replaces = r,
                       !.instant = fire[r].instant, !.at = now] \in FireRecords
    <3>1. fire[r].instant \in Nat \cup {Never}
      BY DEF TypeOK, FireRecords
    <3>2. ASSUME NEW f \in FireRecords, NEW i \in Nat \cup {Never}, NEW t \in Nat
          PROVE  [f EXCEPT !.pc = "begun", !.by = d, !.replaces = r, !.instant = i, !.at = t]
                   \in FireRecords
      BY DEF FireRecords, Steps
    <3> QED
      BY <1>0, <3>1, <3>2, NoFireType
  <2>4. fire' \in [Rows -> FireRecords]
    BY <1>4, <2>3, NextFreeType DEF RecoverRow, TypeOK
  <2> QED
    BY <1>4, <2>1, <2>2, <2>4 DEF RecoverRow, TypeOK, scheduleVars, bounds
<1>5. ASSUME NEW r \in Rows, ReconcileRow(d, r)
      PROVE  TypeOK'
  <2>1. engine' \in [Daemons -> EngineRecords]
    BY <1>5, <1>0 DEF ReconcileRow, TypeOK, EngineRecords
  <2>2. status' \in [Rows -> Statuses]
    BY <1>5 DEF ReconcileRow, TypeOK, Statuses, Terminal
  <2>3. enabled' \in BOOLEAN
    BY <1>5, CheckMaxRunsType DEF ReconcileRow, TypeOK
  <2>4. fire' \in [Rows -> FireRecords]
    BY <1>5, ChildType, NextFreeType DEF ReconcileRow, TypeOK
  <2> QED
    BY <1>5, <2>1, <2>2, <2>3, <2>4 DEF ReconcileRow, TypeOK, bounds
<1> QED
  BY <1>1, <1>2, <1>3, <1>4, <1>5

(* Back to idle; the lock given back, with what the decision writes.       *)
LEMMA IdleType ==
  ASSUME TypeOK, NEW d \in Daemons, NEW e \in {engine[d], Unlocked(engine[d]), Defer(d), Admit(d)}
  PROVE  e \in EngineRecords /\ Idle(e) \in EngineRecords
<1>1. engine[d] \in EngineRecords
  BY DEF TypeOK
<1>2. ASSUME NEW x \in EngineRecords, NEW t \in Nat \cup {Never}, NEW n \in Nat
      PROVE  [x EXCEPT !.phase = "idle", !.due = t, !.at = n] \in EngineRecords
  BY DEF EngineRecords, Phases
<1>3. ASSUME NEW x \in EngineRecords, NEW n \in Int, NEW k \in Nat \cup {Unread}
      PROVE  [x EXCEPT !.lock = "free", !.claimed = n, !.fired = k] \in EngineRecords
  BY DEF EngineRecords
<1>6. Unlocked(engine[d]) \in EngineRecords
  <2>1. 0 \in Int /\ Unread \in Nat \cup {Unread}
    OBVIOUS
  <2> QED
    BY <1>1, <1>3, <2>1, Zenon DEF Unlocked
<1> DEFINE u == Unlocked(engine[d])
           a == IF conf.limit > 0 THEN engine[d].claimed + 1 ELSE u.claims
           b == IF conf.limit > 0 THEN engine[d].claimed ELSE u.claims
           s == u.slots + 1
<1>7. a \in Int /\ b \in Int /\ s \in Int
  BY <1>1, <1>6 DEF EngineRecords
<1>8. Admit(d) = [u EXCEPT !.claims = a, !.slots = s] /\ Defer(d) = [u EXCEPT !.claims = b]
  BY DEF Admit, Defer
<1>9. Admit(d) \in EngineRecords /\ Defer(d) \in EngineRecords
  <2> HIDE DEF u, a, b, s
  <2>1. u \in EngineRecords
    BY <1>6 DEF u
  <2>2. [u EXCEPT !.claims = a, !.slots = s] \in EngineRecords
    BY <1>7, <2>1 DEF EngineRecords
  <2>3. [u EXCEPT !.claims = b] \in EngineRecords
    BY <1>7, <2>1 DEF EngineRecords
  <2> QED
    BY <1>8, <2>2, <2>3
<1>10. \A x \in EngineRecords : Idle(x) \in EngineRecords
  <2>1. Never \in Nat \cup {Never} /\ 0 \in Nat
    OBVIOUS
  <2> QED
    BY <1>2, <2>1, Zenon DEF Idle
<1> QED
  BY <1>1, <1>6, <1>9, <1>10

-----------------------------------------------------------------------------
(* The steps of the loop's coroutine and of fire_now: some only read, some *)
(* pass over an instant, some decide.                                      *)

Looks(d) == Tick(d) \/ Gate(d) \/ OweMissed(d) \/ Reserve(d) \/ CountRows(d) \/ FireNow(d)
Passes(d) == PassMissed(d) \/ SkipOverlap(d)
Decides(d) == RecoverMissed(d) \/ Admission(d) \/ Trigger(d)
Ticks(d) == Looks(d) \/ Passes(d) \/ Decides(d) \/ \E r \in Rows : Reap(d, r)

(* The rows counted are a number.                                          *)
LEMMA CountType ==
  ASSUME NEW S, NEW st
  PROVE  Count(S, st) \in Nat
<1> DEFINE C == {r \in Rows : fire[r].depth = 0 /\ st[r] \in S}
<1>1. IsFiniteSet(Rows)
  BY SchedulerAssumption, FS_Interval DEF Rows
<1>2. C \subseteq Rows
  OBVIOUS
<1> HIDE DEF C
<1>3. Cardinality(C) \in Nat
  BY <1>1, <1>2, FS_Subset, FS_CardinalityType
<1> QED
  BY <1>3 DEF Count, C

\* What no step that only reads changes in the memory of its daemon.
SameMemory(e, f) ==
  /\ f.phase = "down" <=> e.phase = "down"
  /\ f.phase = "recover" => e.phase = "recover"
  /\ f.claims = e.claims /\ f.slots = e.slots /\ f.running = e.running /\ f.todo = e.todo

(* A step that only reads changes nothing else.                            *)
LEMMA LooksOnly ==
  ASSUME TypeOK, NEW d \in Daemons, Looks(d)
  PROVE  /\ UNCHANGED <<conf, enabled, cursor, rewound, status, dispatched, fire, process, now,
                        starts, faults>>
         /\ manual' \in Nat
         /\ engine' \in [Daemons -> EngineRecords]
         /\ \A c \in Daemons : c # d => engine'[c] = engine[c]
         /\ SameMemory(engine[d], engine'[d])
<1>1. /\ engine \in [Daemons -> EngineRecords] /\ engine[d] \in EngineRecords
      /\ now \in Nat /\ manual \in Nat /\ cursor \in Nat \cup {Never}
      /\ engine[d].claims \in Int
  BY DEF TypeOK, EngineRecords
<1>2. /\ UNCHANGED <<conf, enabled, cursor, rewound, status, dispatched, fire, process, now,
                     starts, faults>>
      /\ manual' \in Nat
  BY <1>1 DEF Looks, Tick, Gate, OweMissed, Reserve, CountRows, FireNow, scheduleVars, rowVars,
              bounds
<1> DEFINE New(e) == e \in EngineRecords /\ SameMemory(engine[d], e)
<1>3. ASSUME NEW p \in Phases, engine[d].phase \notin {"down", "recover"}, p \notin {"down", "recover"},
             NEW t \in Nat \cup {Never}, NEW n \in Nat
      PROVE  /\ New([engine[d] EXCEPT !.phase = p, !.due = t, !.at = n])
             /\ New([engine[d] EXCEPT !.phase = p])
  BY <1>1, <1>3 DEF EngineRecords, SameMemory
<1>4. ASSUME NEW who \in {"loop", "manual"}, NEW n \in Int, NEW k \in Nat \cup {Unread}
      PROVE  New([engine[d] EXCEPT !.lock = who, !.claimed = n, !.fired = k])
  BY <1>1, <1>4 DEF EngineRecords, SameMemory
<1>5. \E e : engine' = [engine EXCEPT ![d] = e] /\ New(e)
  <2>1. CASE Tick(d)
    <3>1. /\ engine' = [engine EXCEPT ![d] = [engine[d] EXCEPT !.phase = "gate", !.due = cursor, !.at = now]]
          /\ engine[d].phase = "idle"
      BY <1>1, <2>1 DEF Tick
    <3>2. New([engine[d] EXCEPT !.phase = "gate", !.due = cursor, !.at = now])
      BY <1>1, <1>3, <3>1 DEF Phases
    <3> HIDE DEF New
    <3> QED
      BY <3>1, <3>2
  <2>2. CASE Gate(d) \/ OweMissed(d)
    <3>1. PICK p \in {"count", "owed"} : engine' = [engine EXCEPT ![d] = [engine[d] EXCEPT !.phase = p]]
      BY <1>1, <2>2 DEF Gate, OweMissed
    <3>2. engine[d].phase \in {"gate", "missed"}
      BY <2>2 DEF Gate, OweMissed
    <3>3. New([engine[d] EXCEPT !.phase = p])
      BY <1>1, <1>3, <3>2 DEF Phases
    <3> HIDE DEF New
    <3> QED
      BY <3>1, <3>3
  <2>3. CASE Reserve(d) \/ FireNow(d)
    <3> DEFINE k == IF conf.limit > 0 THEN Unread ELSE 0
    <3>1. PICK who \in {"loop", "manual"} : engine' =
            [engine EXCEPT ![d] = [engine[d] EXCEPT !.lock = who, !.claimed = engine[d].claims, !.fired = k]]
      BY <1>1, <2>3 DEF Reserve, FireNow, Locked
    <3>2. k \in Nat \cup {Unread}
      OBVIOUS
    <3> HIDE DEF k
    <3>3. New([engine[d] EXCEPT !.lock = who, !.claimed = engine[d].claims, !.fired = k])
      BY <1>1, <1>4, <3>2
    <3> HIDE DEF New
    <3> QED
      BY <3>1, <3>3
  <2>4. CASE CountRows(d)
    <3> DEFINE k == Count(Statuses \ {"none"}, status)
    <3>1. engine' = [engine EXCEPT ![d] = [engine[d] EXCEPT !.fired = k]]
      BY <1>1, <2>4 DEF CountRows
    <3>2. k \in Nat
      BY CountType
    <3> HIDE DEF k
    <3>3. New([engine[d] EXCEPT !.fired = k])
      BY <1>1, <3>2 DEF EngineRecords, SameMemory
    <3> HIDE DEF New
    <3> QED
      BY <3>1, <3>3
  <2> QED
    BY <2>1, <2>2, <2>3, <2>4 DEF Looks
<1>6. PICK e : engine' = [engine EXCEPT ![d] = e] /\ New(e)
  BY <1>5
<1>7. engine' \in [Daemons -> EngineRecords] /\ engine'[d] = e
      /\ \A c \in Daemons : c # d => engine'[c] = engine[c]
  BY <1>1, <1>6
<1> QED
  BY <1>2, <1>6, <1>7

(* Passing over an instant only moves the cursor on.                       *)
LEMMA PassesOnly ==
  ASSUME TypeOK, NEW d \in Daemons, Passes(d)
  PROVE  /\ UNCHANGED <<conf, enabled, status, dispatched, fire, process, now, starts, manual,
                        faults>>
         /\ MoveCursor(NextFire(engine[d].at))
         /\ engine' = [engine EXCEPT ![d] = Idle(engine[d])]
         /\ engine[d].phase \notin {"down", "recover"}
BY DEF Passes, PassMissed, SkipOverlap, rowVars, bounds, TypeOK

\* What a decision makes of the memory e of its daemon, up to its phase.
Decided(e, f) ==
  /\ f \in EngineRecords
  /\ f.lock = "free" /\ f.running = e.running /\ f.todo = e.todo
  /\ \/ f.phase = "idle" /\ e.phase \notin {"down", "recover"}
     \/ f.phase = e.phase /\ f.due = e.due /\ f.at = e.at
Later(d, n) == IF conf.limit > 0 THEN engine[d].claimed + n ELSE engine[d].claims

(* A decision refuses, or puts off, or admits a new fire.                  *)
LEMMA DecidesOnly ==
  ASSUME TypeOK, NEW d \in Daemons, Decides(d)
  PROVE  /\ UNCHANGED <<conf, status, dispatched, process, now, starts, manual, faults>>
         /\ engine[d].lock # "free" /\ engine[d].fired \in Nat
         /\ \A c \in Daemons : c # d => engine'[c] = engine[c]
         /\ engine' \in [Daemons -> EngineRecords]
         /\ Decided(engine[d], engine'[d])
         /\ \/ /\ UNCHANGED fire /\ engine'[d].slots = engine[d].slots
               /\ \/ engine'[d].claims = engine[d].claims
                  \/ ~Exhausted(d) /\ engine'[d].claims = Later(d, 0)
            \/ /\ ~Exhausted(d) /\ engine[d].slots < Slots
               /\ \E claim, instant : Begin(d, claim, instant)
               /\ engine'[d].slots = engine[d].slots + 1
               /\ engine'[d].claims = Later(d, 1)
<1>1. /\ engine \in [Daemons -> EngineRecords] /\ engine[d] \in EngineRecords
      /\ engine[d].fired \in Nat \cup {Unread}
  BY DEF TypeOK, EngineRecords
<1>2. /\ UNCHANGED <<conf, status, dispatched, process, now, starts, manual, faults>>
      /\ engine[d].lock # "free" /\ engine[d].fired \in Nat
  BY <1>1 DEF Decides, RecoverMissed, Admission, Trigger, Answered, rowVars, bounds
<1> DEFINE u == Unlocked(engine[d])
           b == Later(d, 0)
           a == Later(d, 1)
           Out(e, x, s) == Decided(engine[d], e) /\ e.claims = x /\ e.slots = s
<1>3. u \in EngineRecords /\ Defer(d) \in EngineRecords /\ Admit(d) \in EngineRecords
  BY IdleType
<1>4. /\ u.lock = "free" /\ u.running = engine[d].running /\ u.todo = engine[d].todo
      /\ u.phase = engine[d].phase /\ u.due = engine[d].due /\ u.at = engine[d].at
      /\ u.claims = engine[d].claims /\ u.slots = engine[d].slots
  BY <1>1 DEF Unlocked, EngineRecords
<1>5. Defer(d) = [u EXCEPT !.claims = b] /\ Admit(d) = [u EXCEPT !.claims = a, !.slots = engine[d].slots + 1]
  <2> DEFINE b0 == IF conf.limit > 0 THEN engine[d].claimed ELSE u.claims
             a0 == IF conf.limit > 0 THEN engine[d].claimed + 1 ELSE u.claims
             s0 == u.slots + 1
  <2>1. Defer(d) = [u EXCEPT !.claims = b0] /\ Admit(d) = [u EXCEPT !.claims = a0, !.slots = s0]
    BY DEF Defer, Admit
  <2>2. engine[d].claimed \in Int
    BY <1>1 DEF EngineRecords
  <2>3. b0 = b /\ a0 = a /\ s0 = engine[d].slots + 1
    BY <1>4, <2>2 DEF Later
  <2> HIDE DEF u, a, b, b0, a0, s0
  <2> QED
    BY <2>1, <2>3
<1> HIDE DEF u, a, b
<1>6. ASSUME NEW n, NEW k
      PROVE  LET f == [u EXCEPT !.claims = n]
                 g == [u EXCEPT !.claims = n, !.slots = k] IN
             /\ f.lock = u.lock /\ f.running = u.running /\ f.todo = u.todo /\ f.phase = u.phase
             /\ f.due = u.due /\ f.at = u.at /\ f.claims = n /\ f.slots = u.slots
             /\ g.lock = u.lock /\ g.running = u.running /\ g.todo = u.todo /\ g.phase = u.phase
             /\ g.due = u.due /\ g.at = u.at /\ g.claims = n /\ g.slots = k
  BY <1>3 DEF EngineRecords
<1>7. /\ Out(u, engine[d].claims, engine[d].slots)
      /\ Out(Defer(d), b, engine[d].slots)
      /\ Out(Admit(d), a, engine[d].slots + 1)
  BY <1>3, <1>4, <1>5, <1>6 DEF Decided
<1>8. ASSUME NEW e \in EngineRecords, NEW x, NEW s, Out(e, x, s), engine[d].phase \notin {"down", "recover"}
      PROVE  Out(Idle(e), x, s)
  <2>1. ASSUME NEW f \in EngineRecords
        PROVE  /\ Idle(f).lock = f.lock /\ Idle(f).running = f.running /\ Idle(f).todo = f.todo
               /\ Idle(f).phase = "idle" /\ Idle(f).claims = f.claims /\ Idle(f).slots = f.slots
    BY <2>1 DEF Idle, EngineRecords
  <2>2. Idle(e) \in EngineRecords
    <3>1. ASSUME NEW f \in EngineRecords, NEW t \in Nat \cup {Never}, NEW n \in Nat
          PROVE  [f EXCEPT !.phase = "idle", !.due = t, !.at = n] \in EngineRecords
      BY DEF EngineRecords, Phases
    <3>2. Never \in Nat \cup {Never} /\ 0 \in Nat
      OBVIOUS
    <3> QED
      BY <3>1, <3>2, Zenon DEF Idle
  <2> QED
    BY <1>8, <2>1, <2>2 DEF Decided
<1>9. \E e, x, s :
        /\ engine' = [engine EXCEPT ![d] = e] /\ Out(e, x, s)
        /\ \/ UNCHANGED fire /\ x = engine[d].claims /\ s = engine[d].slots
           \/ UNCHANGED fire /\ ~Exhausted(d) /\ x = b /\ s = engine[d].slots
           \/ /\ ~Exhausted(d) /\ engine[d].slots < Slots
              /\ \E claim, instant : Begin(d, claim, instant)
              /\ x = a /\ s = engine[d].slots + 1
  <2>1. ASSUME NEW e \in {u, Defer(d), Admit(d)}, engine[d].phase \notin {"down", "recover"},
               NEW x, NEW s, Out(e, x, s)
        PROVE  Out(Idle(e), x, s)
    BY <1>3, <1>8, <2>1
  <2> HIDE DEF Out
  <2>2. CASE RecoverMissed(d) \/ Admission(d)
    <3>1. engine[d].phase \notin {"down", "recover"}
      BY <2>2 DEF RecoverMissed, Admission
    <3>2. /\ Out(Idle(u), engine[d].claims, engine[d].slots)
          /\ Out(Idle(Defer(d)), b, engine[d].slots)
          /\ Out(Idle(Admit(d)), a, engine[d].slots + 1)
      BY <1>7, <2>1, <3>1
    <3>3. \/ UNCHANGED fire /\ engine' = [engine EXCEPT ![d] = Idle(u)]
          \/ UNCHANGED fire /\ ~Exhausted(d) /\ engine' = [engine EXCEPT ![d] = Idle(Defer(d))]
          \/ /\ ~Exhausted(d) /\ engine[d].slots < Slots
             /\ \E claim, instant : Begin(d, claim, instant)
             /\ engine' = [engine EXCEPT ![d] = Idle(Admit(d))]
      BY <1>1, <2>2 DEF RecoverMissed, Admission, HasSlot, u
    <3> QED
      BY <3>2, <3>3
  <2>3. CASE Trigger(d)
    <3>1. \/ UNCHANGED fire /\ engine' = [engine EXCEPT ![d] = u]
          \/ UNCHANGED fire /\ ~Exhausted(d) /\ engine' = [engine EXCEPT ![d] = Defer(d)]
          \/ /\ ~Exhausted(d) /\ engine[d].slots < Slots
             /\ \E claim, instant : Begin(d, claim, instant)
             /\ engine' = [engine EXCEPT ![d] = Admit(d)]
      BY <1>1, <2>3 DEF Trigger, HasSlot, u
    <3> QED
      BY <1>7, <3>1
  <2> QED
    BY <2>2, <2>3 DEF Decides
<1>10. PICK e, x, s :
        /\ engine' = [engine EXCEPT ![d] = e] /\ Out(e, x, s)
        /\ \/ UNCHANGED fire /\ x = engine[d].claims /\ s = engine[d].slots
           \/ UNCHANGED fire /\ ~Exhausted(d) /\ x = b /\ s = engine[d].slots
           \/ /\ ~Exhausted(d) /\ engine[d].slots < Slots
              /\ \E claim, instant : Begin(d, claim, instant)
              /\ x = a /\ s = engine[d].slots + 1
  BY <1>9
<1>11. engine'[d] = e /\ \A c \in Daemons : c # d => engine'[c] = engine[c]
  BY <1>1, <1>10
<1>12. engine' \in [Daemons -> EngineRecords]
  BY <1>1, <1>10 DEF Decided
<1> QED
  BY <1>2, <1>10, <1>11, <1>12 DEF a, b

(* The tick, missed fires, manual triggers and the reaper keep the types.  *)
LEMMA TickType ==
  ASSUME TypeOK, NEW d \in Daemons, Ticks(d)
  PROVE  TypeOK'
<1>0. /\ engine[d] \in EngineRecords /\ engine[d].at \in Nat
      /\ engine[d].due \in Nat \cup {Never}
  BY DEF TypeOK, EngineRecords
<1>1. CASE Looks(d)
  BY <1>1, LooksOnly DEF TypeOK
<1>2. CASE Passes(d)
  <2>1. cursor' \in Nat \cup {Never} /\ rewound' \in BOOLEAN
    BY <1>0, <1>2, PassesOnly, NextFireType, MoveCursorType
  <2>2. engine' \in [Daemons -> EngineRecords]
    BY <1>2, PassesOnly, IdleType DEF TypeOK
  <2> QED
    BY <1>2, <2>1, <2>2, PassesOnly DEF TypeOK
<1>3. CASE Decides(d)
  <2>1. cursor' \in Nat \cup {Never} /\ rewound' \in BOOLEAN
    <3>1. CASE RecoverMissed(d)
      BY <1>0, <3>1, NextFireType, MoveCursorType DEF RecoverMissed, scheduleVars, TypeOK
    <3>2. CASE Admission(d) \/ Trigger(d)
      BY <3>2 DEF Admission, Trigger, scheduleVars, TypeOK
    <3> QED
      BY <1>3, <3>1, <3>2 DEF Decides
  <2>2. enabled' \in BOOLEAN
    BY <1>3 DEF Decides, RecoverMissed, Admission, Trigger, scheduleVars, TypeOK
  <2>3. fire' \in [Rows -> FireRecords]
    <3>1. NextFire(engine[d].at) \in Nat \cup {Never, NoClaim}
      BY <1>0, NextFireType
    <3>2. ASSUME NEW claim \in Nat \cup {Never, NoClaim}, NEW instant \in Nat \cup {Never},
                 Begin(d, claim, instant)
          PROVE  fire' \in [Rows -> FireRecords]
      BY <3>2, TopType, NextFreeType DEF Begin, TypeOK
    <3>3. \/ UNCHANGED fire
          \/ Begin(d, NextFire(engine[d].at), engine[d].due)
          \/ Begin(d, engine[d].due, engine[d].due)
          \/ Begin(d, NoClaim, Never)
      BY <1>3 DEF Decides, RecoverMissed, Admission, Trigger
    <3> QED
      BY <1>0, <3>1, <3>2, <3>3 DEF TypeOK
  <2> QED
    BY <1>3, <2>1, <2>2, <2>3, DecidesOnly DEF TypeOK
<1>4. ASSUME NEW r \in Rows, Reap(d, r)
      PROVE  TypeOK'
  BY <1>4 DEF Reap, TypeOK, scheduleVars, bounds, Statuses, Terminal
<1> QED
  BY <1>1, <1>2, <1>3, <1>4 DEF Ticks

(* The write of an occurrence.                                             *)
LEMMA RecordType ==
  ASSUME TypeOK, NEW r \in Rows, NEW st \in Statuses, Record(r, st)
  PROVE  /\ status' \in [Rows -> Statuses]
         /\ cursor' \in Nat \cup {Never} /\ rewound' \in BOOLEAN
<1>1. status' \in [Rows -> Statuses]
  BY DEF Record, TypeOK, Statuses, Terminal
<1>2. fire[r].at \in Nat
  BY DEF TypeOK, FireRecords
<1> QED
  BY <1>1, <1>2, NextFireType, MoveCursorType DEF Record, TypeOK

(* The daemon of a fire gives something back.                              *)
LEMMA KeepType ==
  ASSUME TypeOK, NEW d, NEW r \in Rows,
         Keep(d, Release(d, r)) \/ Keep(d, Leave(d, r))
  PROVE  engine' \in [Daemons -> EngineRecords]
BY ReleaseType DEF Keep, TypeOK

(* A fire up to the launch of its child.                                   *)
LEMMA BeginType ==
  ASSUME TypeOK, NEW r \in Rows,
         \/ Commit(r) \/ Abandon(r) \/ SetupFails(r) \/ NeverBegins(r)
         \/ LeaveUndispatched(r) \/ Launch(r)
  PROVE  TypeOK'
<1> USE NoFireType, EndedType
<1>0. /\ fire[r] \in FireRecords /\ faults \in Nat
      /\ "running" \in Statuses /\ "failed" \in Statuses
  BY DEF TypeOK, Statuses, Terminal
<1>1. CASE Commit(r)
  <2>1. status' \in [Rows -> Statuses] /\ cursor' \in Nat \cup {Never} /\ rewound' \in BOOLEAN
    BY <1>0, <1>1, RecordType DEF Commit
  <2>2. fire' \in [Rows -> FireRecords]
    <3>1. [fire[r] EXCEPT !.pc = "committed", !.limited = FALSE] \in FireRecords
      BY <1>0 DEF FireRecords, Steps
    <3> QED
      BY <1>1, <3>1 DEF Commit, TypeOK
  <2>3. engine' \in [Daemons -> EngineRecords]
    <3> DEFINE d == fire[r].by
               x == IF fire[r].limited THEN engine[d].claims - 1 ELSE engine[d].claims
               e == [engine[d] EXCEPT !.claims = x]
    <3>1. engine' = [engine EXCEPT ![d] = e]
      BY <1>1 DEF Commit, Keep
    <3>2. ASSUME d \in Daemons
          PROVE  e \in EngineRecords
      <4>1. engine[d] \in EngineRecords /\ x \in Int
        BY <3>2 DEF TypeOK, EngineRecords
      <4> HIDE DEF x
      <4> QED
        BY <4>1 DEF EngineRecords
    <3> HIDE DEF d, e
    <3> QED
      BY <3>1, <3>2 DEF TypeOK
  <2> QED
    BY <1>1, <2>1, <2>2, <2>3 DEF Commit, TypeOK, bounds
<1>2. CASE Abandon(r)
  <2>1. engine' \in [Daemons -> EngineRecords]
    BY <1>2, KeepType DEF Abandon
  <2> QED
    BY <1>2, <2>1 DEF Abandon, TypeOK, scheduleVars, rowVars, bounds
<1>3. CASE SetupFails(r)
  <2>1. engine' \in [Daemons -> EngineRecords]
    BY <1>3, KeepType DEF SetupFails
  <2>2. CASE Mine(r)
    <3>1. status' \in [Rows -> Statuses] /\ cursor' \in Nat \cup {Never} /\ rewound' \in BOOLEAN
      BY <1>0, <1>3, <2>2, RecordType DEF SetupFails
    <3>2. enabled' \in BOOLEAN
      BY <1>3, <2>2 DEF SetupFails, CheckMaxRuns
    <3>3. fire' \in [Rows -> FireRecords]
      BY <1>3, <2>2 DEF SetupFails, TypeOK
    <3> QED
      BY <1>3, <1>0, <2>1, <3>1, <3>2, <3>3 DEF SetupFails, Fault, TypeOK
  <2>3. CASE ~Mine(r)
    <3>1. fire' \in [Rows -> FireRecords]
      BY <1>3, <2>3 DEF SetupFails, TypeOK
    <3> QED
      BY <1>3, <1>0, <2>1, <2>3, <3>1 DEF SetupFails, Fault, TypeOK, scheduleVars
  <2> QED
    BY <2>2, <2>3
<1>4. CASE NeverBegins(r)
  <2>1. engine' \in [Daemons -> EngineRecords]
    BY <1>4, KeepType DEF NeverBegins
  <2> QED
    BY <1>0, <1>4, <2>1 DEF NeverBegins, Fault, TypeOK, scheduleVars, rowVars
<1>5. CASE LeaveUndispatched(r)
  <2>1. engine' \in [Daemons -> EngineRecords]
    BY <1>5, KeepType DEF LeaveUndispatched
  <2> QED
    BY <1>0, <1>5, <2>1 DEF LeaveUndispatched, Fault, TypeOK, scheduleVars, rowVars
<1>6. CASE Launch(r)
  <2>1. fire' \in [Rows -> FireRecords]
    BY <1>0, <1>6 DEF Launch, TypeOK, FireRecords, Steps
  <2>2. engine' \in [Daemons -> EngineRecords]
    <3> DEFINE d == fire[r].by
               x == IF fire[r].depth = 0 THEN r ELSE engine[d].running
               e == [engine[d] EXCEPT !.running = x]
    <3>1. engine' = [engine EXCEPT ![d] = e]
      BY <1>6 DEF Launch, Keep
    <3>2. ASSUME d \in Daemons
          PROVE  e \in EngineRecords
      <4>1. engine[d] \in EngineRecords /\ x \in Rows \cup {NoRow}
        BY <3>2 DEF TypeOK, EngineRecords
      <4> HIDE DEF x
      <4> QED
        BY <4>1 DEF EngineRecords
    <3> HIDE DEF d, e
    <3> QED
      BY <3>1, <3>2 DEF TypeOK
  <2> QED
    BY <1>6, <2>1, <2>2 DEF Launch, TypeOK, scheduleVars, rowVars, bounds, Verdicts
<1> QED
  BY <1>1, <1>2, <1>3, <1>4, <1>5, <1>6

(* A fire from the launch of its child to its end.                         *)
LEMMA EndType ==
  ASSUME TypeOK, NEW r \in Rows,
         Confirm(r) \/ Finish(r) \/ Deadline(r) \/ Settle(r) \/ Close(r)
  PROVE  TypeOK'
<1> USE EndedType
<1>0. fire[r] \in FireRecords /\ faults \in Nat
  BY DEF TypeOK
<1>1. CASE Confirm(r)
  <2>1. fire' \in [Rows -> FireRecords]
    BY <1>0, <1>1 DEF Confirm, TypeOK, FireRecords, Steps
  <2> QED
    BY <1>0, <1>1, <2>1 DEF Confirm, Fault, TypeOK, scheduleVars
<1>2. CASE Finish(r)
  <2>1. fire' \in [Rows -> FireRecords]
    BY <1>0, <1>2 DEF Finish, TypeOK, FireRecords, Steps
  <2>2. status' \in [Rows -> Statuses]
    BY <1>2 DEF Finish, Finalized, TypeOK, Statuses, Terminal
  <2> QED
    BY <1>2, <2>1, <2>2 DEF Finish, TypeOK, scheduleVars, bounds
<1>3. CASE Deadline(r)
  <2>1. fire' \in [Rows -> FireRecords]
    BY <1>0, <1>3 DEF Deadline, TypeOK, FireRecords, Steps
  <2>2. status' \in [Rows -> Statuses]
    BY <1>3 DEF Deadline, Finalized, TypeOK, Statuses, Terminal
  <2> QED
    BY <1>3, <2>1, <2>2 DEF Deadline, TypeOK, scheduleVars, bounds, Verdicts
<1>4. CASE Settle(r)
  <2>1. enabled' \in BOOLEAN
    BY <1>4 DEF Settle, CheckMaxRuns
  <2>2. CASE MayChain(r)
    <3>1. Child(fire[r].by, r) \in FireRecords
      BY <1>0, <2>2, ChildType DEF FireRecords
    <3>2. [fire[r] EXCEPT !.pc = "chaining"] \in FireRecords
      BY <1>0 DEF FireRecords, Steps
    <3>3. PICK n \in NextFree :
            fire' = [fire EXCEPT ![n] = Child(fire[r].by, r),
                                 ![r] = [@ EXCEPT !.pc = "chaining"]]
      BY <1>4, <2>2 DEF Settle
    <3>4. n # r
      BY <1>4 DEF Settle, Pc, NextFree, Free, Active
    <3>5. fire' \in [Rows -> FireRecords]
      BY <3>1, <3>2, <3>3, <3>4, NextFreeType DEF TypeOK
    <3> QED
      BY <1>4, <2>1, <2>2, <3>5 DEF Settle, TypeOK, rowVars, bounds
  <2>3. CASE ~MayChain(r)
    <3>1. engine' \in [Daemons -> EngineRecords]
      BY <1>4, <2>3, KeepType DEF Settle
    <3> QED
      BY <1>4, <2>1, <2>3, <3>1 DEF Settle, TypeOK, rowVars, bounds
  <2> QED
    BY <2>2, <2>3
<1>5. CASE Close(r)
  <2>1. engine' \in [Daemons -> EngineRecords]
    BY <1>5, KeepType DEF Close
  <2>2. enabled' \in BOOLEAN
    BY <1>5 DEF Close, CheckMaxRuns, TypeOK
  <2> QED
    BY <1>5, <2>1, <2>2 DEF Close, TypeOK, rowVars, bounds
<1> QED
  BY <1>1, <1>2, <1>3, <1>4, <1>5

(* What a stopped daemon leaves behind.                                    *)
LEMMA ForgottenType ==
  ASSUME TypeOK, NEW d \in Daemons
  PROVE  Forgotten(d) \in [Rows -> FireRecords]
<1>1. \A r \in Rows : fire[r] \in FireRecords /\ Ended(r) \in FireRecords
  BY EndedType DEF TypeOK
<1> QED
  BY <1>1, NoFireType DEF Forgotten

(* Children, time, crashes and shutdowns.                                  *)
LEMMA WorldType ==
  ASSUME TypeOK,
         \/ Advance \/ \E r \in Rows : ChildEnds(r)
         \/ \E d \in Daemons : Crash(d) \/ Stop(d)
  PROVE  TypeOK'
<1>1. CASE Advance
  BY <1>1 DEF Advance, TypeOK, scheduleVars, rowVars, bounds
<1>2. ASSUME NEW r \in Rows, ChildEnds(r)
      PROVE  TypeOK'
  BY <1>2 DEF ChildEnds, TypeOK, scheduleVars, rowVars, bounds, Verdicts
<1>3. ASSUME NEW d \in Daemons, Crash(d)
      PROVE  TypeOK'
  <2>1. fire' \in [Rows -> FireRecords] /\ engine' \in [Daemons -> EngineRecords]
    BY <1>3, ForgottenType, NoEngineType DEF Crash, TypeOK
  <2> QED
    BY <1>3, <2>1 DEF Crash, Fault, TypeOK, scheduleVars, rowVars
<1>4. ASSUME NEW d \in Daemons, Stop(d)
      PROVE  TypeOK'
  <2>1. fire' \in [Rows -> FireRecords] /\ engine' \in [Daemons -> EngineRecords]
    BY <1>4, ForgottenType, NoEngineType DEF Stop, TypeOK
  <2>2. status' \in [Rows -> Statuses] /\ process' \in [Rows -> {"none", "live"} \cup Verdicts]
    BY <1>4 DEF Stop, TypeOK, Statuses, Terminal, Verdicts
  <2>3. enabled' \in BOOLEAN
    BY <1>4 DEF Stop
  <2> QED
    BY <1>4, <2>1, <2>2, <2>3 DEF Stop, Fault, TypeOK
<1> QED
  BY <1>1, <1>2, <1>3, <1>4

(* Every step keeps the types.                                             *)
LEMMA NextType == TypeOK /\ [Next]_vars => TypeOK'
<1> SUFFICES ASSUME TypeOK, [Next]_vars
             PROVE  TypeOK'
  OBVIOUS
<1>1. CASE UNCHANGED vars
  BY <1>1 DEF TypeOK, vars, scheduleVars, rowVars, bounds
<1> QED
  BY <1>1, RepairType, TickType, BeginType, EndType, WorldType
     DEF Next, Daemon, Fires, Failures, Ticks, Looks, Passes, Decides

(* All variables have their types; no chain is deeper than _MAX_CHAIN_DEPTH.*)
THEOREM ScheduleTypeCorrect == Spec => []TypeOK
<1> QED
  BY InitType, NextType, PTL DEF Spec

-----------------------------------------------------------------------------
(* Outcomes are final.                                                     *)

(* A fire that has begun has no row yet.                                   *)
Fresh == \A r \in Rows : fire[r].pc = "begun" => status[r] = "none"
Kept == \A r \in Rows : status[r] \in Terminal => status'[r] = status[r]

(* What an occurrence replaces was running.                                *)
LEMMA RecordKeeps ==
  ASSUME TypeOK, Fresh, NEW r \in Rows, NEW st \in Statuses, st # "none",
         fire[r].pc = "begun", Mine(r), Record(r, st)
  PROVE  /\ Kept
         /\ status'[r] = st
         /\ \A q \in Rows : status'[q] = "none" <=> status[q] = "none" /\ q # r
<1>1. status[r] = "none"
  BY DEF Fresh
<1>2. ASSUME NEW q \in Rows, q # r, q = fire[r].replaces
      PROVE  status[q] = "running"
  BY <1>2 DEF Mine, Undispatched, NoRow, Rows
<1>3. fire[r].replaces # r
  BY <1>1 DEF Mine, Undispatched, NoRow, Rows
<1>4. \A q \in Rows : status'[q] = IF q = r THEN st
                                   ELSE IF q = fire[r].replaces THEN "failed" ELSE status[q]
  BY <1>3 DEF Record
<1> QED
  BY <1>1, <1>2, <1>4 DEF Kept, Terminal

(* The repair passes keep outcomes, and no begun fire gets a row from      *)
(* them.                                                                   *)
LEMMA RepairKeeps ==
  ASSUME TypeOK, Fresh, NEW d \in Daemons,
         \/ Start(d) \/ RecoverDone(d) \/ ReconcileDone(d)
         \/ \E r \in Rows : RecoverRow(d, r) \/ ReconcileRow(d, r)
  PROVE  Fresh' /\ Kept
<1>1. CASE Start(d) \/ RecoverDone(d) \/ ReconcileDone(d)
  BY <1>1 DEF Start, RecoverDone, ReconcileDone, Fresh, Kept, rowVars
<1>2. ASSUME NEW r \in Rows, RecoverRow(d, r)
      PROVE  Fresh' /\ Kept
  BY <1>2 DEF RecoverRow, Fresh, Kept, TypeOK, NextFree, Free, Terminal
<1>3. ASSUME NEW r \in Rows, ReconcileRow(d, r)
      PROVE  Fresh' /\ Kept
  <2>1. CASE process[r] = "done" /\ status[r] = "running"
    <3>1. status' = [status EXCEPT ![r] = "completed"]
      BY <1>3, <2>1 DEF ReconcileRow
    <3>2. \/ UNCHANGED fire
          \/ \E n \in NextFree : fire' = [fire EXCEPT ![n] = Child(d, r)]
      BY <1>3, <2>1 DEF ReconcileRow
    <3> QED
      BY <2>1, <3>1, <3>2 DEF Fresh, Kept, TypeOK, NextFree, Free, Terminal
  <2>2. CASE ~(process[r] = "done" /\ status[r] = "running")
    BY <1>3, <2>2 DEF ReconcileRow, Fresh, Kept
  <2> QED
    BY <2>1, <2>2
<1> QED
  BY <1>1, <1>2, <1>3

(* So does everything the tick, the trigger and the reaper do.             *)
LEMMA TickKeeps ==
  ASSUME TypeOK, Fresh, NEW d \in Daemons, Ticks(d)
  PROVE  Fresh' /\ Kept
<1>1. CASE Looks(d)
  BY <1>1, LooksOnly DEF Fresh, Kept
<1>2. CASE Passes(d)
  BY <1>2, PassesOnly DEF Fresh, Kept
<1>3. CASE Decides(d)
  <2>1. UNCHANGED status
    BY <1>3, DecidesOnly
  <2>2. \/ UNCHANGED fire
        \/ \E n \in NextFree : \E f : fire' = [fire EXCEPT ![n] = f]
    BY <1>3, DecidesOnly DEF Begin
  <2> QED
    BY <2>1, <2>2 DEF Fresh, Kept, TypeOK, NextFree, Free
<1>4. ASSUME NEW r \in Rows, Reap(d, r)
      PROVE  Fresh' /\ Kept
  BY <1>4 DEF Reap, Fresh, Kept, TypeOK, Terminal
<1> QED
  BY <1>1, <1>2, <1>3, <1>4 DEF Ticks

(* So does every step of a fire, its ends included.                        *)
LEMMA FireKeeps ==
  ASSUME TypeOK, Fresh, NEW r \in Rows, Fires(r) \/ Failures(r) \/ Deadline(r)
  PROVE  Fresh' /\ Kept
<1> USE DEF Pc
<1>0. /\ fire[r] \in FireRecords /\ "running" \in Statuses /\ "failed" \in Statuses
      /\ Ended(r).pc = "idle" /\ NoFire.pc = "idle"
  BY DEF TypeOK, Statuses, Terminal, Ended, NoFire, FireRecords
<1>1. CASE Commit(r) \/ SetupFails(r)
  <2>1. CASE Mine(r)
    <3>1. PICK st \in {"running", "failed"} : Record(r, st)
      BY <1>1, <2>1 DEF Commit, SetupFails
    <3>2. /\ Kept
          /\ \A q \in Rows : status'[q] = "none" <=> status[q] = "none" /\ q # r
      BY <1>0, <1>1, <2>1, <3>1, RecordKeeps DEF Commit, SetupFails
    <3>3. \A q \in Rows : q # r => fire'[q] = fire[q]
      BY <1>1, <2>1 DEF Commit, SetupFails, TypeOK
    <3>4. fire'[r].pc # "begun"
      BY <1>0, <1>1, <2>1 DEF Commit, SetupFails, TypeOK, FireRecords
    <3> QED
      BY <3>2, <3>3, <3>4 DEF Fresh
  <2>2. CASE ~Mine(r)
    BY <1>0, <1>1, <2>2 DEF Commit, SetupFails, Fresh, Kept, TypeOK
  <2> QED
    BY <2>1, <2>2
<1>2. CASE \/ Abandon(r) \/ NeverBegins(r) \/ LeaveUndispatched(r)
           \/ Launch(r) \/ Confirm(r) \/ Close(r)
  <2>1. UNCHANGED status
    BY <1>2 DEF Abandon, NeverBegins, LeaveUndispatched, Launch, Confirm, Close, rowVars
  <2>2. \A q \in Rows : q # r => fire'[q] = fire[q]
    BY <1>2 DEF Abandon, NeverBegins, LeaveUndispatched, Launch, Confirm, Close, TypeOK
  <2>3. fire'[r].pc # "begun"
    BY <1>0, <1>2 DEF Abandon, NeverBegins, LeaveUndispatched, Launch, Confirm, Close, TypeOK,
                      FireRecords
  <2> QED
    BY <2>1, <2>2, <2>3 DEF Fresh, Kept
<1>3. CASE Finish(r) \/ Deadline(r)
  <2>1. \E as : status' = Finalized(r, as)
    BY <1>3 DEF Finish, Deadline
  <2>2. \A q \in Rows : status[q] # "running" => status'[q] = status[q]
    BY <2>1 DEF Finalized, TypeOK
  <2>3. \A q \in Rows : fire'[q].pc = "begun" => fire[q].pc = "begun"
    BY <1>0, <1>3 DEF Finish, Deadline, TypeOK, FireRecords
  <2> QED
    BY <2>2, <2>3 DEF Fresh, Kept, Terminal
<1>4. CASE Settle(r)
  <2>1. UNCHANGED status
    BY <1>4 DEF Settle, rowVars
  <2>2. CASE MayChain(r)
    <3>1. PICK n \in NextFree :
            fire' = [fire EXCEPT ![n] = Child(fire[r].by, r),
                                 ![r] = [@ EXCEPT !.pc = "chaining"]]
      BY <1>4, <2>2 DEF Settle
    <3>2. n \in Rows /\ n # r /\ status[n] = "none"
      BY <1>4 DEF Settle, NextFree, Free, Active
    <3>3. \A q \in Rows : q # n /\ q # r => fire'[q] = fire[q]
      BY <3>1 DEF TypeOK
    <3>4. fire'[r].pc = "chaining"
      BY <1>0, <3>1, <3>2 DEF TypeOK, FireRecords
    <3> QED
      BY <2>1, <3>2, <3>3, <3>4 DEF Fresh, Kept
  <2>3. CASE ~MayChain(r)
    BY <1>0, <1>4, <2>1, <2>3 DEF Settle, Fresh, Kept, TypeOK
  <2> QED
    BY <2>2, <2>3
<1> QED
  BY <1>1, <1>2, <1>3, <1>4 DEF Fires, Failures

(* So do time, children, crashes and shutdowns.                            *)
LEMMA WorldKeeps ==
  ASSUME TypeOK, Fresh,
         \/ Advance \/ \E r \in Rows : ChildEnds(r)
         \/ \E d \in Daemons : Crash(d) \/ Stop(d)
  PROVE  Fresh' /\ Kept
<1>1. CASE Advance
  BY <1>1 DEF Advance, Fresh, Kept, rowVars
<1>2. ASSUME NEW r \in Rows, ChildEnds(r)
      PROVE  Fresh' /\ Kept
  BY <1>2 DEF ChildEnds, Fresh, Kept, rowVars
<1>3. ASSUME NEW d \in Daemons, fire' = Forgotten(d)
      PROVE  \A r \in Rows : fire'[r].pc = "begun" => fire[r].pc = "begun"
  <2>1. \A r \in Rows : Ended(r).pc = "idle" /\ NoFire.pc = "idle"
    BY DEF TypeOK, Ended, NoFire, FireRecords
  <2> QED
    BY <1>3, <2>1 DEF Forgotten
<1>4. ASSUME NEW d \in Daemons, Crash(d) \/ Stop(d)
      PROVE  Fresh' /\ Kept
  <2>1. \A r \in Rows : fire'[r].pc = "begun" => fire[r].pc = "begun"
    BY <1>3, <1>4 DEF Crash, Stop
  <2>2. \A r \in Rows : status[r] # "running" => status'[r] = status[r]
    BY <1>4 DEF Crash, Stop, rowVars
  <2> QED
    BY <2>1, <2>2 DEF Fresh, Kept, Terminal
<1> QED
  BY <1>1, <1>2, <1>4

(* Every step keeps the outcomes on record and the freshness of begun      *)
(* fires.                                                                  *)
LEMMA NextKeeps == TypeOK /\ Fresh /\ [Next]_vars => Fresh' /\ Kept
<1> SUFFICES ASSUME TypeOK, Fresh, [Next]_vars
             PROVE  Fresh' /\ Kept
  OBVIOUS
<1>1. CASE UNCHANGED vars
  BY <1>1 DEF Fresh, Kept, vars, rowVars
<1> QED
  BY <1>1, RepairKeeps, TickKeeps, FireKeeps, WorldKeeps
     DEF Next, Daemon, Ticks, Looks, Passes, Decides

(* Hence a begun fire never has a row.                                     *)
LEMMA AlwaysFresh == Spec => []Fresh
<1>1. Init => Fresh
  BY DEF Init, Fresh
<1> QED
  BY <1>1, NextKeeps, ScheduleTypeCorrect, PTL DEF Spec

(* Executor, reconcile pass, orphan recovery, reaper and shutdown may all  *)
(* finalize a run; the outcome on record first stays.                      *)
THEOREM OutcomeStays == Spec => OutcomeIsFinal
<1>1. TypeOK /\ Fresh /\ [Next]_vars => [\A r \in Rows : status[r] \in Terminal => status'[r] = status[r]]_vars
  BY NextKeeps DEF Kept
<1> QED
  BY <1>1, AlwaysFresh, ScheduleTypeCorrect, PTL DEF Spec, OutcomeIsFinal

-----------------------------------------------------------------------------
(* One run per instant.                                                    *)

(* What a tick, or the pass over missed fires, has read was due then.      *)
EngineTimes ==
  \A d \in Daemons :
    engine[d].phase \in {"missed", "owed", "gate", "count"} =>
      engine[d].due # Never /\ engine[d].due <= engine[d].at /\ engine[d].at <= now

(* A fire that stands for an instant claims the cursor, and is no earlier  *)
(* than its instant.                                                       *)
Waiting(r) == fire[r].pc = "begun" /\ fire[r].replaces = NoRow /\ fire[r].instant # Never
FireTimes == \A r \in Rows : Waiting(r) => fire[r].instant <= fire[r].at /\ fire[r].claim # NoClaim

(* Fires of missed instants move the cursor before they begin, so they own *)
(* their instant as the runs on record do; the cursor is past all of these.*)
Taken(r) == Recorded(r) \/ (Waiting(r) /\ fire[r].claim # fire[r].instant)
Passed(i) == cursor = Never \/ i < cursor
InstantsTaken ==
  ~rewound =>
    /\ \A r \in Rows : Taken(r) => Passed(fire[r].instant)
    /\ \A p, q \in Rows : Taken(p) /\ Taken(q) /\ fire[p].instant = fire[q].instant => p = q

Forward ==
  /\ cursor' \in Nat \cup {Never}
  /\ ~rewound' => ~rewound /\ (cursor' = Never \/ (cursor # Never /\ cursor <= cursor'))

(* No write moves the cursor back without leaving its mark.                *)
LEMMA MovesForward ==
  ASSUME TypeOK, NEW to \in Nat \cup {Never}, MoveCursor(to)
  PROVE  Forward
<1>1. cursor' = to /\ (~rewound' => ~rewound /\ ~(to # Never /\ (cursor = Never \/ to < cursor)))
  BY Zenon DEF MoveCursor
<1> QED
  BY <1>1 DEF Forward, TypeOK, Never

(* As long as nothing new is taken and the cursor does not go back, there  *)
(* is nothing to show.                                                     *)
LEMMA Steady ==
  ASSUME TypeOK, InstantsTaken, Forward,
         \A q \in Rows : Taken(q)' => Taken(q) /\ fire'[q].instant = fire[q].instant
  PROVE  InstantsTaken'
<1>1. \A q \in Rows : fire[q].instant \in Nat \cup {Never}
  BY DEF TypeOK, FireRecords
<1>2. \A q \in Rows : Taken(q) => fire[q].instant \in Nat
  BY <1>1 DEF Taken, Recorded, Waiting
<1> SUFFICES ASSUME ~rewound'
             PROVE  /\ \A r \in Rows : Taken(r)' => Passed(fire[r].instant)'
                    /\ \A p, q \in Rows :
                         Taken(p)' /\ Taken(q)' /\ fire'[p].instant = fire'[q].instant => p = q
  BY DEF InstantsTaken
<1>3. cursor \in Nat \cup {Never}
  BY DEF TypeOK
<1>4. \A r \in Rows : Taken(r)' => Passed(fire[r].instant)'
  BY <1>2, <1>3 DEF InstantsTaken, Forward, Passed, Never
<1>5. \A p, q \in Rows : Taken(p)' /\ Taken(q)' /\ fire'[p].instant = fire'[q].instant => p = q
  BY DEF InstantsTaken, Forward
<1> QED
  BY <1>4, <1>5

(* One more instant is taken, which the cursor was at and is now past.     *)
LEMMA OneMore ==
  ASSUME TypeOK, InstantsTaken, Forward, NEW n \in Rows, NEW i \in Nat,
         cursor = i, cursor' = Never \/ i < cursor', fire'[n].instant = i,
         \A q \in Rows : Taken(q)' /\ q # n => Taken(q) /\ fire'[q].instant = fire[q].instant
  PROVE  InstantsTaken'
<1>1. \A q \in Rows : fire[q].instant \in Nat \cup {Never}
  BY DEF TypeOK, FireRecords
<1>2. \A q \in Rows : Taken(q) => fire[q].instant \in Nat
  BY <1>1 DEF Taken, Recorded, Waiting
<1> SUFFICES ASSUME ~rewound'
             PROVE  /\ \A r \in Rows : Taken(r)' => Passed(fire[r].instant)'
                    /\ \A p, q \in Rows :
                         Taken(p)' /\ Taken(q)' /\ fire'[p].instant = fire'[q].instant => p = q
  BY DEF InstantsTaken
<1>3. cursor # Never /\ ~rewound /\ (cursor' = Never \/ cursor <= cursor')
  BY DEF Forward, Never
<1>4. \A q \in Rows : Taken(q)' /\ q # n => fire[q].instant < i /\ fire'[q].instant = fire[q].instant
  BY <1>2, <1>3 DEF InstantsTaken, Passed
<1>5. ASSUME NEW q \in Rows, Taken(q)'
      PROVE  Passed(fire[q].instant)'
  <2>1. CASE q = n
    BY <1>5, <2>1 DEF Passed
  <2>2. CASE q # n
    BY <1>2, <1>3, <1>4, <1>5, <2>2 DEF Passed, Forward, TypeOK, Never
  <2> QED
    BY <2>1, <2>2
<1>6. ASSUME NEW p \in Rows, NEW q \in Rows, Taken(p)', Taken(q)',
             fire'[p].instant = fire'[q].instant
      PROVE  p = q
  <2>1. CASE p # n /\ q # n
    BY <1>3, <1>6, <2>1 DEF InstantsTaken
  <2>2. CASE p = n \/ q = n
    BY <1>2, <1>4, <1>6, <2>2
  <2> QED
    BY <2>1, <2>2
<1> QED
  BY <1>5, <1>6

InstantInv == EngineTimes /\ FireTimes /\ InstantsTaken

(* A fire written over a free row takes nothing, unless it is a recovered  *)
(* one.                                                                    *)
LEMMA FreeTakesNothing ==
  ASSUME TypeOK, FireTimes, InstantsTaken, Forward, NEW n \in NextFree, NEW f \in FireRecords,
         fire' = [fire EXCEPT ![n] = f],
         \A q \in Rows : status'[q] = "none" <=> status[q] = "none",
         f.replaces # NoRow \/ f.instant = Never
           \/ (f.claim = f.instant /\ f.instant <= f.at /\ f.claim # NoClaim)
  PROVE  FireTimes' /\ InstantsTaken'
<1>1. n \in Rows /\ status[n] = "none"
  BY DEF NextFree, Free
<1>2. fire'[n] = f /\ \A q \in Rows : q # n => fire'[q] = fire[q]
  BY <1>1 DEF TypeOK
<1>3. FireTimes'
  BY <1>2 DEF FireTimes, Waiting
<1>4. ~Taken(n)'
  BY <1>1, <1>2 DEF Taken, Recorded, Waiting
<1>5. \A q \in Rows : Taken(q)' => Taken(q) /\ fire'[q].instant = fire[q].instant
  BY <1>2, <1>4 DEF Taken, Recorded, Waiting
<1> QED
  BY <1>3, <1>5, Steady

(* Rows that only move on, end, or are closed take nothing either.         *)
LEMMA MovingTakesNothing ==
  ASSUME TypeOK, FireTimes, InstantsTaken, Forward,
         \A q \in Rows : status'[q] = "none" <=> status[q] = "none",
         \A q \in Rows : \/ fire'[q] = fire[q]
                         \/ fire'[q] = NoFire
                         \/ /\ fire'[q].pc # "begun"
                            /\ fire'[q].replaces = fire[q].replaces
                            /\ fire'[q].instant = fire[q].instant
  PROVE  FireTimes' /\ InstantsTaken'
<1>1. NoFire.pc = "idle" /\ NoFire.instant = Never
  BY DEF NoFire
<1>2. FireTimes'
  BY <1>1 DEF FireTimes, Waiting
<1>3. \A q \in Rows : Taken(q)' => Taken(q) /\ fire'[q].instant = fire[q].instant
  BY <1>1 DEF Taken, Recorded, Waiting
<1> QED
  BY <1>2, <1>3, Steady

(* A cursor nobody writes has not gone back.                               *)
LEMMA StandsStill ==
  ASSUME TypeOK, UNCHANGED <<cursor, rewound>>
  PROVE  Forward
BY DEF TypeOK, Forward, Never

(* The repair passes take no instant: an orphan's replacement is not       *)
(* counted.                                                                *)
LEMMA RepairInstants ==
  ASSUME TypeOK, Fresh, InstantInv, NEW d \in Daemons,
         \/ Start(d) \/ RecoverDone(d) \/ ReconcileDone(d)
         \/ \E r \in Rows : RecoverRow(d, r) \/ ReconcileRow(d, r)
  PROVE  InstantInv'
<1> USE DEF InstantInv
<1>0. engine \in [Daemons -> EngineRecords] /\ engine[d] \in EngineRecords /\ now \in Nat
      /\ cursor \in Nat \cup {Never}
  BY DEF TypeOK
<1>1. CASE Start(d) \/ RecoverDone(d) \/ ReconcileDone(d)
  <2>1. EngineTimes'
    <3>1. CASE Start(d)
      BY <1>0, <3>1 DEF Start, EngineTimes, NoEngine
    <3>2. CASE RecoverDone(d)
      BY <1>0, <3>2 DEF RecoverDone, EngineTimes, EngineRecords
    <3>3. CASE ReconcileDone(d)
      BY <1>0, <3>3 DEF ReconcileDone, EngineTimes, EngineRecords, Due
    <3> QED
      BY <1>1, <3>1, <3>2, <3>3
  <2>2. UNCHANGED <<cursor, rewound, status, fire>>
    BY <1>1 DEF Start, RecoverDone, ReconcileDone, scheduleVars, rowVars
  <2> QED
    BY <2>1, <2>2, StandsStill, MovingTakesNothing
<1>2. ASSUME NEW r \in Rows, RecoverRow(d, r)
      PROVE  InstantInv'
  <2>1. EngineTimes'
    BY <1>0, <1>2 DEF RecoverRow, EngineTimes, EngineRecords
  <2>2. Forward /\ \A q \in Rows : status'[q] = "none" <=> status[q] = "none"
    BY <1>2, StandsStill DEF RecoverRow, scheduleVars, TypeOK
  <2>3. CASE UNCHANGED fire
    BY <2>1, <2>2, <2>3, MovingTakesNothing
  <2>4. CASE fire' # fire
    <3>1. PICK n \in NextFree :
            fire' = [fire EXCEPT ![n] =
              [NoFire EXCEPT !.pc = "begun", !.by = d, !.replaces = r,
                             !.instant = fire[r].instant, !.at = now]]
      BY <1>2, <2>4 DEF RecoverRow
    <3> DEFINE f == [NoFire EXCEPT !.pc = "begun", !.by = d, !.replaces = r,
                                   !.instant = fire[r].instant, !.at = now]
    <3>2. f = fire'[n]
      BY <3>1, NextFreeType DEF TypeOK
    <3>3. fire' \in [Rows -> FireRecords]
      BY <1>2, RepairType DEF TypeOK
    <3>4. f \in FireRecords
      BY <3>2, <3>3, NextFreeType
    <3>5. f.replaces # NoRow
      BY DEF NoFire, NoRow, Rows
    <3> HIDE DEF f
    <3> QED
      BY <2>1, <2>2, <3>1, <3>4, <3>5, FreeTakesNothing DEF f
  <2> QED
    BY <2>3, <2>4
<1>3. ASSUME NEW r \in Rows, ReconcileRow(d, r)
      PROVE  InstantInv'
  <2>1. EngineTimes'
    BY <1>0, <1>3 DEF ReconcileRow, EngineTimes, EngineRecords
  <2>2. Forward /\ \A q \in Rows : status'[q] = "none" <=> status[q] = "none"
    BY <1>3, StandsStill DEF ReconcileRow, TypeOK
  <2>3. CASE UNCHANGED fire
    BY <2>1, <2>2, <2>3, MovingTakesNothing
  <2>4. CASE fire' # fire
    <3>1. MayChain(r) /\ \E n \in NextFree : fire' = [fire EXCEPT ![n] = Child(d, r)]
      BY <1>3, <2>4 DEF ReconcileRow
    <3>2. Child(d, r) \in FireRecords /\ Child(d, r).instant = Never
      BY <3>1, ChildType DEF Child, NoFire
    <3> QED
      BY <2>1, <2>2, <3>1, <3>2, FreeTakesNothing
  <2> QED
    BY <2>3, <2>4
<1> QED
  BY <1>1, <1>2, <1>3

(* The next instant after a time is past whatever was due by then.         *)
LEMMA NextIsLater ==
  ASSUME NEW at \in Nat, NEW i \in Int, i <= at
  PROVE  NextFire(at) = Never \/ i < NextFire(at)
BY DEF NextFire

(* What is read is read of a schedule that is due, and kept until the tick *)
(* is done with it.                                                        *)
LEMMA TickTimes ==
  ASSUME TypeOK, EngineTimes, NEW d \in Daemons, Ticks(d)
  PROVE  EngineTimes'
<1>1. /\ engine \in [Daemons -> EngineRecords] /\ engine[d] \in EngineRecords
      /\ now \in Nat /\ cursor \in Nat \cup {Never}
  BY DEF TypeOK
<1> DEFINE Dated(e) == e.phase \in {"missed", "owed", "gate", "count"}
           Timely(e) == Dated(e) => e.due # Never /\ e.due <= e.at /\ e.at <= now
           Same(e, f) == Dated(f) => Dated(e) /\ f.due = e.due /\ f.at = e.at
<1>2. now' = now /\ \A c \in Daemons : c # d => engine'[c] = engine[c]
  <2>1. CASE Looks(d)
    BY <2>1, LooksOnly
  <2>2. CASE Passes(d)
    BY <1>1, <2>2, PassesOnly
  <2>3. CASE Decides(d)
    BY <2>3, DecidesOnly
  <2>4. CASE \E r \in Rows : Reap(d, r)
    BY <2>4 DEF Reap
  <2> QED
    BY <2>1, <2>2, <2>3, <2>4 DEF Ticks
<1>3. Timely(engine'[d]) \/ Same(engine[d], engine'[d])
  <2>1. CASE Tick(d)
    BY <1>1, <2>1 DEF Tick, Due, EngineRecords
  <2>2. CASE Gate(d) \/ OweMissed(d)
    BY <1>1, <2>2 DEF Gate, OweMissed, EngineRecords
  <2>3. CASE Reserve(d) \/ FireNow(d)
    <3> DEFINE k == IF conf.limit > 0 THEN Unread ELSE 0
    <3>1. PICK who \in {"loop", "manual"} : engine' =
            [engine EXCEPT ![d] = [engine[d] EXCEPT !.lock = who, !.claimed = engine[d].claims, !.fired = k]]
      BY <1>1, <2>3 DEF Reserve, FireNow, Locked
    <3> HIDE DEF k
    <3>2. /\ engine'[d].phase = engine[d].phase /\ engine'[d].due = engine[d].due
          /\ engine'[d].at = engine[d].at
      BY <1>1, <3>1 DEF EngineRecords
    <3> QED
      BY <3>2
  <2>4. CASE CountRows(d)
    BY <1>1, <2>4 DEF CountRows, EngineRecords
  <2>5. CASE Passes(d)
    <3>1. engine'[d] = Idle(engine[d])
      BY <1>1, <2>5, PassesOnly
    <3>2. Idle(engine[d]).phase = "idle"
      BY <1>1 DEF Idle, EngineRecords
    <3> QED
      BY <3>1, <3>2
  <2>6. CASE Decides(d)
    BY <2>6, DecidesOnly DEF Decided
  <2>7. CASE \E r \in Rows : Reap(d, r)
    BY <2>7 DEF Reap
  <2> QED
    BY <2>1, <2>2, <2>3, <2>4, <2>5, <2>6, <2>7 DEF Ticks, Looks
<1>4. \A c \in Daemons : Timely(engine[c])
  BY DEF EngineTimes
<1>5. \A c \in Daemons : Timely(engine'[c])
  BY <1>2, <1>3, <1>4
<1> QED
  BY <1>2, <1>5 DEF EngineTimes

(* The tick takes an instant only where it recovers a missed one.          *)
LEMMA TickInstants ==
  ASSUME TypeOK, Fresh, InstantInv, NEW d \in Daemons, Ticks(d)
  PROVE  InstantInv'
<1> USE DEF InstantInv
<1>0. /\ engine \in [Daemons -> EngineRecords] /\ engine[d] \in EngineRecords /\ now \in Nat
      /\ engine[d].at \in Nat /\ engine[d].due \in Nat \cup {Never}
      /\ cursor \in Nat \cup {Never}
  BY DEF TypeOK, EngineRecords
<1>1. EngineTimes'
  BY TickTimes
<1>2. CASE Looks(d)
  <2>1. UNCHANGED <<cursor, rewound, status, fire>>
    BY <1>2, LooksOnly
  <2> QED
    BY <1>1, <2>1, StandsStill, MovingTakesNothing
<1>3. CASE Passes(d)
  <2>1. Forward
    BY <1>0, <1>3, PassesOnly, NextFireType, MovesForward
  <2>2. UNCHANGED <<status, fire>>
    BY <1>3, PassesOnly
  <2> QED
    BY <1>1, <2>1, <2>2, MovingTakesNothing
<1>4. CASE Admission(d) \/ Trigger(d)
  <2>1. Forward /\ \A q \in Rows : status'[q] = "none" <=> status[q] = "none"
    BY <1>4, StandsStill DEF Admission, Trigger, scheduleVars, rowVars
  <2>2. CASE UNCHANGED fire
    BY <1>1, <2>1, <2>2, MovingTakesNothing
  <2>3. CASE Admission(d) /\ fire' # fire
    <3> DEFINE f == Top(d, engine[d].due, engine[d].due)
    <3>1. \E n \in NextFree : fire' = [fire EXCEPT ![n] = f]
      BY <2>3 DEF Admission, Begin
    <3>2. /\ engine[d].due # Never /\ engine[d].due <= now
          /\ engine[d].due \in Nat /\ engine[d].due # NoClaim
      BY <1>0, <2>3 DEF Admission, EngineTimes, NoClaim
    <3>3. f \in FireRecords
      BY <1>0, TopType
    <3>4. f.claim = engine[d].due /\ f.instant = engine[d].due /\ f.at = now
      BY DEF Top, NoFire
    <3> HIDE DEF f
    <3> QED
      BY <1>1, <2>1, <3>1, <3>2, <3>3, <3>4, FreeTakesNothing
  <2>4. CASE Trigger(d) /\ fire' # fire
    <3>1. Top(d, NoClaim, Never) \in FireRecords /\ Top(d, NoClaim, Never).instant = Never
      BY TopType DEF Top, NoFire
    <3>2. \E n \in NextFree : fire' = [fire EXCEPT ![n] = Top(d, NoClaim, Never)]
      BY <2>4 DEF Trigger, Begin
    <3> QED
      BY <1>1, <2>1, <3>1, <3>2, FreeTakesNothing
  <2> QED
    BY <1>4, <2>2, <2>3, <2>4
<1>5. ASSUME NEW r \in Rows, Reap(d, r)
      PROVE  InstantInv'
  <2>1. Forward /\ UNCHANGED fire /\ \A q \in Rows : status'[q] = "none" <=> status[q] = "none"
    BY <1>5, StandsStill DEF Reap, scheduleVars, TypeOK
  <2> QED
    BY <1>1, <2>1, MovingTakesNothing
<1>6. CASE RecoverMissed(d)
  <2>1. UNCHANGED status
    BY <1>6 DEF RecoverMissed, rowVars
  <2>2. CASE UNCHANGED <<cursor, rewound, fire>>
    BY <1>1, <2>1, <2>2, StandsStill, MovingTakesNothing
  <2>3. CASE ~UNCHANGED <<cursor, rewound, fire>>
    <3> DEFINE to == NextFire(engine[d].at)
               i == engine[d].due
               f == Top(d, to, i)
    <3>1. cursor = i /\ MoveCursor(to) /\ \E n \in NextFree : fire' = [fire EXCEPT ![n] = f]
      BY <1>6, <2>3 DEF RecoverMissed, Begin, scheduleVars
    <3>2. PICK n \in NextFree : fire' = [fire EXCEPT ![n] = f]
      BY <3>1
    <3>3. i \in Nat /\ i <= engine[d].at /\ engine[d].at <= now
      BY <1>0, <1>6 DEF RecoverMissed, EngineTimes
    <3>4. Forward /\ cursor' = to
      BY <1>0, <3>1, NextFireType, MovesForward DEF MoveCursor
    <3>5. to = Never \/ i < to
      BY <1>0, <3>3, NextIsLater
    <3>6. f.claim = to /\ f.instant = i /\ f.at = now /\ to # NoClaim
      BY <1>0 DEF Top, NoFire, NextFire, NoClaim, Never
    <3>7. n \in Rows /\ status[n] = "none"
      BY DEF NextFree, Free
    <3>8. fire'[n] = f /\ \A q \in Rows : q # n => fire'[q] = fire[q]
      BY <3>2, <3>7 DEF TypeOK
    <3> HIDE DEF f, to, i
    <3>9. FireTimes'
      BY <1>0, <3>3, <3>6, <3>8 DEF FireTimes, Waiting
    <3>10. \A q \in Rows : Taken(q)' /\ q # n => Taken(q) /\ fire'[q].instant = fire[q].instant
      BY <2>1, <3>8 DEF Taken, Recorded, Waiting
    <3>11. InstantsTaken'
      BY <3>1, <3>3, <3>4, <3>5, <3>6, <3>7, <3>8, <3>10, OneMore
    <3> QED
      BY <1>1, <3>9, <3>11
  <2> QED
    BY <2>2, <2>3
<1> QED
  BY <1>2, <1>3, <1>4, <1>5, <1>6 DEF Ticks, Decides

(* A fire gives its claims back: what the tick has read stays.             *)
LEMMA KeepTimes ==
  ASSUME TypeOK, EngineTimes, now' = now, NEW d \in Daemons \cup {NoDaemon}, NEW E, Keep(d, E),
         d \in Daemons => /\ E.phase = engine[d].phase
                          /\ E.due = engine[d].due
                          /\ E.at = engine[d].at
  PROVE  EngineTimes'
<1>1. \A c \in Daemons : engine'[c] = IF c = d THEN E ELSE engine[c]
  BY DEF Keep, TypeOK
<1> QED
  BY <1>1 DEF EngineTimes

(* Giving claims back touches none of the tick's variables.                *)
LEMMA ReleaseTimes ==
  ASSUME TypeOK, NEW d \in Daemons, NEW r
  PROVE  /\ Release(d, r).phase = engine[d].phase
         /\ Release(d, r).due = engine[d].due
         /\ Release(d, r).at = engine[d].at
         /\ Leave(d, r).phase = engine[d].phase
         /\ Leave(d, r).due = engine[d].due
         /\ Leave(d, r).at = engine[d].at
<1>1. engine[d] \in EngineRecords
  BY DEF TypeOK
<1>2. ASSUME NEW E \in EngineRecords, NEW a, NEW b, NEW c
      PROVE  LET R == [E EXCEPT !.claims = a, !.slots = b]
                 L == [R EXCEPT !.running = c] IN
               /\ R.phase = E.phase /\ R.due = E.due /\ R.at = E.at
               /\ L.phase = E.phase /\ L.due = E.due /\ L.at = E.at
  BY DEF EngineRecords
<1> QED
  BY <1>1, <1>2 DEF Release, Leave

(* A row written under the claim on the cursor takes the instant the       *)
(* cursor was at; a recovered fire has taken its own when it was admitted. *)
LEMMA RecordInstants ==
  ASSUME TypeOK, Fresh, FireTimes, InstantsTaken, NEW r \in Rows,
         NEW st \in {"running", "failed"}, fire[r].pc = "begun", Mine(r), Record(r, st),
         fire'[r].pc # "begun", fire'[r].replaces = fire[r].replaces,
         fire'[r].instant = fire[r].instant,
         \A q \in Rows : q # r => fire'[q] = fire[q]
  PROVE  FireTimes' /\ InstantsTaken'
<1>0. /\ fire[r].at \in Nat /\ fire[r].instant \in Nat \cup {Never}
      /\ cursor \in Nat \cup {Never} /\ st \in Statuses /\ st # "none"
  BY DEF TypeOK, FireRecords, Statuses, Terminal
<1>1. FireTimes'
  BY DEF FireTimes, Waiting
<1>2. \A q \in Rows : status'[q] = "none" <=> status[q] = "none" /\ q # r
  BY <1>0, RecordKeeps
<1>3. Forward
  <2>1. CASE fire[r].replaces # NoRow
    BY <2>1, StandsStill DEF Record
  <2>2. CASE fire[r].replaces = NoRow
    BY <1>0, <2>2, NextFireType, MovesForward DEF Record
  <2> QED
    BY <2>1, <2>2
<1>4. \A q \in Rows : Taken(q)' /\ q # r => Taken(q) /\ fire'[q].instant = fire[q].instant
  BY <1>2 DEF Taken, Recorded, Waiting
<1>5. CASE Waiting(r) /\ fire[r].claim = fire[r].instant
  <2> DEFINE i == fire[r].instant
  <2>1. i \in Nat /\ i <= fire[r].at /\ cursor = i
    BY <1>0, <1>5 DEF FireTimes, Waiting, Mine
  <2>2. cursor' = NextFire(fire[r].at)
    BY <1>5 DEF Record, Waiting, MoveCursor
  <2>3. cursor' = Never \/ i < cursor'
    BY <1>0, <2>1, <2>2, NextIsLater
  <2> QED
    BY <1>1, <1>3, <1>4, <2>1, <2>3, OneMore
<1>6. CASE ~(Waiting(r) /\ fire[r].claim = fire[r].instant)
  <2>1. Taken(r)' => Taken(r)
    BY <1>6 DEF Taken, Recorded, Waiting
  <2> QED
    BY <1>1, <1>3, <1>4, <2>1, Steady
<1> QED
  BY <1>5, <1>6

(* A fire takes an instant when it commits, under its claim.               *)
LEMMA FireInstants ==
  ASSUME TypeOK, Fresh, InstantInv, NEW r \in Rows, Fires(r) \/ Failures(r) \/ Deadline(r)
  PROVE  InstantInv'
<1> USE DEF InstantInv, Pc
<1> DEFINE d == fire[r].by
<1>0. /\ fire[r] \in FireRecords /\ d \in Daemons \cup {NoDaemon}
      /\ d \in Daemons => engine[d] \in EngineRecords
      /\ NoFire.pc = "idle" /\ Ended(r).pc = "idle"
      /\ Ended(r).replaces = fire[r].replaces /\ Ended(r).instant = fire[r].instant
  BY DEF TypeOK, FireRecords, Ended, NoFire
<1>1. EngineTimes'
  <2>1. CASE Confirm(r) \/ Finish(r) \/ Deadline(r) \/ (Settle(r) /\ MayChain(r))
    BY <2>1 DEF Confirm, Finish, Deadline, Settle, EngineTimes
  <2>2. CASE Commit(r) \/ Launch(r)
    <3>1. now' = now /\ \E a, b : Keep(d, [engine[d] EXCEPT !.claims = a])
                                \/ Keep(d, [engine[d] EXCEPT !.running = b])
      BY <2>2 DEF Commit, Launch
    <3>2. ASSUME NEW E \in EngineRecords, NEW a
          PROVE  LET C == [E EXCEPT !.claims = a]
                     R == [E EXCEPT !.running = a] IN
                   /\ C.phase = E.phase /\ C.due = E.due /\ C.at = E.at
                   /\ R.phase = E.phase /\ R.due = E.due /\ R.at = E.at
      BY DEF EngineRecords
    <3> HIDE DEF d
    <3> QED
      BY <1>0, <3>1, <3>2, KeepTimes
  <2>3. CASE \/ SetupFails(r) \/ NeverBegins(r) \/ LeaveUndispatched(r) \/ Abandon(r)
             \/ Close(r) \/ (Settle(r) /\ ~MayChain(r))
    <3>1. now' = now /\ (Keep(d, Release(d, r)) \/ Keep(d, Leave(d, r)))
      BY <2>3 DEF SetupFails, NeverBegins, LeaveUndispatched, Abandon, Close, Settle
    <3> HIDE DEF d
    <3> QED
      BY <1>0, <3>1, ReleaseTimes, KeepTimes
  <2> QED
    BY <2>1, <2>2, <2>3 DEF Fires, Failures
<1>2. CASE (Commit(r) \/ SetupFails(r)) /\ Mine(r)
  <2>1. PICK st \in {"running", "failed"} : Record(r, st)
    BY <1>2 DEF Commit, SetupFails
  <2>2. \A q \in Rows : q # r => fire'[q] = fire[q]
    BY <1>2 DEF Commit, SetupFails, TypeOK
  <2>3. /\ fire'[r].pc # "begun" /\ fire'[r].replaces = fire[r].replaces
        /\ fire'[r].instant = fire[r].instant
    <3>1. CASE Commit(r)
      <4>1. fire'[r] = [fire[r] EXCEPT !.pc = "committed", !.limited = FALSE]
        BY <3>1 DEF Commit, TypeOK
      <4> QED
        BY <1>0, <4>1 DEF FireRecords
    <3>2. CASE SetupFails(r)
      <4>1. fire'[r] = Ended(r)
        BY <1>2, <3>2 DEF SetupFails, TypeOK
      <4> QED
        BY <1>0, <4>1
    <3> QED
      BY <1>2, <3>1, <3>2
  <2>4. fire[r].pc = "begun"
    BY <1>2 DEF Commit, SetupFails
  <2> QED
    BY <1>1, <1>2, <2>1, <2>2, <2>3, <2>4, RecordInstants
<1>3. CASE \/ (SetupFails(r) /\ ~Mine(r)) \/ Abandon(r) \/ NeverBegins(r) \/ LeaveUndispatched(r)
           \/ Launch(r) \/ Confirm(r) \/ Close(r) \/ Finish(r) \/ Deadline(r)
           \/ (Settle(r) /\ ~MayChain(r))
  <2>1. \A q \in Rows : q # r => fire'[q] = fire[q]
    BY <1>3 DEF SetupFails, Abandon, NeverBegins, LeaveUndispatched, Launch, Confirm, Close,
                Finish, Deadline, Settle, TypeOK
  <2>2. \/ fire'[r] = NoFire
        \/ /\ fire'[r].pc # "begun"
           /\ fire'[r].replaces = fire[r].replaces
           /\ fire'[r].instant = fire[r].instant
    BY <1>0, <1>3 DEF SetupFails, Abandon, NeverBegins, LeaveUndispatched, Launch, Confirm, Close,
                      Finish, Deadline, Settle, TypeOK, FireRecords
  <2>3. UNCHANGED <<cursor, rewound>>
    BY <1>3 DEF SetupFails, Abandon, NeverBegins, LeaveUndispatched, Launch, Confirm, Close,
                Finish, Deadline, Settle, scheduleVars
  <2>4. \A q \in Rows : status'[q] = "none" <=> status[q] = "none"
    <3>1. CASE Finish(r) \/ Deadline(r)
      BY <3>1 DEF Finish, Deadline, Finalized, TypeOK
    <3>2. CASE UNCHANGED status
      BY <3>2
    <3> QED
      BY <1>3, <3>1, <3>2 DEF SetupFails, Abandon, NeverBegins, LeaveUndispatched, Launch, Confirm,
                              Close, Settle, rowVars
  <2> QED
    BY <1>1, <2>1, <2>2, <2>3, <2>4, StandsStill, MovingTakesNothing
<1>4. CASE Settle(r) /\ MayChain(r)
  <2>1. PICK n \in NextFree :
          fire' = [fire EXCEPT ![n] = Child(fire[r].by, r), ![r] = [@ EXCEPT !.pc = "chaining"]]
    BY <1>4 DEF Settle
  <2>2. n \in Rows /\ n # r /\ status[n] = "none"
    BY <1>4 DEF Settle, NextFree, Free, Active
  <2>3. /\ fire'[r].pc = "chaining" /\ fire'[r].replaces = fire[r].replaces
        /\ fire'[r].instant = fire[r].instant
    BY <1>0, <2>1, <2>2 DEF TypeOK, FireRecords
  <2>4. fire'[n].instant = Never
    BY <2>1, <2>2 DEF TypeOK, Child, NoFire
  <2>5. \A q \in Rows : q # n /\ q # r => fire'[q] = fire[q]
    BY <2>1 DEF TypeOK
  <2>6. UNCHANGED <<cursor, rewound, status>>
    BY <1>4 DEF Settle, rowVars
  <2>7. FireTimes'
    BY <2>3, <2>4, <2>5 DEF FireTimes, Waiting
  <2>8. \A q \in Rows : Taken(q)' => Taken(q) /\ fire'[q].instant = fire[q].instant
    BY <2>3, <2>4, <2>5, <2>6 DEF Taken, Recorded, Waiting
  <2> QED
    BY <1>1, <2>6, <2>7, <2>8, StandsStill, Steady
<1>5. Commit(r) => Mine(r)
  BY DEF Commit
<1> QED
  BY <1>2, <1>3, <1>4, <1>5 DEF Fires, Failures

(* Time, children, crashes and shutdowns take no instant.                  *)
LEMMA WorldInstants ==
  ASSUME TypeOK, Fresh, InstantInv,
         \/ Advance \/ \E r \in Rows : ChildEnds(r)
         \/ \E d \in Daemons : Crash(d) \/ Stop(d)
  PROVE  InstantInv'
<1> USE DEF InstantInv
<1>1. CASE Advance \/ \E r \in Rows : ChildEnds(r)
  <2>1. EngineTimes'
    <3>1. /\ engine' = engine /\ now \in Nat /\ (now' = now \/ now' = now + 1)
          /\ \A c \in Daemons : engine[c].at \in Nat
      BY <1>1 DEF Advance, ChildEnds, TypeOK, EngineRecords
    <3> QED
      BY <3>1 DEF EngineTimes
  <2>2. UNCHANGED <<cursor, rewound, status, fire>>
    BY <1>1 DEF Advance, ChildEnds, scheduleVars, rowVars
  <2> QED
    BY <2>1, <2>2, StandsStill, MovingTakesNothing
<1>2. ASSUME NEW d \in Daemons, Crash(d) \/ Stop(d)
      PROVE  InstantInv'
  <2>1. EngineTimes'
    <3>1. /\ now' = now
          /\ \A c \in Daemons : engine'[c] = IF c = d THEN NoEngine ELSE engine[c]
      BY <1>2 DEF Crash, Stop, TypeOK
    <3>2. NoEngine.phase = "down"
      BY DEF NoEngine
    <3> QED
      BY <3>1, <3>2 DEF EngineTimes
  <2>2. UNCHANGED <<cursor, rewound>> /\ fire' = Forgotten(d)
    BY <1>2 DEF Crash, Stop, scheduleVars
  <2>3. \A q \in Rows : status'[q] = "none" <=> status[q] = "none"
    BY <1>2 DEF Crash, Stop, rowVars
  <2>4. \A q \in Rows : /\ Ended(q).pc = "idle"
                        /\ Ended(q).replaces = fire[q].replaces
                        /\ Ended(q).instant = fire[q].instant
    BY DEF Ended, TypeOK, FireRecords
  <2>5. \A q \in Rows : fire'[q] = fire[q] \/ fire'[q] = NoFire \/ fire'[q] = Ended(q)
    BY <2>2 DEF Forgotten
  <2> QED
    BY <2>1, <2>2, <2>3, <2>4, <2>5, StandsStill, MovingTakesNothing
<1> QED
  BY <1>1, <1>2

(* Every step keeps instants apart.                                        *)
LEMMA NextInstants == TypeOK /\ Fresh /\ InstantInv /\ [Next]_vars => InstantInv'
<1> SUFFICES ASSUME TypeOK, Fresh, InstantInv, [Next]_vars
             PROVE  InstantInv'
  OBVIOUS
<1>1. CASE UNCHANGED vars
  <2>1. UNCHANGED <<cursor, rewound, status, fire, engine, now>>
    BY <1>1 DEF vars, scheduleVars, rowVars
  <2>2. EngineTimes'
    BY <2>1 DEF InstantInv, EngineTimes
  <2> QED
    BY <2>1, <2>2, StandsStill, MovingTakesNothing DEF InstantInv
<1> QED
  BY <1>1, RepairInstants, TickInstants, FireInstants, WorldInstants
     DEF Next, Daemon, Ticks, Looks, Passes, Decides

(* At the start no instant is taken.                                       *)
LEMMA InitInstants == Init => InstantInv
<1> SUFFICES ASSUME Init
             PROVE  InstantInv
  OBVIOUS
<1>1. \A r \in Rows : fire[r].pc = "idle" /\ status[r] = "none"
  BY DEF Init, NoFire
<1>2. \A d \in Daemons : engine[d].phase = "down"
  BY DEF Init, NoEngine
<1> QED
  BY <1>1, <1>2 DEF InstantInv, EngineTimes, FireTimes, Waiting, InstantsTaken, Taken, Recorded

(* The claim on next_fire_at: one instant of the schedule gives at most    *)
(* one run, with any number of schedulers, as long as no fire without a    *)
(* claim has moved the cursor backwards.                                   *)
THEOREM InstantsOnce == Spec => []OneRunPerInstant
<1>1. InstantInv => OneRunPerInstant
  BY DEF InstantInv, InstantsTaken, OneRunPerInstant, Taken
<1> QED
  BY <1>1, InitInstants, NextInstants, AlwaysFresh, ScheduleTypeCorrect, PTL DEF Spec

-----------------------------------------------------------------------------
(* Claims and slots.                                                       *)

(* A schedule's configuration stays what it is.                            *)
LEMMA ConfStays == [Next]_vars => conf' = conf
<1>1. ASSUME NEW d \in Daemons, Daemon(d) \/ FireNow(d) \/ Crash(d) \/ Stop(d)
      PROVE  conf' = conf
  BY <1>1 DEF Daemon, Start, RecoverRow, ReconcileRow, Reap, RecoverDone, ReconcileDone,
              PassMissed, OweMissed, Reserve, CountRows, RecoverMissed, Tick, SkipOverlap, Gate,
              Admission, FireNow, Trigger, Crash, Stop
<1>2. ASSUME NEW r \in Rows, Fires(r) \/ Failures(r) \/ Deadline(r) \/ ChildEnds(r)
      PROVE  conf' = conf
  BY <1>2 DEF Fires, Commit, Abandon, Launch, Confirm, Finish, Settle, Close, Failures,
              SetupFails, NeverBegins, LeaveUndispatched, Deadline, ChildEnds
<1> QED
  BY <1>1, <1>2 DEF Next, Advance, vars

(* The fires of a daemon that hold a slot, and a unit of max_runs.         *)
Slotted(d) == {r \in Tasks(d) : fire[r].slotted}
Limited(d) == {r \in Tasks(d) : fire[r].limited}

\* max_runs units are counted exactly where there is one at most, else at least.
Covers(x, y) == x >= y /\ (conf.limit <= 1 => x = y)

\* Whoever holds the lock has read no fewer units than there are.
Noted(d) == engine[d].lock # "free" => engine[d].claims <= engine[d].claimed

Holds(d) ==
  /\ engine[d].slots = Cardinality(Slotted(d))
  /\ Covers(engine[d].claims, Cardinality(Limited(d)))
  /\ engine[d].slots <= Slots
  /\ Noted(d)
  /\ ~Up(d) => Tasks(d) = {} /\ engine[d].lock = "free"

\* A process that is down has no tasks, and every task is a process's.
ClaimsInv ==
  /\ \A d \in Daemons : Holds(d)
  /\ \A r \in Rows : Active(r) => fire[r].by \in Daemons

Bit(b) == IF b THEN 1 ELSE 0

\* A step leaves what q holds, and what c has counted.
SameClaims(q) ==
  /\ fire'[q].pc = "idle" <=> fire[q].pc = "idle"
  /\ fire'[q].by = fire[q].by /\ fire'[q].slotted = fire[q].slotted
  /\ fire'[q].limited = fire[q].limited
SameCounts(c) ==
  /\ engine'[c].slots = engine[c].slots
  /\ Covers(engine'[c].claims, engine[c].claims)
  /\ engine'[c].phase = "down" <=> engine[c].phase = "down"
  /\ \/ /\ engine'[c].claims <= engine[c].claims
        /\ engine'[c].lock = engine[c].lock /\ engine'[c].claimed = engine[c].claimed
     \/ Noted(c)' /\ (engine'[c].lock = "free" \/ Up(c))

(* A set of rows, with and without one of them.                            *)
LEMMA Without ==
  ASSUME NEW S \in SUBSET Rows, NEW n
  PROVE  /\ IsFiniteSet(S) /\ Cardinality(S) \in Nat
         /\ Cardinality(S \ {n}) \in Nat
         /\ Cardinality(S) = Cardinality(S \ {n}) + Bit(n \in S)
<1>1. IsFiniteSet(Rows)
  <2>1. MaxRows \in Int
    BY SchedulerAssumption
  <2> QED
    BY <2>1, FS_Interval DEF Rows
<1>2. IsFiniteSet(S) /\ IsFiniteSet(S \ {n})
  BY <1>1, FS_Subset
<1>3. Cardinality(S) \in Nat /\ Cardinality(S \ {n}) \in Nat
  BY <1>2, FS_CardinalityType
<1> QED
  BY <1>2, <1>3, FS_RemoveElement DEF Bit

(* Two sets of rows that differ in one row at most.                        *)
LEMMA Differ ==
  ASSUME NEW S \in SUBSET Rows, NEW T \in SUBSET Rows, NEW n, T \ {n} = S \ {n}
  PROVE  Cardinality(T) = Cardinality(S) + Bit(n \in T) - Bit(n \in S)
<1>1. /\ Cardinality(S \ {n}) \in Nat
      /\ Cardinality(S) = Cardinality(S \ {n}) + Bit(n \in S)
      /\ Cardinality(T) = Cardinality(S \ {n}) + Bit(n \in T)
  BY Without
<1> QED
  BY <1>1 DEF Bit

(* What did not change counts the same.                                    *)
LEMMA Unchanged ==
  ASSUME TypeOK, NEW c \in Daemons, engine'[c] = engine[c]
  PROVE  SameCounts(c)
<1>1. engine[c].claims \in Int
  BY DEF TypeOK, EngineRecords
<1> QED
  BY <1>1 DEF SameCounts, Covers

(* Whoever counts the same is counted right.                               *)
LEMMA SameHolds ==
  ASSUME TypeOK, TypeOK', ClaimsInv, conf' = conf, NEW c \in Daemons, SameCounts(c),
         Tasks(c)' = Tasks(c), Slotted(c)' = Slotted(c), Limited(c)' = Limited(c)
  PROVE  Holds(c)'
<1>1. /\ engine[c].claims \in Int /\ engine'[c].claims \in Int
      /\ engine[c].claimed \in Int /\ engine'[c].claimed \in Int
  BY DEF TypeOK, EngineRecords
<1> DEFINE n == Cardinality(Limited(c))
<1>2. n \in Nat
  BY Without DEF Limited, Tasks
<1>3. Cardinality(Limited(c)') = n /\ Cardinality(Slotted(c)') = Cardinality(Slotted(c))
  OBVIOUS
<1>4. Covers(engine[c].claims, n) /\ Noted(c) /\ engine[c].slots = Cardinality(Slotted(c))
      /\ engine[c].slots <= Slots
      /\ (engine[c].phase = "down" => Tasks(c) = {} /\ engine[c].lock = "free")
  BY DEF ClaimsInv, Holds, Up
<1> HIDE DEF n
<1>5. Covers(engine'[c].claims, n)
  BY <1>1, <1>2, <1>4 DEF SameCounts, Covers
<1>6. Noted(c)'
  BY <1>1, <1>4 DEF SameCounts, Noted
<1>7. engine'[c].phase = "down" => engine'[c].lock = "free"
  BY <1>4 DEF SameCounts, Up
<1> QED
  BY <1>3, <1>4, <1>5, <1>6, <1>7 DEF Holds, SameCounts, Covers, Up

(* Nothing is taken or given back, and the counters stay.                  *)
LEMMA NobodyClaims ==
  ASSUME TypeOK, TypeOK', ClaimsInv, conf' = conf,
         \A q \in Rows : SameClaims(q), \A c \in Daemons : SameCounts(c)
  PROVE  ClaimsInv'
<1>1. \A c \in Daemons : Tasks(c)' = Tasks(c) /\ Slotted(c)' = Slotted(c) /\ Limited(c)' = Limited(c)
  BY DEF SameClaims, Tasks, Active, Slotted, Limited
<1>2. \A c \in Daemons : Holds(c)'
  BY <1>1, SameHolds
<1> QED
  BY <1>2 DEF SameClaims, ClaimsInv, Active

(* One fire of one daemon takes or gives back, and its counters follow.    *)
LEMMA OneClaims ==
  ASSUME TypeOK, TypeOK', ClaimsInv, conf' = conf, NEW n \in Rows, NEW d \in Daemons, Up(d),
         \A q \in Rows : q # n => SameClaims(q),
         \A c \in Daemons : c # d => SameCounts(c),
         engine'[d].phase # "down", Noted(d)',
         Active(n) => fire[n].by = d, Active(n)' => fire'[n].by = d,
         engine'[d].slots = engine[d].slots + Bit(n \in Slotted(d)') - Bit(n \in Slotted(d)),
         Covers(engine'[d].claims,
                engine[d].claims + Bit(n \in Limited(d)') - Bit(n \in Limited(d))),
         engine'[d].slots <= Slots
  PROVE  ClaimsInv'
<1>1. \A c \in Daemons : c # d =>
        Tasks(c)' = Tasks(c) /\ Slotted(c)' = Slotted(c) /\ Limited(c)' = Limited(c)
  BY DEF SameClaims, Tasks, Active, Slotted, Limited
<1>2. Slotted(d)' \ {n} = Slotted(d) \ {n} /\ Limited(d)' \ {n} = Limited(d) \ {n}
  BY DEF SameClaims, Tasks, Active, Slotted, Limited
<1>3. Slotted(d) \in SUBSET Rows /\ Limited(d) \in SUBSET Rows
      /\ Slotted(d)' \in SUBSET Rows /\ Limited(d)' \in SUBSET Rows
  BY DEF Slotted, Limited, Tasks
<1>4. Cardinality(Slotted(d)') = Cardinality(Slotted(d)) + Bit(n \in Slotted(d)') - Bit(n \in Slotted(d))
  BY <1>2, <1>3, Differ
<1>5. Cardinality(Limited(d)') = Cardinality(Limited(d)) + Bit(n \in Limited(d)') - Bit(n \in Limited(d))
  BY <1>2, <1>3, Differ
<1>6. Covers(engine'[d].claims, Cardinality(Limited(d)'))
  <2> DEFINE x == engine[d].claims
             y == Cardinality(Limited(d))
             z == Cardinality(Limited(d)')
             w == engine'[d].claims
             b == Bit(n \in Limited(d)')
             a == Bit(n \in Limited(d))
  <2>1. x \in Int /\ w \in Int /\ y \in Int /\ z \in Int /\ a \in Int /\ b \in Int
    <3>1. x \in Int /\ w \in Int
      BY DEF TypeOK, EngineRecords
    <3>2. y \in Nat /\ z \in Nat
      BY <1>3, Without
    <3>3. a \in Int /\ b \in Int
      BY DEF Bit
    <3> QED
      BY <3>1, <3>2, <3>3
  <2>2. Covers(x, y) /\ Covers(w, x + b - a) /\ z = y + b - a
    BY <1>5 DEF ClaimsInv, Holds
  <2> HIDE DEF x, y, z, w, a, b
  <2>3. Covers(w, z)
    BY <2>1, <2>2 DEF Covers
  <2> QED
    BY <2>3 DEF w, z
<1>7. Holds(d)'
  BY <1>4, <1>6 DEF ClaimsInv, Holds, Up, Covers
<1>8. \A c \in Daemons : c # d => Holds(c)'
  BY <1>1, SameHolds
<1> QED
  BY <1>7, <1>8 DEF SameClaims, ClaimsInv, Active

(* What giving claims back does to the counters.                           *)
LEMMA ReleaseCounts ==
  ASSUME TypeOK, NEW d \in Daemons, NEW r \in Rows, NEW E, E \in {Release(d, r), Leave(d, r)}
  PROVE  /\ E.slots = engine[d].slots - Bit(fire[r].slotted)
         /\ E.claims = engine[d].claims - Bit(fire[r].limited)
         /\ E.phase = engine[d].phase
         /\ E.lock = engine[d].lock /\ E.claimed = engine[d].claimed
<1>1. engine[d] \in EngineRecords /\ engine[d].slots \in Int /\ engine[d].claims \in Int
      /\ fire[r].slotted \in BOOLEAN /\ fire[r].limited \in BOOLEAN
  BY DEF TypeOK, EngineRecords, FireRecords
<1> DEFINE Right(e, f, x, y) == /\ f.phase = e.phase /\ f.claims = x /\ f.slots = y
                               /\ f.lock = e.lock /\ f.claimed = e.claimed
<1>2. ASSUME NEW e \in EngineRecords, NEW a, NEW b, NEW c
      PROVE  LET R == [e EXCEPT !.claims = a, !.slots = b]
                 L == [R EXCEPT !.running = c] IN
               Right(e, R, a, b) /\ Right(e, L, a, b)
  BY DEF EngineRecords
<1> DEFINE a == IF fire[r].limited THEN engine[d].claims - 1 ELSE engine[d].claims
           b == IF fire[r].slotted THEN engine[d].slots - 1 ELSE engine[d].slots
           c == IF fire[r].depth = 0 THEN NoRow ELSE engine[d].running
<1>3. Release(d, r) = [engine[d] EXCEPT !.claims = a, !.slots = b]
  BY <1>1 DEF Release, EngineRecords
<1>4. Release(d, r).running = engine[d].running
  BY <1>1, <1>3 DEF EngineRecords
<1>5. Leave(d, r) = [Release(d, r) EXCEPT !.running = c]
  BY <1>4 DEF Leave
<1>6. a = engine[d].claims - Bit(fire[r].limited) /\ b = engine[d].slots - Bit(fire[r].slotted)
  BY <1>1 DEF Bit
<1> HIDE DEF a, b, c
<1>7. Right(engine[d], Release(d, r), a, b) /\ Right(engine[d], Leave(d, r), a, b)
  BY <1>1, <1>2, <1>3, <1>5
<1> QED
  BY <1>6, <1>7

(* A fire is made for an id that held nothing.                             *)
LEMMA NewFireClaims ==
  ASSUME TypeOK, TypeOK', ClaimsInv, conf' = conf, NEW d \in Daemons, Up(d), NEW n \in NextFree,
         NEW f, fire' = [fire EXCEPT ![n] = f], f.pc = "begun", f.by = d,
         \A c \in Daemons : c # d => SameCounts(c),
         engine'[d].phase # "down", Noted(d)',
         engine'[d].slots = engine[d].slots + Bit(f.slotted),
         Covers(engine'[d].claims, engine[d].claims + Bit(f.limited)),
         engine'[d].slots <= Slots
  PROVE  ClaimsInv'
<1>1. n \in Rows /\ ~Active(n)
  BY DEF NextFree, Free
<1>2. fire'[n] = f /\ \A q \in Rows : q # n => fire'[q] = fire[q]
  BY <1>1 DEF TypeOK
<1>3. n \notin Slotted(d) /\ n \notin Limited(d)
  BY <1>1 DEF Slotted, Limited, Tasks
<1>4. (n \in Slotted(d)' <=> f.slotted) /\ (n \in Limited(d)' <=> f.limited)
  BY <1>1, <1>2 DEF Slotted, Limited, Tasks, Active
<1>5. engine[d].slots \in Int /\ engine[d].claims \in Int
  BY DEF TypeOK, EngineRecords
<1>6. /\ engine[d].slots + Bit(f.slotted)
           = engine[d].slots + Bit(n \in Slotted(d)') - Bit(n \in Slotted(d))
      /\ engine[d].claims + Bit(f.limited)
           = engine[d].claims + Bit(n \in Limited(d)') - Bit(n \in Limited(d))
  BY <1>3, <1>4, <1>5 DEF Bit
<1>7. /\ engine'[d].slots = engine[d].slots + Bit(n \in Slotted(d)') - Bit(n \in Slotted(d))
      /\ Covers(engine'[d].claims,
                engine[d].claims + Bit(n \in Limited(d)') - Bit(n \in Limited(d)))
  BY <1>6
<1>8. \A q \in Rows : q # n => SameClaims(q)
  BY <1>2 DEF SameClaims
<1>9. (Active(n) => fire[n].by = d) /\ (Active(n)' => fire'[n].by = d)
  BY <1>1, <1>2
<1> QED
  BY <1>1, <1>7, <1>8, <1>9, OneClaims

(* A fire of d changes, or ends.                                           *)
LEMMA FireMoveClaims ==
  ASSUME TypeOK, TypeOK', ClaimsInv, conf' = conf,
         NEW r \in Rows, NEW d \in Daemons, Active(r), d = fire[r].by, Up(d),
         \A q \in Rows : q # r => SameClaims(q),
         fire'[r].pc = "idle" \/ (fire'[r].by = d /\ fire'[r].slotted = fire[r].slotted),
         \A c \in Daemons : c # d => SameCounts(c),
         engine'[d].phase # "down",
         engine'[d].lock = engine[d].lock, engine'[d].claimed = engine[d].claimed,
         engine'[d].slots = engine[d].slots - Bit(fire[r].slotted /\ fire'[r].pc = "idle"),
         engine'[d].claims = engine[d].claims
           - Bit(fire[r].limited /\ (fire'[r].pc = "idle" \/ ~fire'[r].limited)),
         fire'[r].limited /\ fire'[r].pc # "idle" => fire[r].limited
  PROVE  ClaimsInv'
<1>1. /\ engine[d].slots \in Int /\ engine[d].claims \in Int /\ Slots \in Int
      /\ engine[d].slots <= Slots /\ engine[d].claimed \in Int
  BY SchedulerAssumption DEF TypeOK, EngineRecords, ClaimsInv, Holds
<1>2. /\ r \in Slotted(d) <=> fire[r].slotted
      /\ r \in Limited(d) <=> fire[r].limited
      /\ r \in Slotted(d)' <=> fire'[r].pc # "idle" /\ fire[r].slotted
      /\ r \in Limited(d)' <=> fire'[r].pc # "idle" /\ fire'[r].limited
  BY DEF Slotted, Limited, Tasks, Active
<1>3. /\ engine'[d].slots = engine[d].slots + Bit(r \in Slotted(d)') - Bit(r \in Slotted(d))
      /\ engine'[d].claims = engine[d].claims + Bit(r \in Limited(d)') - Bit(r \in Limited(d))
      /\ engine'[d].slots <= Slots
  BY <1>1, <1>2 DEF Bit
<1>4. Covers(engine'[d].claims,
             engine[d].claims + Bit(r \in Limited(d)') - Bit(r \in Limited(d)))
  <2>1. engine'[d].claims \in Int
    BY DEF TypeOK, EngineRecords
  <2> QED
    BY <1>3, <2>1 DEF Covers
<1>5. Noted(d)'
  <2>1. engine'[d].claims <= engine[d].claims /\ engine'[d].claims \in Int
    BY <1>1 DEF Bit
  <2> QED
    BY <1>1, <2>1 DEF ClaimsInv, Holds, Noted
<1>6. (Active(r) => fire[r].by = d) /\ (Active(r)' => fire'[r].by = d)
  BY DEF Active
<1> QED
  BY <1>3, <1>4, <1>5, <1>6, OneClaims

(* Starts and repair passes take no claim.                                 *)
LEMMA RepairClaims ==
  ASSUME TypeOK, TypeOK', ClaimsInv, conf' = conf, NEW d \in Daemons,
         \/ Start(d) \/ RecoverDone(d) \/ ReconcileDone(d)
         \/ \E r \in Rows : RecoverRow(d, r) \/ ReconcileRow(d, r)
  PROVE  ClaimsInv'
<1>0. /\ engine \in [Daemons -> EngineRecords] /\ engine[d] \in EngineRecords
      /\ engine[d].slots \in Int /\ engine[d].claims \in Int /\ engine[d].slots <= Slots
  BY DEF TypeOK, EngineRecords, ClaimsInv, Holds
<1>1. CASE Start(d)
  <2>1. /\ fire' = fire
        /\ engine'[d].slots = 0 /\ engine'[d].claims = 0 /\ engine'[d].phase # "down"
        /\ engine'[d].lock = "free"
        /\ \A c \in Daemons : c # d => engine'[c] = engine[c]
    BY <1>0, <1>1 DEF Start, NoEngine
  <2>2. \A c \in Daemons : Tasks(c)' = Tasks(c) /\ Slotted(c)' = Slotted(c) /\ Limited(c)' = Limited(c)
    BY <2>1 DEF Tasks, Slotted, Limited, Active
  <2>3. Tasks(d) = {} /\ Slotted(d) = {} /\ Limited(d) = {}
    BY <1>1 DEF Start, ClaimsInv, Holds, Slotted, Limited
  <2>4. Holds(d)'
    <3>1. Cardinality({}) = 0 /\ 0 <= Slots
      BY FS_EmptySet, SchedulerAssumption
    <3> QED
      BY <2>1, <2>2, <2>3, <3>1 DEF Holds, Covers, Noted, Up
  <2>5. \A c \in Daemons : c # d => Holds(c)'
    BY <2>1, <2>2, Unchanged, SameHolds
  <2> QED
    BY <2>1, <2>4, <2>5 DEF ClaimsInv, Active
<1>2. CASE RecoverDone(d) \/ ReconcileDone(d)
  <2>1. /\ fire' = fire /\ \A c \in Daemons : c # d => engine'[c] = engine[c]
        /\ engine[d].phase # "down"
    BY <1>0, <1>2 DEF RecoverDone, ReconcileDone
  <2>2. engine'[d].phase # "down" /\ UNCHANGED <<engine[d].slots, engine[d].claims, engine[d].lock,
                                                   engine[d].claimed>>
    <3>1. CASE RecoverDone(d)
      BY <1>0, <3>1 DEF RecoverDone, EngineRecords
    <3>2. CASE ReconcileDone(d)
      BY <1>0, <3>2 DEF ReconcileDone, EngineRecords
    <3> QED
      BY <1>2, <3>1, <3>2
  <2>3. \A c \in Daemons : SameCounts(c)
    BY <1>0, <2>1, <2>2, Unchanged DEF SameCounts, Covers
  <2> QED
    BY <2>1, <2>3, NobodyClaims DEF SameClaims
<1>3. ASSUME NEW r \in Rows, RecoverRow(d, r) \/ ReconcileRow(d, r)
      PROVE  ClaimsInv'
  <2>1. /\ \A c \in Daemons : SameCounts(c)
        /\ engine[d].phase # "down" /\ engine'[d].phase # "down" /\ Noted(d)'
    <3>1. engine' = [engine EXCEPT ![d].todo = @ \ {r}] /\ engine[d].phase # "down"
      BY <1>3 DEF RecoverRow, ReconcileRow
    <3>2. /\ \A c \in Daemons : c # d => engine'[c] = engine[c]
          /\ engine'[d].phase # "down" /\ UNCHANGED <<engine[d].slots, engine[d].claims,
                                                       engine[d].lock, engine[d].claimed>>
      BY <1>0, <3>1 DEF EngineRecords
    <3>3. Noted(d)'
      BY <3>2 DEF ClaimsInv, Holds, Noted
    <3> QED
      BY <1>0, <3>1, <3>2, <3>3, Unchanged DEF SameCounts, Covers
  <2>2. CASE UNCHANGED fire
    BY <2>1, <2>2, NobodyClaims DEF SameClaims
  <2>3. CASE ~UNCHANGED fire
    <3>1. \E n \in NextFree, f \in {Child(d, r), [NoFire EXCEPT !.pc = "begun", !.by = d,
                    !.replaces = r, !.instant = fire[r].instant, !.at = now]} :
            fire' = [fire EXCEPT ![n] = f]
      BY <1>3, <2>3 DEF RecoverRow, ReconcileRow
    <3> DEFINE New(n, f) == /\ fire' = [fire EXCEPT ![n] = f] /\ f.pc = "begun" /\ f.by = d
                            /\ f.slotted = FALSE /\ f.limited = FALSE
    <3>2. PICK n \in NextFree : \E f : New(n, f)
      BY <3>1 DEF Child, NoFire
    <3>3. PICK f : New(n, f)
      BY <3>2
    <3>4. /\ engine'[d].slots = engine[d].slots + Bit(f.slotted)
          /\ Covers(engine'[d].claims, engine[d].claims + Bit(f.limited))
          /\ engine'[d].slots <= Slots
      BY <1>0, <2>1, <3>3 DEF SameCounts, Bit, Covers
    <3> QED
      BY <2>1, <3>3, <3>4, NewFireClaims DEF Up
  <2> QED
    BY <2>2, <2>3
<1> QED
  BY <1>1, <1>2, <1>3

(* What a decision writes back counts whatever was released meanwhile; with*)
(* one unit at most there was none to release, or it is refused.           *)
LEMMA LaterCovers ==
  ASSUME TypeOK, ClaimsInv, NEW d \in Daemons, engine[d].lock # "free", engine[d].fired \in Nat,
         ~Exhausted(d), NEW n \in Int
  PROVE  Covers(Later(d, n), engine[d].claims + IF conf.limit > 0 THEN n ELSE 0)
<1>1. /\ engine[d].claims \in Int /\ engine[d].claimed \in Int /\ conf.limit \in Nat
      /\ Cardinality(Limited(d)) \in Nat
  BY SchedulerAssumption, Without DEF TypeOK, EngineRecords, ConfigurationType, Limited, Tasks
<1>2. /\ engine[d].claims <= engine[d].claimed
      /\ engine[d].claims >= Cardinality(Limited(d))
  BY DEF ClaimsInv, Holds, Noted, Covers
<1>3. conf.limit > 0 => engine[d].fired + engine[d].claimed < conf.limit
  BY <1>1 DEF Exhausted
<1>4. CASE conf.limit > 0
  <2>1. conf.limit <= 1 => engine[d].claimed = engine[d].claims
    BY <1>1, <1>2, <1>3, <1>4
  <2> QED
    BY <1>1, <1>2, <1>4, <2>1 DEF Later, Covers
<1>5. CASE ~(conf.limit > 0)
  BY <1>1, <1>5 DEF Later, Covers
<1> QED
  BY <1>4, <1>5

(* Only a daemon that is up ticks.                                         *)
LEMMA TicksUp ==
  ASSUME ClaimsInv, NEW d \in Daemons, Ticks(d)
  PROVE  Up(d)
BY DEF Ticks, Looks, Passes, Decides, PassMissed, OweMissed, Reserve, CountRows, RecoverMissed,
       Tick, SkipOverlap, Gate, Admission, FireNow, Trigger, Answered, Reap, Up, ClaimsInv, Holds

(* Whoever takes the lock notes the claims of the moment.                  *)
LEMMA LooksNoted ==
  ASSUME TypeOK, ClaimsInv, NEW d \in Daemons, Looks(d)
  PROVE  Noted(d)'
<1>1. /\ engine \in [Daemons -> EngineRecords] /\ engine[d] \in EngineRecords
      /\ engine[d].claims \in Int
  BY DEF TypeOK, EngineRecords
<1>2. Noted(d)
  BY DEF ClaimsInv, Holds
<1>3. CASE Tick(d)
  BY <1>1, <1>2, <1>3 DEF Tick, Noted, EngineRecords
<1>4. CASE Gate(d) \/ OweMissed(d)
  BY <1>1, <1>2, <1>4 DEF Gate, OweMissed, Noted, EngineRecords
<1>5. CASE CountRows(d)
  <2> DEFINE k == Count(Statuses \ {"none"}, status)
  <2>1. engine' = [engine EXCEPT ![d] = [engine[d] EXCEPT !.fired = k]]
    BY <1>1, <1>5 DEF CountRows
  <2> HIDE DEF k
  <2> QED
    BY <1>1, <1>2, <2>1 DEF Noted, EngineRecords
<1>6. CASE Reserve(d) \/ FireNow(d)
  <2> DEFINE k == IF conf.limit > 0 THEN Unread ELSE 0
  <2>1. PICK who \in {"loop", "manual"} : engine' =
          [engine EXCEPT ![d] = [engine[d] EXCEPT !.lock = who, !.claimed = engine[d].claims, !.fired = k]]
    BY <1>1, <1>6 DEF Reserve, FireNow, Locked
  <2> HIDE DEF k
  <2>2. engine'[d].claims = engine[d].claims /\ engine'[d].claimed = engine[d].claims
    BY <1>1, <2>1 DEF EngineRecords
  <2> QED
    BY <1>1, <2>2 DEF Noted
<1> QED
  BY <1>3, <1>4, <1>5, <1>6 DEF Looks

(* Whoever is admitted takes a slot below the limit, and a unit of max_runs*)
(* if there is one.                                                        *)
LEMMA TickClaims ==
  ASSUME TypeOK, TypeOK', ClaimsInv, conf' = conf, NEW d \in Daemons, Ticks(d)
  PROVE  ClaimsInv'
<1>0. /\ engine \in [Daemons -> EngineRecords] /\ engine[d] \in EngineRecords
      /\ engine[d].slots \in Int /\ engine[d].claims \in Int /\ Slots \in Int
  BY SchedulerAssumption DEF TypeOK, EngineRecords
<1>1. Up(d)
  BY TicksUp
<1>2. CASE Looks(d)
  <2>1. /\ fire' = fire /\ \A c \in Daemons : c # d => engine'[c] = engine[c]
        /\ SameMemory(engine[d], engine'[d])
    BY <1>2, LooksOnly
  <2>2. SameCounts(d)
    BY <1>0, <1>1, <1>2, <2>1, LooksNoted DEF SameMemory, SameCounts, Covers
  <2>3. \A c \in Daemons : SameCounts(c)
    BY <2>1, <2>2, Unchanged
  <2> QED
    BY <2>1, <2>3, NobodyClaims DEF SameClaims
<1>3. CASE Passes(d)
  <2>1. fire' = fire /\ engine' = [engine EXCEPT ![d] = Idle(engine[d])]
    BY <1>3, PassesOnly
  <2>2. /\ engine'[d].slots = engine[d].slots /\ engine'[d].claims = engine[d].claims
        /\ engine'[d].phase # "down" /\ engine'[d].lock = engine[d].lock
        /\ engine'[d].claimed = engine[d].claimed
        /\ \A c \in Daemons : c # d => engine'[c] = engine[c]
    BY <1>0, <2>1 DEF Idle, EngineRecords
  <2>3. \A c \in Daemons : SameCounts(c)
    BY <1>0, <1>1, <2>2, Unchanged DEF SameCounts, Covers, Up
  <2> QED
    BY <2>1, <2>3, NobodyClaims DEF SameClaims
<1>4. CASE \E r \in Rows : Reap(d, r)
  <2>1. fire' = fire /\ engine' = engine
    BY <1>4 DEF Reap
  <2> QED
    BY <2>1, Unchanged, NobodyClaims DEF SameClaims
<1>5. CASE Decides(d)
  <2>1. /\ engine[d].lock # "free" /\ engine[d].fired \in Nat
        /\ \A c \in Daemons : c # d => engine'[c] = engine[c]
        /\ engine'[d].lock = "free" /\ engine'[d].phase # "down"
    BY <1>1, <1>5, DecidesOnly DEF Decided, Up
  <2>2. Noted(d)' /\ \A c \in Daemons : c # d => SameCounts(c)
    BY <2>1, Unchanged DEF Noted
  <2>3. CASE /\ UNCHANGED fire /\ engine'[d].slots = engine[d].slots
             /\ \/ engine'[d].claims = engine[d].claims
                \/ ~Exhausted(d) /\ engine'[d].claims = Later(d, 0)
    <3>1. ~Exhausted(d) => Covers(Later(d, 0), engine[d].claims)
      <4>1. ~Exhausted(d) => Covers(Later(d, 0), engine[d].claims + IF conf.limit > 0 THEN 0 ELSE 0)
        BY <2>1, LaterCovers
      <4>2. engine[d].claims + (IF conf.limit > 0 THEN 0 ELSE 0) = engine[d].claims
        BY <1>0
      <4> QED
        BY <4>1, <4>2
    <3>2. Covers(engine'[d].claims, engine[d].claims)
      BY <1>0, <2>3, <3>1 DEF Covers
    <3>3. \A c \in Daemons : SameCounts(c)
      BY <1>1, <2>1, <2>2, <2>3, <3>2 DEF SameCounts, Up
    <3> QED
      BY <2>3, <3>3, NobodyClaims DEF SameClaims
  <2>4. CASE /\ ~Exhausted(d) /\ engine[d].slots < Slots
             /\ \E claim, instant : Begin(d, claim, instant)
             /\ engine'[d].slots = engine[d].slots + 1
             /\ engine'[d].claims = Later(d, 1)
    <3>1. PICK claim, instant : Begin(d, claim, instant)
      BY <2>4
    <3> DEFINE f == Top(d, claim, instant)
    <3>2. PICK n \in NextFree : fire' = [fire EXCEPT ![n] = f]
      BY <3>1 DEF Begin
    <3>3. f.pc = "begun" /\ f.by = d /\ f.slotted = TRUE /\ f.limited = (conf.limit > 0)
      BY DEF Top, NoFire
    <3> HIDE DEF f
    <3>4. Bit(f.slotted) = 1 /\ Bit(f.limited) = IF conf.limit > 0 THEN 1 ELSE 0
      BY <3>3 DEF Bit
    <3>5. /\ engine'[d].slots = engine[d].slots + Bit(f.slotted)
          /\ engine'[d].slots <= Slots
      BY <1>0, <2>4, <3>4
    <3>6. Covers(engine'[d].claims, engine[d].claims + Bit(f.limited))
      <4>1. Covers(Later(d, 1), engine[d].claims + IF conf.limit > 0 THEN 1 ELSE 0)
        BY <2>1, <2>4, LaterCovers
      <4> QED
        BY <2>4, <3>4, <4>1
    <3> QED
      BY <1>1, <2>1, <2>2, <3>2, <3>3, <3>5, <3>6, NewFireClaims
  <2> QED
    BY <1>5, <2>3, <2>4, DecidesOnly
<1> QED
  BY <1>2, <1>3, <1>4, <1>5 DEF Ticks

(* Each end of a fire gives back what it holds, once; the commit gives back*)
(* the unit the row then owns.                                             *)
LEMMA FireClaims ==
  ASSUME TypeOK, TypeOK', ClaimsInv, conf' = conf, NEW r \in Rows, Fires(r) \/ Failures(r) \/ Deadline(r)
  PROVE  ClaimsInv'
<1> USE DEF Pc
<1> DEFINE d == fire[r].by
<1>0. /\ fire[r] \in FireRecords /\ fire[r].slotted \in BOOLEAN /\ fire[r].limited \in BOOLEAN
      /\ NoFire.pc = "idle" /\ Ended(r).pc = "idle"
  BY DEF TypeOK, FireRecords, Ended, NoFire
<1>1. Active(r) /\ d \in Daemons /\ Up(d)
  BY DEF Fires, Failures, Commit, Abandon, Launch, Confirm, Finish, Settle, Close, SetupFails,
         NeverBegins, LeaveUndispatched, Deadline, Active, ClaimsInv
<1>2. /\ engine \in [Daemons -> EngineRecords] /\ engine[d] \in EngineRecords
      /\ engine[d].slots \in Int /\ engine[d].claims \in Int /\ engine[d].slots <= Slots
  BY <1>1 DEF TypeOK, EngineRecords, ClaimsInv, Holds
<1>3. CASE Launch(r) \/ Confirm(r) \/ Finish(r) \/ Deadline(r)
  <2>1. \A q \in Rows : SameClaims(q)
    BY <1>0, <1>3 DEF Launch, Confirm, Finish, Deadline, SameClaims, TypeOK, FireRecords
  <2>2. \A c \in Daemons : SameCounts(c)
    <3>1. CASE UNCHANGED engine
      BY <3>1, Unchanged
    <3>2. CASE Launch(r)
      <4> DEFINE x == IF fire[r].depth = 0 THEN r ELSE engine[d].running
      <4>1. engine' = [engine EXCEPT ![d] = [engine[d] EXCEPT !.running = x]]
        BY <3>2 DEF Launch, Keep
      <4> HIDE DEF x
      <4>2. /\ engine'[d].slots = engine[d].slots /\ engine'[d].claims = engine[d].claims
            /\ engine'[d].phase = engine[d].phase /\ engine'[d].lock = engine[d].lock
            /\ engine'[d].claimed = engine[d].claimed
            /\ \A c \in Daemons : c # d => engine'[c] = engine[c]
        BY <1>1, <1>2, <4>1 DEF EngineRecords
      <4>3. SameCounts(d)
        BY <1>2, <4>2 DEF SameCounts, Covers
      <4> QED
        BY <4>2, <4>3, Unchanged
    <3> QED
      BY <1>3, <3>1, <3>2 DEF Confirm, Finish, Deadline
  <2> QED
    BY <2>1, <2>2, NobodyClaims
<1>4. CASE Commit(r)
  <2>1. fire' = [fire EXCEPT ![r] = [@ EXCEPT !.pc = "committed", !.limited = FALSE]]
    BY <1>4 DEF Commit
  <2>2. /\ fire'[r].pc = "committed" /\ fire'[r].limited = FALSE
        /\ fire'[r].by = d /\ fire'[r].slotted = fire[r].slotted
        /\ \A q \in Rows : q # r => fire'[q] = fire[q]
    BY <1>0, <2>1 DEF TypeOK, FireRecords
  <2> DEFINE x == IF fire[r].limited THEN engine[d].claims - 1 ELSE engine[d].claims
  <2>3. engine' = [engine EXCEPT ![d] = [engine[d] EXCEPT !.claims = x]]
    BY <1>4 DEF Commit, Keep
  <2>4. x = engine[d].claims - Bit(fire[r].limited)
    BY <1>0, <1>2 DEF Bit
  <2> HIDE DEF x
  <2>5. /\ engine'[d].claims = x /\ engine'[d].slots = engine[d].slots
        /\ engine'[d].phase = engine[d].phase
        /\ engine'[d].lock = engine[d].lock /\ engine'[d].claimed = engine[d].claimed
        /\ \A c \in Daemons : c # d => engine'[c] = engine[c]
    BY <1>1, <1>2, <2>3 DEF EngineRecords
  <2>6. engine'[d].slots = engine[d].slots - Bit(fire[r].slotted /\ fire'[r].pc = "idle")
    <3>1. ~(fire[r].slotted /\ fire'[r].pc = "idle")
      BY <2>2
    <3>2. Bit(fire[r].slotted /\ fire'[r].pc = "idle") = 0
      BY <3>1 DEF Bit
    <3> QED
      BY <1>2, <2>5, <3>2
  <2>7. engine'[d].claims = engine[d].claims
          - Bit(fire[r].limited /\ (fire'[r].pc = "idle" \/ ~fire'[r].limited))
    <3>1. fire[r].limited /\ (fire'[r].pc = "idle" \/ ~fire'[r].limited) <=> fire[r].limited
      BY <2>2
    <3>2. Bit(fire[r].limited /\ (fire'[r].pc = "idle" \/ ~fire'[r].limited)) = Bit(fire[r].limited)
      BY <3>1 DEF Bit
    <3> QED
      BY <2>4, <2>5, <3>2
  <2>8. /\ \A q \in Rows : q # r => SameClaims(q)
        /\ \A c \in Daemons : c # d => SameCounts(c)
    BY <2>2, <2>5, Unchanged DEF SameClaims
  <2> HIDE DEF d
  <2>9. d = fire[r].by
    BY DEF d
  <2> QED
    BY <1>1, <2>2, <2>5, <2>6, <2>7, <2>8, <2>9, FireMoveClaims DEF Up
<1>5. ASSUME Keep(d, Release(d, r)) \/ Keep(d, Leave(d, r)), fire'[r].pc = "idle",
             \A q \in Rows : q # r => fire'[q] = fire[q]
      PROVE  ClaimsInv'
  <2>1. PICK E \in {Release(d, r), Leave(d, r)} : engine' = [engine EXCEPT ![d] = E]
    BY <1>5 DEF Keep
  <2>2. engine'[d] = E /\ \A c \in Daemons : c # d => engine'[c] = engine[c]
    BY <1>1, <1>2, <2>1
  <2>3. /\ engine'[d].slots = engine[d].slots - Bit(fire[r].slotted)
        /\ engine'[d].claims = engine[d].claims - Bit(fire[r].limited)
        /\ engine'[d].phase = engine[d].phase
        /\ engine'[d].lock = engine[d].lock /\ engine'[d].claimed = engine[d].claimed
    BY <1>1, <2>2, ReleaseCounts
  <2>4. /\ engine'[d].slots = engine[d].slots - Bit(fire[r].slotted /\ fire'[r].pc = "idle")
        /\ engine'[d].claims = engine[d].claims
             - Bit(fire[r].limited /\ (fire'[r].pc = "idle" \/ ~fire'[r].limited))
    BY <1>0, <1>5, <2>3 DEF Bit
  <2>5. /\ \A q \in Rows : q # r => SameClaims(q)
        /\ \A c \in Daemons : c # d => SameCounts(c)
    BY <1>5, <2>2, Unchanged DEF SameClaims
  <2> HIDE DEF d
  <2>6. d = fire[r].by
    BY DEF d
  <2> QED
    BY <1>1, <1>5, <2>3, <2>4, <2>5, <2>6, FireMoveClaims DEF Up
<1>6. CASE \/ Abandon(r) \/ SetupFails(r) \/ NeverBegins(r) \/ LeaveUndispatched(r) \/ Close(r)
           \/ (Settle(r) /\ ~MayChain(r))
  <2>1. Keep(d, Release(d, r)) \/ Keep(d, Leave(d, r))
    BY <1>6 DEF Abandon, SetupFails, NeverBegins, LeaveUndispatched, Close, Settle
  <2>2. fire'[r].pc = "idle" /\ \A q \in Rows : q # r => fire'[q] = fire[q]
    BY <1>0, <1>6 DEF Abandon, SetupFails, NeverBegins, LeaveUndispatched, Close, Settle, TypeOK
  <2> QED
    BY <1>5, <2>1, <2>2
<1>7. CASE Settle(r) /\ MayChain(r)
  <2>1. PICK n \in NextFree :
          fire' = [fire EXCEPT ![n] = Child(d, r), ![r] = [@ EXCEPT !.pc = "chaining"]]
    BY <1>7 DEF Settle
  <2>2. n \in Rows /\ n # r /\ ~Active(n) /\ engine' = engine
    BY <1>1, <1>7 DEF Settle, NextFree, Free
  <2>3. /\ fire'[n] = Child(d, r)
        /\ fire'[r] = [fire[r] EXCEPT !.pc = "chaining"]
        /\ \A q \in Rows : q # n /\ q # r => fire'[q] = fire[q]
    BY <2>1, <2>2 DEF TypeOK
  <2>4. PICK e \in Daemons : e = d
    BY <1>1
  <2>5. /\ fire'[n].pc = "begun" /\ fire'[n].by = e
        /\ fire'[n].slotted = FALSE /\ fire'[n].limited = FALSE
    BY <2>3, <2>4 DEF Child, NoFire
  <2>6. SameClaims(r)
    BY <1>0, <1>1, <2>3 DEF SameClaims, FireRecords, Active
  <2>7. \A q \in Rows : q # n => SameClaims(q)
    BY <2>3, <2>6 DEF SameClaims
  <2>8. n \notin Slotted(e) /\ n \notin Limited(e) /\ n \notin Slotted(e)' /\ n \notin Limited(e)'
    BY <2>2, <2>5 DEF Slotted, Limited, Tasks
  <2>9. /\ engine'[e].slots = engine[e].slots + Bit(n \in Slotted(e)') - Bit(n \in Slotted(e))
        /\ Covers(engine'[e].claims,
                  engine[e].claims + Bit(n \in Limited(e)') - Bit(n \in Limited(e)))
        /\ engine'[e].slots <= Slots
    <3>1. /\ Bit(n \in Slotted(e)') = 0 /\ Bit(n \in Slotted(e)) = 0
          /\ Bit(n \in Limited(e)') = 0 /\ Bit(n \in Limited(e)) = 0
      BY <2>8 DEF Bit
    <3>2. /\ engine[e].slots \in Int /\ engine[e].claims \in Int /\ engine[e].slots <= Slots
          /\ engine'[e] = engine[e]
      BY <1>2, <2>2, <2>4
    <3> QED
      BY <3>1, <3>2 DEF Covers
  <2>10. /\ engine'[e].phase # "down" /\ Noted(e)'
         /\ (Active(n) => fire[n].by = e) /\ (Active(n)' => fire'[n].by = e)
    BY <1>1, <2>2, <2>4, <2>5 DEF Up, ClaimsInv, Holds, Noted
  <2>11. \A c \in Daemons : c # e => SameCounts(c)
    BY <2>2, Unchanged
  <2>12. Up(e) /\ n \in Rows
    BY <1>1, <2>2, <2>4
  <2> QED
    BY <2>7, <2>9, <2>10, <2>11, <2>12, OneClaims
<1> QED
  BY <1>3, <1>4, <1>6, <1>7 DEF Fires, Failures

(* A process that stops or dies takes its tasks and counters with it.      *)
LEMMA WorldClaims ==
  ASSUME TypeOK, TypeOK', ClaimsInv, conf' = conf,
         \/ Advance \/ \E r \in Rows : ChildEnds(r)
         \/ \E d \in Daemons : Crash(d) \/ Stop(d)
  PROVE  ClaimsInv'
<1>1. CASE Advance \/ \E r \in Rows : ChildEnds(r)
  BY <1>1, Unchanged, NobodyClaims DEF Advance, ChildEnds, SameClaims
<1>2. ASSUME NEW d \in Daemons, Crash(d) \/ Stop(d)
      PROVE  ClaimsInv'
  <2>1. /\ \A c \in Daemons : engine'[c] = IF c = d THEN NoEngine ELSE engine[c]
        /\ fire' = Forgotten(d)
    BY <1>2 DEF Crash, Stop, TypeOK
  <2>2. /\ NoEngine.phase = "down" /\ NoEngine.slots = 0 /\ NoEngine.claims = 0
        /\ NoEngine.lock = "free"
    BY DEF NoEngine
  <2>3. \A q \in Rows : IF q \in Tasks(d) THEN fire'[q].pc = "idle" ELSE fire'[q] = fire[q]
    <3>1. \A q \in Rows : Ended(q).pc = "idle" /\ NoFire.pc = "idle"
      BY DEF TypeOK, Ended, NoFire, FireRecords
    <3>2. ASSUME NEW q \in Rows
          PROVE  IF q \in Tasks(d) THEN fire'[q] \in {NoFire, Ended(q)} ELSE fire'[q] = fire[q]
      BY <2>1 DEF Forgotten
    <3> QED
      BY <3>1, <3>2
  <2>4. Tasks(d)' = {} /\ Slotted(d)' = {} /\ Limited(d)' = {}
    BY <2>3 DEF Tasks, Active, Slotted, Limited
  <2>5. ASSUME NEW c \in Daemons, c # d
        PROVE  Tasks(c)' = Tasks(c) /\ Slotted(c)' = Slotted(c) /\ Limited(c)' = Limited(c)
    BY <2>3, <2>5 DEF Tasks, Active, Slotted, Limited
  <2>6. Holds(d)'
    <3>1. Cardinality({}) = 0 /\ 0 <= Slots
      BY FS_EmptySet, SchedulerAssumption
    <3> QED
      BY <2>1, <2>2, <2>4, <3>1 DEF Holds, Covers, Noted
  <2>7. \A c \in Daemons : c # d => Holds(c)'
    BY <2>1, <2>5, Unchanged, SameHolds
  <2>8. \A q \in Rows : Active(q)' => fire'[q].by \in Daemons
    BY <2>3 DEF Active, ClaimsInv
  <2> QED
    BY <2>6, <2>7, <2>8 DEF ClaimsInv
<1> QED
  BY <1>1, <1>2

(* Every step keeps the counters true.                                     *)
LEMMA NextClaims == TypeOK /\ ClaimsInv /\ [Next]_vars => ClaimsInv'
<1> SUFFICES ASSUME TypeOK, ClaimsInv, [Next]_vars
             PROVE  ClaimsInv'
  OBVIOUS
<1>1. TypeOK' /\ conf' = conf
  BY NextType, ConfStays
<1>2. CASE UNCHANGED vars
  BY <1>1, <1>2, Unchanged, NobodyClaims DEF vars, SameClaims
<1> QED
  BY <1>1, <1>2, RepairClaims, TickClaims, FireClaims, WorldClaims
     DEF Next, Daemon, Ticks, Looks, Passes, Decides

(* At the start no process is up and nothing is held.                      *)
LEMMA InitClaims == Init => ClaimsInv
<1> SUFFICES ASSUME Init
             PROVE  ClaimsInv
  OBVIOUS
<1>1. \A r \in Rows : ~Active(r)
  BY DEF Init, Active, NoFire
<1>2. \A d \in Daemons : Tasks(d) = {} /\ Slotted(d) = {} /\ Limited(d) = {}
  BY <1>1 DEF Tasks, Slotted, Limited
<1>3. \A d \in Daemons : engine[d].slots = 0 /\ engine[d].claims = 0 /\ engine[d].lock = "free"
  BY DEF Init, NoEngine
<1>4. Cardinality({}) = 0 /\ 0 <= Slots
  BY FS_EmptySet, SchedulerAssumption
<1> QED
  BY <1>1, <1>2, <1>3, <1>4 DEF ClaimsInv, Holds, Covers, Noted

(* The counters are true throughout.                                       *)
LEMMA AlwaysClaims == Spec => []ClaimsInv
<1> QED
  BY InitClaims, NextClaims, ScheduleTypeCorrect, PTL DEF Spec

(* _global_inflight counts exactly the fires that hold a slot, no more than*)
(* MAX_SCHEDULED_CONCURRENT, and _max_runs_inflight at least the fires that*)
(* hold a unit of max_runs, exactly those where the budget is one: each of *)
(* the many ends of a fire gives back what it took, once, and no           *)
(* reservation writes a number that forgets a fire admitted meanwhile.     *)
THEOREM ClaimsAreCounted == Spec => []ClaimsMatchFires
<1>1. ClaimsInv => ClaimsMatchFires
  BY DEF ClaimsInv, Holds, Slotted, Limited, Covers, ClaimsMatchFires
<1> QED
  BY <1>1, AlwaysClaims, PTL

-----------------------------------------------------------------------------
(* What a step of a fire may change.                                       *)

NoRowsLost == \A q \in Rows : status[q] # "none" <=> status'[q] # "none"

\* The row of r gets its first status, and what r replaces is closed.
Written(r) ==
  /\ fire[r].pc = "begun" /\ Mine(r)
  /\ \A q \in Rows : status'[q] = "none" <=> status[q] = "none" /\ q # r
  /\ fire[r].replaces # NoRow => status'[fire[r].replaces] # "running"
  /\ \A q \in Rows : q # r => status'[q] = status[q] \/ status'[q] # "running"

(* A task keeps its daemon's phase and what the daemon has read.           *)
LEMMA FireEngine ==
  ASSUME TypeOK, ClaimsInv, NEW r \in Rows, Fires(r) \/ Failures(r) \/ Deadline(r)
  PROVE  /\ Active(r) /\ fire[r].by \in Daemons /\ Up(fire[r].by)
         /\ \A c \in Daemons : /\ engine'[c].phase = engine[c].phase
                               /\ engine'[c].todo = engine[c].todo
                               /\ engine'[c].lock = engine[c].lock
                               /\ engine'[c].claimed = engine[c].claimed
                               /\ engine'[c].fired = engine[c].fired
<1> USE DEF Pc
<1> DEFINE d == fire[r].by
<1>1. Active(r) /\ d \in Daemons /\ Up(d)
  BY DEF Fires, Failures, Commit, Abandon, Launch, Confirm, Finish, Settle, Close, SetupFails,
         NeverBegins, LeaveUndispatched, Deadline, Active, ClaimsInv
<1>2. /\ engine \in [Daemons -> EngineRecords] /\ engine[d] \in EngineRecords
      /\ \A c \in Daemons : engine[c] \in EngineRecords /\ engine[c].claims \in Int
  BY <1>1 DEF TypeOK, EngineRecords
<1> DEFINE Calm(e, f) == /\ f.phase = e.phase /\ f.todo = e.todo /\ f.lock = e.lock
                         /\ f.claimed = e.claimed /\ f.fired = e.fired
<1>3. \A c \in Daemons : Calm(engine[c], engine[c])
  OBVIOUS
<1>4. ASSUME NEW e \in EngineRecords, NEW a \in Int, NEW b, NEW c
      PROVE  LET R == [e EXCEPT !.claims = a, !.slots = b]
                 L == [R EXCEPT !.running = c]
                 K == [e EXCEPT !.claims = a]
                 M == [e EXCEPT !.running = c] IN
               /\ Calm(e, R) /\ Calm(e, L) /\ Calm(e, K) /\ Calm(e, M)
               /\ R.running = e.running
  BY <1>4 DEF EngineRecords
<1> DEFINE a == IF fire[r].limited THEN engine[d].claims - 1 ELSE engine[d].claims
           b == IF fire[r].slotted THEN engine[d].slots - 1 ELSE engine[d].slots
           c0 == IF fire[r].depth = 0 THEN NoRow ELSE engine[d].running
           c1 == IF fire[r].depth = 0 THEN r ELSE engine[d].running
<1>5. a \in Int
  BY <1>1, <1>2
<1>6. Release(d, r) = [engine[d] EXCEPT !.claims = a, !.slots = b]
  BY <1>2 DEF Release, EngineRecords
<1>7. Leave(d, r) = [Release(d, r) EXCEPT !.running = c0]
  BY <1>2, <1>4, <1>5, <1>6 DEF Leave
<1>8. \/ UNCHANGED engine
      \/ \E E \in {Release(d, r), Leave(d, r), [engine[d] EXCEPT !.claims = a],
                   [engine[d] EXCEPT !.running = c1]} :
           engine' = [engine EXCEPT ![d] = E]
  BY DEF Fires, Failures, Commit, Abandon, Launch, Confirm, Finish, Settle, Close, SetupFails,
         NeverBegins, LeaveUndispatched, Deadline, Keep
<1> HIDE DEF a, b, c0, c1
<1>9. \A E \in {Release(d, r), Leave(d, r), [engine[d] EXCEPT !.claims = a],
                [engine[d] EXCEPT !.running = c1]} : Calm(engine[d], E)
  <2>1. Calm(engine[d], Release(d, r)) /\ Calm(engine[d], Leave(d, r))
    BY <1>2, <1>4, <1>5, <1>6, <1>7
  <2>2. Calm(engine[d], [engine[d] EXCEPT !.claims = a])
    BY <1>2, <1>4, <1>5
  <2>3. Calm(engine[d], [engine[d] EXCEPT !.running = c1])
    BY <1>2, <1>4, <1>5
  <2> QED
    BY <2>1, <2>2, <2>3
<1> HIDE DEF Calm
<1>10. \A c \in Daemons : Calm(engine[c], engine'[c])
  BY <1>1, <1>2, <1>3, <1>8, <1>9
<1> QED
  BY <1>1, <1>10 DEF Calm

(* It moves its own row, and may give it a child of its own.               *)
LEMMA FireRows ==
  ASSUME TypeOK, Fresh, NEW r \in Rows, Fires(r) \/ Failures(r) \/ Deadline(r)
  PROVE  /\ \A q \in Rows : q # r => \/ fire'[q] = fire[q]
                                     \/ q \in NextFree /\ fire'[q] = Child(fire[r].by, r)
         /\ fire'[r].pc # "begun"
         /\ \/ fire'[r] = NoFire /\ fire[r].pc = "begun" /\ NoRowsLost
            \/ /\ fire'[r].depth = fire[r].depth /\ fire'[r].replaces = fire[r].replaces
               /\ fire'[r].limited => fire'[r].pc # "idle" /\ fire[r].limited
               /\ (NoRowsLost /\ fire[r].pc # "begun") \/ (Written(r) /\ ~fire'[r].limited)
         /\ dispatched' \subseteq dispatched \cup {r}
         /\ NoRowsLost => \A q \in Rows : status'[q] = status[q] \/ status'[q] # "running"
<1> USE DEF Pc
<1>0. /\ fire[r] \in FireRecords /\ "running" \in Statuses /\ "failed" \in Statuses
      /\ Ended(r).pc = "idle" /\ NoFire.pc = "idle"
      /\ Ended(r).depth = fire[r].depth /\ Ended(r).replaces = fire[r].replaces
      /\ Ended(r).limited = FALSE
  BY DEF TypeOK, Statuses, Terminal, Ended, NoFire, FireRecords
<1>1. CASE Commit(r) \/ SetupFails(r)
  <2>1. CASE Mine(r)
    <3>1. PICK st \in {"running", "failed"} : Record(r, st)
      BY <1>1, <2>1 DEF Commit, SetupFails
    <3>2. /\ \A q \in Rows : status'[q] = "none" <=> status[q] = "none" /\ q # r
          /\ fire[r].pc = "begun"
      BY <1>0, <1>1, <2>1, <3>1, RecordKeeps DEF Commit, SetupFails
    <3>3. /\ fire[r].replaces # NoRow => status'[fire[r].replaces] # "running"
          /\ \A q \in Rows : q # r => status'[q] = status[q] \/ status'[q] # "running"
      <4>1. fire[r].replaces # r /\ fire[r].replaces \in Rows \cup {NoRow}
        BY <2>1, <3>2 DEF Mine, Undispatched, Fresh, NoRow, Rows, TypeOK, FireRecords
      <4>2. \A q \in Rows : status'[q] = IF q = r THEN st
                                         ELSE IF q = fire[r].replaces THEN "failed" ELSE status[q]
        BY <3>1, <4>1 DEF Record
      <4> QED
        BY <4>1, <4>2
    <3>4. Written(r)
      BY <2>1, <3>2, <3>3 DEF Written
    <3>5. \A q \in Rows : q # r => fire'[q] = fire[q]
      BY <1>1, <2>1 DEF Commit, SetupFails, TypeOK
    <3>6. /\ fire'[r].pc # "begun" /\ fire'[r].limited = FALSE
          /\ fire'[r].depth = fire[r].depth /\ fire'[r].replaces = fire[r].replaces
      <4>1. \/ fire'[r] = [fire[r] EXCEPT !.pc = "committed", !.limited = FALSE]
            \/ fire'[r] = Ended(r)
        BY <1>1, <2>1 DEF Commit, SetupFails, TypeOK
      <4>2. ASSUME NEW f \in FireRecords, NEW g, g = [f EXCEPT !.pc = "committed", !.limited = FALSE]
            PROVE  /\ g.pc = "committed" /\ g.limited = FALSE
                   /\ g.depth = f.depth /\ g.replaces = f.replaces
        BY <4>2 DEF FireRecords
      <4> QED
        BY <1>0, <4>1, <4>2
    <3>7. dispatched' = dispatched /\ ~NoRowsLost
      BY <1>1, <3>2 DEF Commit, SetupFails, NoRowsLost, Fresh
    <3> QED
      BY <3>4, <3>5, <3>6, <3>7
  <2>2. CASE ~Mine(r)
    BY <1>0, <1>1, <2>2 DEF Commit, SetupFails, TypeOK, NoRowsLost
  <2> QED
    BY <2>1, <2>2
<1>2. CASE Abandon(r) \/ NeverBegins(r)
  BY <1>0, <1>2 DEF Abandon, NeverBegins, TypeOK, rowVars, NoRowsLost
<1>3. CASE LeaveUndispatched(r) \/ Launch(r) \/ Confirm(r) \/ Close(r)
  <2>1. UNCHANGED status /\ dispatched' \subseteq dispatched \cup {r}
    BY <1>3 DEF LeaveUndispatched, Launch, Confirm, Close, rowVars
  <2>2. fire[r].pc # "begun" /\ \A q \in Rows : q # r => fire'[q] = fire[q]
    BY <1>3 DEF LeaveUndispatched, Launch, Confirm, Close, TypeOK
  <2>3. /\ fire'[r].pc # "begun"
        /\ fire'[r].depth = fire[r].depth /\ fire'[r].replaces = fire[r].replaces
        /\ fire'[r].limited => fire'[r].pc # "idle" /\ fire[r].limited
    BY <1>0, <1>3 DEF LeaveUndispatched, Launch, Confirm, Close, TypeOK, FireRecords
  <2> QED
    BY <2>1, <2>2, <2>3 DEF NoRowsLost
<1>4. CASE Finish(r) \/ Deadline(r)
  <2>1. \E as \in Terminal : status' = Finalized(r, as)
    BY <1>4 DEF Finish, Deadline, Terminal
  <2>2. /\ NoRowsLost /\ dispatched' = dispatched
        /\ \A q \in Rows : status'[q] = status[q] \/ status'[q] # "running"
    BY <1>4, <2>1 DEF Finalized, TypeOK, NoRowsLost, Terminal, Finish, Deadline
  <2>3. /\ fire'[r].pc # "begun" /\ fire[r].pc # "begun"
        /\ fire'[r].depth = fire[r].depth /\ fire'[r].replaces = fire[r].replaces
        /\ fire'[r].limited => fire'[r].pc # "idle" /\ fire[r].limited
        /\ \A q \in Rows : q # r => fire'[q] = fire[q]
    BY <1>0, <1>4 DEF Finish, Deadline, TypeOK, FireRecords
  <2> QED
    BY <2>2, <2>3
<1>5. CASE Settle(r)
  <2>1. UNCHANGED status /\ dispatched' = dispatched /\ fire[r].pc = "settling"
    BY <1>5 DEF Settle, rowVars
  <2>2. CASE MayChain(r)
    <3>1. PICK n \in NextFree :
            fire' = [fire EXCEPT ![n] = Child(fire[r].by, r),
                                 ![r] = [@ EXCEPT !.pc = "chaining"]]
      BY <1>5, <2>2 DEF Settle
    <3>2. n \in Rows /\ n # r
      BY <1>5 DEF Settle, NextFree, Free, Active
    <3>3. \A q \in Rows : q # r => fire'[q] = IF q = n THEN Child(fire[r].by, r) ELSE fire[q]
      BY <3>1, <3>2 DEF TypeOK
    <3>4. fire'[r] = [fire[r] EXCEPT !.pc = "chaining"]
      BY <3>1, <3>2 DEF TypeOK
    <3>5. /\ fire'[r].pc = "chaining" /\ fire'[r].limited = fire[r].limited
          /\ fire'[r].depth = fire[r].depth /\ fire'[r].replaces = fire[r].replaces
      BY <1>0, <3>4 DEF FireRecords
    <3> QED
      BY <2>1, <3>3, <3>5 DEF NoRowsLost
  <2>3. CASE ~MayChain(r)
    BY <1>0, <1>5, <2>1, <2>3 DEF Settle, NoRowsLost, TypeOK
  <2> QED
    BY <2>2, <2>3
<1> QED
  BY <1>1, <1>2, <1>3, <1>4, <1>5 DEF Fires, Failures
-----------------------------------------------------------------------------
(* A confirmed run is not fired again.                                     *)

Orphan(q) == ~Active(q) /\ status[q] # "none"

\* The one process that is up replaces rows whose task is gone, for good, and
\* no row on record replaces one that is known to be launched.
Orphaned ==
  /\ \A d, e \in Daemons : Up(d) /\ Up(e) => d = e
  /\ \A d \in Daemons : engine[d].phase = "recover" => \A q \in engine[d].todo : Orphan(q)
  /\ \A r \in Rows : fire[r].replaces # NoRow => Orphan(fire[r].replaces)
  /\ \A r \in Rows : status[r] # "none" => fire[r].replaces \notin dispatched
OrphanInv == conf.peers = 1 => Orphaned

\* A daemon does not come up, and reads no new rows.
SameRounds(c) ==
  /\ engine'[c].phase # "down" => engine[c].phase # "down"
  /\ engine'[c].phase = "recover" =>
       engine[c].phase = "recover" /\ engine'[c].todo \subseteq engine[c].todo

(* What keeps orphans what they are.                                       *)
LEMMA OrphansStay ==
  ASSUME TypeOK, Orphaned, dispatched' \subseteq Rows,
         \A c \in Daemons : SameRounds(c),
         \A q \in Rows : status[q] # "none" => status'[q] # "none",
         \A q \in Rows : Orphan(q) => fire'[q].pc = "idle",
         \A q \in Rows :
           \/ fire'[q].replaces = NoRow
           \/ /\ fire'[q].replaces = fire[q].replaces
              /\ status'[q] = "none" \/ status[q] # "none" \/ fire[q].replaces \notin dispatched
           \/ /\ status'[q] = "none" /\ fire'[q].replaces \in Rows
              /\ Orphan(fire'[q].replaces),
         \A q \in dispatched' : q \in dispatched \/ Active(q)
  PROVE  Orphaned'
<1>1. \A q \in Rows : Orphan(q) => Orphan(q)'
  BY DEF Orphan, Active
<1>2. \A d, e \in Daemons : Up(d)' /\ Up(e)' => d = e
  BY DEF Orphaned, SameRounds, Up
<1>3. \A d \in Daemons : engine'[d].phase = "recover" => \A q \in engine'[d].todo : Orphan(q)'
  <2>1. ASSUME NEW d \in Daemons, engine'[d].phase = "recover", NEW q \in engine'[d].todo
        PROVE  Orphan(q)'
    <3>1. /\ engine[d].phase = "recover" /\ q \in engine[d].todo
          /\ engine[d] \in EngineRecords
      BY <2>1 DEF SameRounds, TypeOK
    <3>2. q \in Rows /\ Orphan(q)
      BY <3>1 DEF Orphaned, EngineRecords
    <3> QED
      BY <1>1, <3>2
  <2> QED
    BY <2>1
<1>4. NoRow \notin Rows /\ \A q \in Rows : fire[q].replaces \in Rows \cup {NoRow}
  <2>1. \A q \in Rows : fire[q] \in FireRecords
    BY DEF TypeOK
  <2> QED
    BY <2>1 DEF NoRow, Rows, FireRecords
<1>5. ASSUME NEW q \in Rows, fire'[q].replaces # NoRow
      PROVE  fire'[q].replaces \in Rows /\ Orphan(fire'[q].replaces)
  BY <1>4, <1>5 DEF Orphaned
<1>6. ASSUME NEW q \in Rows, status'[q] # "none"
      PROVE  fire'[q].replaces \notin dispatched'
  <2>1. CASE fire'[q].replaces = NoRow
    BY <1>4, <2>1
  <2>2. CASE fire'[q].replaces # NoRow
    <3>1. Orphan(fire'[q].replaces) /\ fire'[q].replaces \notin dispatched
      BY <1>5, <1>6, <2>2 DEF Orphaned
    <3> QED
      BY <3>1 DEF Orphan
  <2> QED
    BY <2>1, <2>2
<1> QED
  BY <1>1, <1>2, <1>3, <1>5, <1>6 DEF Orphaned

(* A start finds nobody up, and with nobody up every task is gone.  The    *)
(* recovery pass writes a fire that replaces what the start found.         *)
LEMMA RepairOrphans ==
  ASSUME TypeOK, TypeOK', ClaimsInv, Orphaned, conf.peers = 1, NEW d \in Daemons,
         \/ Start(d) \/ RecoverDone(d) \/ ReconcileDone(d)
         \/ \E r \in Rows : RecoverRow(d, r) \/ ReconcileRow(d, r)
  PROVE  Orphaned'
<1>0. /\ engine \in [Daemons -> EngineRecords] /\ engine[d] \in EngineRecords
      /\ engine[d].todo \subseteq Rows /\ dispatched' \subseteq Rows
  BY DEF TypeOK, EngineRecords
<1>1. CASE Start(d)
  <2>1. \A c \in Daemons : ~Up(c)
    <3>1. ASSUME NEW c \in Daemons, Up(c)
          PROVE  FALSE
      <4>1. {e \in Daemons : Up(e)} = {c}
        BY <3>1 DEF Orphaned
      <4>2. Cardinality({c}) = 1
        BY FS_Singleton
      <4> QED
        BY <1>1, <4>1, <4>2 DEF Start
    <3> QED
      BY <3>1
  <2>2. \A q \in Rows : ~Active(q)
    BY <2>1 DEF ClaimsInv, Holds, Tasks
  <2>3. /\ UNCHANGED <<status, dispatched, fire>>
        /\ \A c \in Daemons : c # d => engine'[c] = engine[c]
        /\ engine'[d].todo = {r \in Rows : Undispatched(r)}
    BY <1>0, <1>1 DEF Start, NoEngine, rowVars
  <2>4. \A q \in Rows : Orphan(q)' <=> Orphan(q)
    BY <2>3 DEF Orphan, Active
  <2>5. \A q \in engine'[d].todo : Orphan(q)'
    BY <2>2, <2>3 DEF Orphan, Undispatched, Active
  <2>6. \A e, c \in Daemons : Up(e)' /\ Up(c)' => e = c
    BY <2>1, <2>3 DEF Up
  <2>7. \A c \in Daemons : engine'[c].phase = "recover" => c = d
    BY <2>1, <2>3 DEF Up
  <2>8. \A r \in Rows : fire[r].replaces # NoRow => Orphan(fire[r].replaces)'
    BY <2>3 DEF Orphaned, Orphan, Active
  <2> QED
    BY <2>3, <2>5, <2>6, <2>7, <2>8 DEF Orphaned
<1>2. CASE RecoverDone(d) \/ ReconcileDone(d)
  <2>1. /\ UNCHANGED <<status, dispatched, fire>>
        /\ \A c \in Daemons : c # d => engine'[c] = engine[c]
        /\ engine[d].phase # "down"
    BY <1>0, <1>2 DEF RecoverDone, ReconcileDone, rowVars
  <2>2. engine'[d].phase # "recover"
    <3>1. CASE RecoverDone(d)
      BY <1>0, <3>1 DEF RecoverDone, EngineRecords
    <3>2. CASE ReconcileDone(d)
      BY <1>0, <3>2 DEF ReconcileDone, EngineRecords
    <3> QED
      BY <1>2, <3>1, <3>2
  <2>3. \A c \in Daemons : SameRounds(c)
    BY <2>1, <2>2 DEF SameRounds
  <2>4. \A q \in Rows : Orphan(q) => fire'[q].pc = "idle"
    BY <2>1 DEF Orphan, Active
  <2> QED
    BY <1>0, <2>1, <2>3, <2>4, OrphansStay
<1>3. ASSUME NEW r \in Rows, RecoverRow(d, r) \/ ReconcileRow(d, r)
      PROVE  Orphaned'
  <2>1. engine' = [engine EXCEPT ![d].todo = @ \ {r}] /\ engine[d].phase # "down"
        /\ r \in engine[d].todo
    BY <1>3 DEF RecoverRow, ReconcileRow
  <2>2. \A c \in Daemons : SameRounds(c)
    BY <1>0, <2>1 DEF SameRounds, EngineRecords
  <2>3. \A q \in Rows : status[q] # "none" => status'[q] # "none"
    BY <1>3 DEF RecoverRow, ReconcileRow, TypeOK
  <2>4. dispatched' = dispatched
    BY <1>3 DEF RecoverRow, ReconcileRow
  <2>5. CASE UNCHANGED fire
    <3>1. \A q \in Rows : status'[q] = "none" \/ status[q] # "none"
      BY <1>3 DEF RecoverRow, ReconcileRow, TypeOK
    <3>2. \A q \in Rows : Orphan(q) => fire'[q].pc = "idle"
      BY <2>5 DEF Orphan, Active
    <3> QED
      BY <1>0, <2>2, <2>3, <2>4, <2>5, <3>1, <3>2, OrphansStay
  <2>6. CASE ~UNCHANGED fire
    <3> DEFINE New(f) == \/ f.replaces = NoRow
                         \/ f.replaces = r /\ engine[d].phase = "recover"
    <3>1. \E n \in NextFree, f \in {Child(d, r), [NoFire EXCEPT !.pc = "begun", !.by = d,
                    !.replaces = r, !.instant = fire[r].instant, !.at = now]} :
            fire' = [fire EXCEPT ![n] = f] /\ New(f)
      BY <1>3, <2>6 DEF RecoverRow, ReconcileRow, Child, NoFire
    <3>2. PICK n \in NextFree : \E f : fire' = [fire EXCEPT ![n] = f] /\ New(f)
      BY <3>1
    <3>3. PICK f : fire' = [fire EXCEPT ![n] = f] /\ New(f)
      BY <3>2
    <3>4. n \in Rows /\ ~Active(n) /\ status[n] = "none"
      BY DEF NextFree, Free
    <3>5. fire'[n] = f /\ \A q \in Rows : q # n => fire'[q] = fire[q]
      BY <3>3, <3>4 DEF TypeOK
    <3>6. \A q \in Rows : status'[q] = "none" <=> status[q] = "none"
      BY <1>3 DEF RecoverRow, ReconcileRow, TypeOK
    <3>7. \A q \in Rows : Orphan(q) => fire'[q].pc = "idle"
      BY <3>4, <3>5 DEF Orphan, Active
    <3>8. f.replaces = NoRow \/ (f.replaces = r /\ Orphan(r))
      BY <2>1, <3>3 DEF Orphaned
    <3> QED
      BY <1>0, <2>2, <2>3, <2>4, <3>4, <3>5, <3>6, <3>7, <3>8, OrphansStay
  <2> QED
    BY <2>5, <2>6
<1> QED
  BY <1>1, <1>2, <1>3

(* The tick, the triggers and the reaper replace nothing.                  *)
LEMMA TickOrphans ==
  ASSUME TypeOK, TypeOK', Orphaned, NEW d \in Daemons, Ticks(d)
  PROVE  Orphaned'
<1>0. /\ engine \in [Daemons -> EngineRecords] /\ engine[d] \in EngineRecords
      /\ dispatched' \subseteq Rows
  BY DEF TypeOK
<1>1. CASE Looks(d)
  <2>1. \A c \in Daemons : SameRounds(c)
    BY <1>1, LooksOnly DEF SameMemory, SameRounds
  <2>2. UNCHANGED <<status, dispatched, fire>>
    BY <1>1, LooksOnly
  <2>3. \A q \in Rows : Orphan(q) => fire'[q].pc = "idle"
    BY <2>2 DEF Orphan, Active
  <2> QED
    BY <1>0, <2>1, <2>2, <2>3, OrphansStay
<1>2. \A c \in Daemons : ~Looks(d) => SameRounds(c)
  <2>1. CASE Passes(d)
    <3>1. /\ engine' = [engine EXCEPT ![d] = Idle(engine[d])]
          /\ engine[d].phase # "down"
      BY <2>1, PassesOnly
    <3>2. engine'[d].phase = "idle" /\ \A c \in Daemons : c # d => engine'[c] = engine[c]
      BY <1>0, <3>1 DEF Idle, EngineRecords
    <3> QED
      BY <3>1, <3>2 DEF SameRounds
  <2>2. CASE Decides(d)
    BY <2>2, DecidesOnly DEF Decided, SameRounds
  <2>3. CASE \E r \in Rows : Reap(d, r)
    BY <2>3 DEF Reap, SameRounds
  <2> QED
    BY <2>1, <2>2, <2>3 DEF Ticks
<1>3. dispatched' = dispatched /\ \A q \in Rows : status'[q] = "none" <=> status[q] = "none"
  <2>1. CASE \E r \in Rows : Reap(d, r)
    BY <2>1 DEF Reap, TypeOK
  <2> QED
    BY <2>1, LooksOnly, PassesOnly, DecidesOnly DEF Ticks
<1>4. \/ UNCHANGED fire
      \/ \E n \in NextFree : \E claim, instant : fire' = [fire EXCEPT ![n] = Top(d, claim, instant)]
  <2>1. CASE \E r \in Rows : Reap(d, r)
    BY <2>1 DEF Reap
  <2>2. CASE Decides(d)
    BY <2>2, DecidesOnly DEF Begin
  <2> QED
    BY <2>1, <2>2, LooksOnly, PassesOnly DEF Ticks
<1>5. CASE ~Looks(d) /\ UNCHANGED fire
  <2>1. \A q \in Rows : Orphan(q) => fire'[q].pc = "idle"
    BY <1>5 DEF Orphan, Active
  <2> QED
    BY <1>0, <1>2, <1>3, <1>5, <2>1, OrphansStay
<1>6. CASE ~Looks(d) /\ ~UNCHANGED fire
  <2>1. PICK n \in NextFree : \E claim, instant : fire' = [fire EXCEPT ![n] = Top(d, claim, instant)]
    BY <1>4, <1>6
  <2>2. PICK claim, instant : fire' = [fire EXCEPT ![n] = Top(d, claim, instant)]
    BY <2>1
  <2> DEFINE f == Top(d, claim, instant)
  <2>3. n \in Rows /\ status[n] = "none"
    BY DEF NextFree, Free
  <2>4. f.replaces = NoRow
    BY DEF Top, NoFire
  <2> HIDE DEF f
  <2>5. fire'[n] = f /\ \A q \in Rows : q # n => fire'[q] = fire[q]
    BY <2>2, <2>3 DEF TypeOK, f
  <2>6. \A q \in Rows : Orphan(q) => fire'[q].pc = "idle"
    BY <2>3, <2>5 DEF Orphan, Active
  <2>7. \A q \in Rows : \/ fire'[q].replaces = NoRow
                        \/ fire'[q].replaces = fire[q].replaces
    BY <2>4, <2>5
  <2> QED
    BY <1>0, <1>2, <1>3, <1>6, <2>6, <2>7, OrphansStay
<1> QED
  BY <1>1, <1>5, <1>6

(* A task writes its row only if what it replaces is unconfirmed still; it *)
(* confirms only its own launch, and what is replaced has no task.         *)
LEMMA FireOrphans ==
  ASSUME TypeOK, TypeOK', Fresh, ClaimsInv, Orphaned,
         NEW r \in Rows, Fires(r) \/ Failures(r) \/ Deadline(r)
  PROVE  Orphaned'
<1>1. Active(r) /\ \A c \in Daemons : SameRounds(c)
  BY FireEngine DEF SameRounds
<1>2. \A q \in Rows : q # r => \/ fire'[q] = fire[q]
                               \/ q \in NextFree /\ fire'[q] = Child(fire[r].by, r)
  BY FireRows
<1>3. NoFire.replaces = NoRow /\ Child(fire[r].by, r).replaces = NoRow
  BY DEF NoFire, Child
<1>4. NoRowsLost \/ Written(r)
  BY FireRows
<1>5. \A q \in Rows : status[q] # "none" => status'[q] # "none"
  BY <1>4 DEF NoRowsLost, Written, Fresh
<1>6. \A q \in Rows : Orphan(q) => fire'[q].pc = "idle"
  BY <1>1, <1>2 DEF Orphan, NextFree, Free, Active
<1>7. \A q \in dispatched' : q \in dispatched \/ Active(q)
  BY <1>1, FireRows
<1>8. ASSUME NEW q \in Rows, q # r
      PROVE  \/ fire'[q].replaces = NoRow
             \/ /\ fire'[q].replaces = fire[q].replaces
                /\ status'[q] = "none" \/ status[q] # "none"
  BY <1>2, <1>3, <1>4, <1>8 DEF NoRowsLost, Written
<1>9. \/ fire'[r].replaces = NoRow
      \/ /\ fire'[r].replaces = fire[r].replaces
         /\ status'[r] = "none" \/ status[r] # "none" \/ fire[r].replaces \notin dispatched
  <2>1. fire'[r].replaces = NoRow \/ fire'[r].replaces = fire[r].replaces
    BY <1>3, FireRows
  <2>2. CASE NoRowsLost
    BY <2>1, <2>2 DEF NoRowsLost
  <2>3. CASE Written(r)
    BY <2>1, <2>3 DEF Written, Mine, Undispatched
  <2> QED
    BY <1>4, <2>2, <2>3
<1> QED
  BY <1>1, <1>5, <1>6, <1>7, <1>8, <1>9, OrphansStay DEF TypeOK

(* Tasks that are cancelled or lost leave their rows as orphans.           *)
LEMMA WorldOrphans ==
  ASSUME TypeOK, TypeOK', Orphaned,
         \/ Advance \/ \E r \in Rows : ChildEnds(r)
         \/ \E d \in Daemons : Crash(d) \/ Stop(d)
  PROVE  Orphaned'
<1>1. CASE Advance \/ \E r \in Rows : ChildEnds(r)
  <2>1. UNCHANGED <<status, dispatched, fire, engine>>
    BY <1>1 DEF Advance, ChildEnds, rowVars
  <2> QED
    BY <2>1 DEF Orphaned, Orphan, Active, Up
<1>2. ASSUME NEW d \in Daemons, Crash(d) \/ Stop(d)
      PROVE  Orphaned'
  <2>1. /\ \A c \in Daemons : engine'[c] = IF c = d THEN NoEngine ELSE engine[c]
        /\ fire' = Forgotten(d) /\ dispatched' = dispatched
    BY <1>2 DEF Crash, Stop, TypeOK, rowVars
  <2>2. \A q \in Rows : status'[q] = "none" <=> status[q] = "none"
    BY <1>2 DEF Crash, Stop, TypeOK, rowVars
  <2>3. \A c \in Daemons : SameRounds(c)
    BY <2>1 DEF SameRounds, NoEngine
  <2>4. \A q \in Rows : /\ Ended(q).replaces = fire[q].replaces /\ Ended(q).pc = "idle"
                        /\ NoFire.replaces = NoRow /\ NoFire.pc = "idle"
    BY DEF TypeOK, Ended, NoFire, FireRecords
  <2>5. \A q \in Rows : fire'[q] \in {fire[q], NoFire, Ended(q)}
    BY <2>1 DEF Forgotten
  <2>6. \A q \in Rows : Orphan(q) => fire'[q].pc = "idle"
    BY <2>4, <2>5 DEF Orphan, Active
  <2>7. \A q \in Rows : fire'[q].replaces \in {fire[q].replaces, NoRow}
    BY <2>4, <2>5
  <2>8. dispatched' \subseteq Rows
    BY DEF TypeOK
  <2> QED
    BY <2>1, <2>2, <2>3, <2>6, <2>7, <2>8, OrphansStay
<1> QED
  BY <1>1, <1>2

(* Every step of a lone scheduler keeps orphans what they are.             *)
LEMMA NextOrphans == TypeOK /\ Fresh /\ ClaimsInv /\ OrphanInv /\ [Next]_vars => OrphanInv'
<1> SUFFICES ASSUME TypeOK, Fresh, ClaimsInv, OrphanInv, [Next]_vars, conf'.peers = 1
             PROVE  Orphaned'
  BY DEF OrphanInv
<1>1. TypeOK'
  BY NextType
<1>2. CASE UNCHANGED vars
  BY <1>2 DEF vars, rowVars, OrphanInv, Orphaned, Orphan, Active, Up
<1>3. CASE Next
  <2>1. conf.peers = 1 /\ Orphaned
    BY ConfStays DEF OrphanInv
  <2> QED
    BY <1>1, <1>3, <2>1, RepairOrphans, TickOrphans, FireOrphans, WorldOrphans
       DEF Next, Daemon, Ticks, Looks, Passes, Decides
<1> QED
  BY <1>2, <1>3

(* At the start there is nothing to replace.                               *)
LEMMA InitOrphans == Init => OrphanInv
<1> SUFFICES ASSUME Init
             PROVE  Orphaned
  BY DEF OrphanInv
<1>1. /\ \A d \in Daemons : engine[d].phase = "down"
      /\ \A r \in Rows : fire[r].replaces = NoRow /\ status[r] = "none"
  BY DEF Init, NoEngine, NoFire
<1> QED
  BY <1>1 DEF Orphaned, Up

(* So they are throughout.                                                 *)
LEMMA AlwaysOrphans == Spec => []OrphanInv
<1> QED
  BY InitOrphans, NextOrphans, AlwaysFresh, AlwaysClaims, ScheduleTypeCorrect, PTL DEF Spec

(* _recover_undispatched_fires: with one scheduler on the database, a run  *)
(* whose child is known to have been launched is not fired again by a      *)
(* restart, wherever the process died and whichever write failed.          *)
THEOREM ConfirmedIsNotRefired == Spec => []ConfirmedOnce
<1>1. OrphanInv => ConfirmedOnce
  BY DEF OrphanInv, Orphaned, ConfirmedOnce, Replaced
<1> QED
  BY <1>1, AlwaysOrphans, PTL
-----------------------------------------------------------------------------
(* The budget of max_runs.                                                 *)

(* The fires that hold a unit; they and the runs that are spent count.     *)
Claimed == {r \in Rows : Active(r) /\ fire[r].limited}
Counted == Spent \cup Claimed

\* Whoever has counted the rows knows of at least what counts: nothing is added
\* under its lock.
Seen(d) ==
  engine[d].lock # "free" /\ engine[d].fired # Unread =>
    Cardinality(Counted) <= engine[d].fired + engine[d].claimed

\* An occurrence that will count holds a unit; a run and what replaces it count
\* once.
Ready ==
  /\ \A r \in Rows : fire[r].pc = "begun" /\ fire[r].depth = 0 /\ fire[r].replaces = NoRow
                       => fire[r].limited
  /\ \A d \in Daemons : Seen(d)
  /\ \A r \in Rows : fire[r].replaces # NoRow =>
       /\ fire[r].depth = 0 /\ fire[fire[r].replaces].depth = 0
       /\ status[r] # "none" => status[fire[r].replaces] # "running"
Budgeted == Cardinality(Counted) <= conf.limit /\ Ready
BudgetInv == conf.limit > 0 /\ conf.peers = 1 => Budgeted

(* What keeps Ready true.                                                  *)
LEMMA ReadyStays ==
  ASSUME TypeOK, Orphaned, Ready,
         \A c \in Daemons : Seen(c)',
         \A q \in Rows : fire'[q].pc = "begun" =>
           \/ fire'[q] = fire[q]
           \/ fire'[q].depth # 0 \/ fire'[q].replaces # NoRow \/ fire'[q].limited,
         \A q \in Rows : Orphan(q) => fire'[q].depth = fire[q].depth,
         \A q \in Rows : Orphan(q) /\ status[q] # "running" => status'[q] # "running",
         \A q \in Rows : fire'[q].replaces # NoRow =>
           \/ /\ fire'[q].replaces = fire[q].replaces /\ fire'[q].depth = fire[q].depth
              /\ \/ status'[q] = "none" \/ status[q] # "none"
                 \/ status'[fire[q].replaces] # "running"
           \/ /\ status'[q] = "none" /\ fire'[q].depth = 0
              /\ fire'[q].replaces \in Rows /\ Orphan(fire'[q].replaces)
              /\ fire[fire'[q].replaces].depth = 0
  PROVE  Ready'
<1>1. \A r \in Rows : fire'[r].pc = "begun" /\ fire'[r].depth = 0 /\ fire'[r].replaces = NoRow
                        => fire'[r].limited
  BY DEF Ready
<1>2. ASSUME NEW q \in Rows, fire'[q].replaces # NoRow
      PROVE  /\ fire'[q].depth = 0 /\ fire'[fire'[q].replaces].depth = 0
             /\ status'[q] # "none" => status'[fire'[q].replaces] # "running"
  <2>1. CASE /\ fire'[q].replaces = fire[q].replaces /\ fire'[q].depth = fire[q].depth
             /\ \/ status'[q] = "none" \/ status[q] # "none"
                \/ status'[fire[q].replaces] # "running"
    <3>1. fire[q].replaces \in Rows
      <4>1. fire[q] \in FireRecords
        BY DEF TypeOK
      <4> QED
        BY <1>2, <2>1, <4>1 DEF FireRecords
    <3>2. Orphan(fire[q].replaces)
      BY <1>2, <2>1 DEF Orphaned
    <3>3. /\ fire[q].depth = 0 /\ fire[fire[q].replaces].depth = 0
          /\ status[q] # "none" => status[fire[q].replaces] # "running"
      BY <1>2, <2>1 DEF Ready
    <3> QED
      BY <2>1, <3>1, <3>2, <3>3
  <2>2. CASE /\ status'[q] = "none" /\ fire'[q].depth = 0
             /\ fire'[q].replaces \in Rows /\ Orphan(fire'[q].replaces)
             /\ fire[fire'[q].replaces].depth = 0
    BY <2>2
  <2> QED
    BY <1>2, <2>1, <2>2
<1> QED
  BY <1>1, <1>2 DEF Ready

(* Spent runs stay what they are while no row is added.                    *)
LEMMA SpentStays ==
  ASSUME NoRowsLost,
         \A q \in Rows : status[q] # "none" =>
           fire'[q].depth = fire[q].depth /\ fire'[q].replaces = fire[q].replaces
  PROVE  Spent' = Spent
<1>1. Replaced' = Replaced
  <2>1. {q \in Rows : status'[q] # "none"} = {q \in Rows : status[q] # "none"}
    BY DEF NoRowsLost
  <2> QED
    BY <2>1 DEF Replaced
<1> QED
  BY <1>1 DEF Spent, NoRowsLost

(* Sets of rows are finite; a part has no more elements than the whole, and*)
(* a union no more than its parts.                                         *)
LEMMA RowSets ==
  ASSUME NEW S \in SUBSET Rows, NEW T \in SUBSET Rows
  PROVE  /\ Cardinality(S) \in Nat
         /\ S \subseteq T => Cardinality(S) <= Cardinality(T)
         /\ Cardinality(S \cup T) <= Cardinality(S) + Cardinality(T)
<1>1. IsFiniteSet(S) /\ IsFiniteSet(T) /\ Cardinality(S) \in Nat /\ Cardinality(T) \in Nat
  BY Without
<1>2. S \subseteq T => Cardinality(S) <= Cardinality(T)
  BY <1>1, FS_Subset
<1>3. /\ Cardinality(S \cup T) = Cardinality(S) + Cardinality(T) - Cardinality(S \cap T)
      /\ Cardinality(S \cap T) \in Nat
  <2>1. S \cap T \in SUBSET Rows
    OBVIOUS
  <2> QED
    BY <1>1, <2>1, FS_Union, Without
<1> QED
  BY <1>1, <1>2, <1>3

LEMMA CountedType ==
  /\ Counted \in SUBSET Rows /\ Spent \in SUBSET Rows /\ Claimed \in SUBSET Rows
  /\ Counted' \in SUBSET Rows
  /\ \A q \in Rows : status[q] = "none" => q \notin Spent
  BY DEF Counted, Spent, Claimed

(* What counts does not grow.                                              *)
LEMMA CountShrinks ==
  ASSUME TypeOK, conf' = conf, Cardinality(Counted) <= conf.limit, Counted' \subseteq Counted
  PROVE  /\ Cardinality(Counted') <= Cardinality(Counted)
         /\ Cardinality(Counted') <= conf'.limit
<1>1. conf.limit \in Nat
  BY SchedulerAssumption DEF TypeOK, ConfigurationType
<1>2. Cardinality(Counted') <= Cardinality(Counted)
  BY CountedType, RowSets
<1>3. Cardinality(Counted') \in Nat /\ Cardinality(Counted) \in Nat
  BY CountedType, RowSets
<1> QED
  BY <1>1, <1>2, <1>3

(* A replacement takes the place of what it replaces.                      *)
LEMMA CountSwaps ==
  ASSUME TypeOK, conf' = conf, Cardinality(Counted) <= conf.limit,
         NEW q \in Counted, NEW r, q \notin Counted', Counted' \subseteq Counted \cup {r}
  PROVE  /\ Cardinality(Counted') <= Cardinality(Counted)
         /\ Cardinality(Counted') <= conf'.limit
<1>1. conf.limit \in Nat
  BY SchedulerAssumption DEF TypeOK, ConfigurationType
<1>2. /\ Cardinality(Counted) = Cardinality(Counted \ {q}) + Bit(q \in Counted)
      /\ Cardinality(Counted \ {q}) \in Nat /\ Bit(q \in Counted) = 1
  BY CountedType, Without DEF Bit
<1>3. /\ Cardinality(Counted') = Cardinality(Counted' \ {r}) + Bit(r \in Counted')
      /\ Cardinality(Counted' \ {r}) \in Nat /\ Bit(r \in Counted') \in {0, 1}
  BY CountedType, Without DEF Bit
<1>4. Cardinality(Counted' \ {r}) <= Cardinality(Counted \ {q})
  <2>1. /\ Counted' \ {r} \in SUBSET Rows /\ Counted \ {q} \in SUBSET Rows
        /\ Counted' \ {r} \subseteq Counted \ {q}
    BY CountedType
  <2> QED
    BY <2>1, RowSets
<1>5. Cardinality(Counted) \in Nat
  BY CountedType, RowSets
<1> QED
  BY <1>1, <1>2, <1>3, <1>4, <1>5

\* A step leaves what the holder of the lock has read.
Untouched(c) ==
  engine'[c].lock # "free" =>
    /\ engine'[c].lock = engine[c].lock
    /\ engine'[c].fired = engine[c].fired /\ engine'[c].claimed = engine[c].claimed

(* What is known of what counts stays true as long as no more counts.      *)
LEMMA SeenStays ==
  ASSUME TypeOK, Ready, NEW c \in Daemons, Untouched(c),
         Cardinality(Counted') <= Cardinality(Counted)
  PROVE  Seen(c)'
<1>1. Seen(c)
  BY DEF Ready
<1>2. Cardinality(Counted') \in Nat /\ Cardinality(Counted) \in Nat
  BY CountedType, RowSets
<1>3. engine[c].claimed \in Int /\ engine[c].fired \in Nat \cup {Unread}
  BY DEF TypeOK, EngineRecords
<1>4. engine'[c].lock # "free" /\ engine'[c].fired # Unread =>
        Cardinality(Counted') <= engine'[c].fired + engine'[c].claimed
  BY <1>1, <1>2, <1>3 DEF Seen, Untouched, Unread
<1> QED
  BY <1>4 DEF Seen

(* With one scheduler up, the rows it counts and the claims it has read    *)
(* before are all that counts.                                             *)
LEMMA RowsSeen ==
  ASSUME TypeOK, ClaimsInv, Orphaned, NEW d \in Daemons, CountRows(d)
  PROVE  Seen(d)'
<1>1. /\ engine \in [Daemons -> EngineRecords] /\ engine[d] \in EngineRecords
      /\ engine[d].claims \in Int /\ engine[d].claimed \in Int
  BY DEF TypeOK, EngineRecords
<1> DEFINE R == {r \in Rows : fire[r].depth = 0 /\ status[r] \in Statuses \ {"none"}}
           k == Cardinality(R)
<1>2. R \in SUBSET Rows
  OBVIOUS
<1>3. k = Count(Statuses \ {"none"}, status) /\ Spent \subseteq R
  BY DEF Count, Spent, TypeOK
<1> HIDE DEF R, k
<1>4. k \in Nat /\ Cardinality(Spent) <= k
  BY <1>2, <1>3, CountedType, RowSets DEF k
<1>5. Up(d) /\ engine[d].claims <= engine[d].claimed /\ engine[d].claims >= Cardinality(Limited(d))
  BY DEF CountRows, ClaimsInv, Holds, Noted, Covers
<1>6. Cardinality(Claimed) <= engine[d].claims
  <2>1. Claimed = Limited(d)
    BY <1>5 DEF Claimed, Limited, Tasks, ClaimsInv, Holds, Orphaned
  <2>2. Cardinality(Limited(d)) \in Nat
    BY Without DEF Limited, Tasks
  <2> QED
    BY <1>1, <1>5, <2>1, <2>2
<1>7. Cardinality(Counted) <= Cardinality(Spent) + Cardinality(Claimed)
  BY CountedType, RowSets DEF Counted
<1>8. /\ Cardinality(Counted) \in Nat /\ Cardinality(Spent) \in Nat
      /\ Cardinality(Claimed) \in Nat
  BY CountedType, RowSets
<1>9. Cardinality(Counted) <= k + engine[d].claimed
  BY <1>1, <1>4, <1>5, <1>6, <1>7, <1>8
<1>10. engine'[d].fired = k /\ engine'[d].claimed = engine[d].claimed
  <2>1. engine' = [engine EXCEPT ![d] = [engine[d] EXCEPT !.fired = k]]
    BY <1>1, <1>3 DEF CountRows
  <2> QED
    BY <1>1, <2>1 DEF EngineRecords
<1>11. Counted' = Counted
  BY DEF CountRows, rowVars, Counted, Spent, Replaced, Claimed, Active
<1> QED
  BY <1>9, <1>10, <1>11 DEF Seen

(* The one scheduler that is up admits a fire: the rows it counted and the *)
(* claims it read leave room for one more.                                 *)
LEMMA CountGrows ==
  ASSUME TypeOK, Ready, conf' = conf, conf.limit > 0, NEW d \in Daemons,
         engine[d].lock # "free", engine[d].fired \in Nat, ~Exhausted(d),
         NEW n, Counted' \subseteq Counted \cup {n}
  PROVE  Cardinality(Counted') <= conf'.limit
<1>1. conf.limit \in Nat /\ engine[d].claimed \in Int
  BY SchedulerAssumption DEF TypeOK, ConfigurationType, EngineRecords
<1>2. Cardinality(Counted) <= engine[d].fired + engine[d].claimed
  <2>1. engine[d].fired # Unread
    BY DEF Unread
  <2> QED
    BY <2>1 DEF Ready, Seen
<1>3. engine[d].fired + engine[d].claimed < conf.limit
  BY <1>1 DEF Exhausted
<1>4. Cardinality(Counted') <= Cardinality(Counted) + 1
  <2>1. /\ Cardinality(Counted') = Cardinality(Counted' \ {n}) + Bit(n \in Counted')
        /\ Cardinality(Counted' \ {n}) \in Nat /\ Bit(n \in Counted') \in {0, 1}
    BY CountedType, Without DEF Bit
  <2>2. Counted' \ {n} \in SUBSET Rows /\ Counted' \ {n} \subseteq Counted
    BY CountedType
  <2>3. Cardinality(Counted' \ {n}) <= Cardinality(Counted)
    BY <2>2, CountedType, RowSets
  <2>4. Cardinality(Counted) \in Nat
    BY CountedType, RowSets
  <2> QED
    BY <2>1, <2>3, <2>4
<1>5. Cardinality(Counted) \in Nat /\ Cardinality(Counted') \in Nat
  BY CountedType, RowSets
<1> QED
  BY <1>1, <1>2, <1>3, <1>4, <1>5

(* Repair passes take no unit: a child is not top-level, a replacement has *)
(* what it replaces to stand for.                                          *)
LEMMA RepairBudget ==
  ASSUME TypeOK, Orphaned, Budgeted, conf' = conf, NEW d \in Daemons,
         \/ Start(d) \/ RecoverDone(d) \/ ReconcileDone(d)
         \/ \E r \in Rows : RecoverRow(d, r) \/ ReconcileRow(d, r)
  PROVE  Budgeted'
<1>0. engine \in [Daemons -> EngineRecords] /\ engine[d] \in EngineRecords
  BY DEF TypeOK
<1>1. \A c \in Daemons : Untouched(c)
  <2>1. Untouched(d) /\ \A c \in Daemons : c # d => engine'[c] = engine[c]
    <3>1. CASE Start(d)
      BY <1>0, <3>1 DEF Start, NoEngine, Untouched
    <3>2. CASE RecoverDone(d)
      BY <1>0, <3>2 DEF RecoverDone, EngineRecords, Untouched
    <3>3. CASE ReconcileDone(d)
      BY <1>0, <3>3 DEF ReconcileDone, EngineRecords, Untouched
    <3>4. ASSUME NEW r \in Rows, RecoverRow(d, r) \/ ReconcileRow(d, r)
          PROVE  Untouched(d) /\ \A c \in Daemons : c # d => engine'[c] = engine[c]
      <4>1. engine' = [engine EXCEPT ![d].todo = @ \ {r}]
        BY <3>4 DEF RecoverRow, ReconcileRow
      <4> QED
        BY <1>0, <4>1 DEF EngineRecords, Untouched
    <3> QED
      BY <3>1, <3>2, <3>3, <3>4
  <2> QED
    BY <2>1 DEF Untouched
<1>2. NoRowsLost /\ \A q \in Rows : status[q] # "running" => status'[q] # "running"
  BY DEF Start, RecoverDone, ReconcileDone, RecoverRow, ReconcileRow, rowVars, TypeOK, NoRowsLost
<1>3. CASE UNCHANGED fire
  <2>1. Spent' = Spent /\ Claimed' = Claimed
    BY <1>2, <1>3, SpentStays DEF Claimed, Active
  <2>2. Cardinality(Counted') <= conf'.limit /\ \A c \in Daemons : Seen(c)'
    BY <1>1, <2>1, CountShrinks, SeenStays DEF Counted, Budgeted
  <2>3. \A q \in Rows : \/ status'[q] = "none" \/ status[q] # "none"
    BY <1>2 DEF NoRowsLost
  <2>4. Ready'
    BY <1>2, <1>3, <2>2, <2>3, ReadyStays DEF Budgeted
  <2> QED
    BY <2>2, <2>4 DEF Budgeted
<1>4. CASE ~UNCHANGED fire
  <2>1. PICK r \in Rows : RecoverRow(d, r) \/ ReconcileRow(d, r)
    BY <1>4 DEF Start, RecoverDone, ReconcileDone
  <2> DEFINE New(f) == \/ f.replaces = NoRow /\ f.depth # 0
                       \/ f.replaces = r /\ f.depth = 0 /\ fire[r].depth = 0 /\ Orphan(r)
             Again == [NoFire EXCEPT !.pc = "begun", !.by = d, !.replaces = r,
                                     !.instant = fire[r].instant, !.at = now]
  <2>2. \E n \in NextFree, f \in {Child(d, r), Again} :
          fire' = [fire EXCEPT ![n] = f] /\ New(f) /\ ~f.limited
    <3>1. CASE RecoverRow(d, r)
      <4>1. fire[r].depth = 0 /\ Orphan(r)
        BY <1>4, <3>1 DEF RecoverRow, Orphaned
      <4>2. Again.replaces = r /\ Again.depth = 0 /\ ~Again.limited
        BY DEF NoFire
      <4>3. \E n \in NextFree : fire' = [fire EXCEPT ![n] = Again]
        BY <1>4, <3>1 DEF RecoverRow
      <4> QED
        BY <4>1, <4>2, <4>3
    <3>2. CASE ReconcileRow(d, r)
      <4>1. Child(d, r).replaces = NoRow /\ Child(d, r).depth # 0 /\ ~Child(d, r).limited
        <5>1. fire[r].depth \in Nat
          BY SchedulerAssumption DEF TypeOK, FireRecords
        <5> QED
          BY <5>1 DEF Child, NoFire
      <4>2. \E n \in NextFree : fire' = [fire EXCEPT ![n] = Child(d, r)]
        BY <1>4, <3>2 DEF ReconcileRow
      <4> QED
        BY <4>1, <4>2
    <3> QED
      BY <2>1, <3>1, <3>2
  <2>3. PICK n \in NextFree : \E f : fire' = [fire EXCEPT ![n] = f] /\ New(f) /\ ~f.limited
    BY <2>2
  <2>4. PICK f : fire' = [fire EXCEPT ![n] = f] /\ New(f) /\ ~f.limited
    BY <2>3
  <2>5. n \in Rows /\ status[n] = "none" /\ ~Active(n)
    BY DEF NextFree, Free
  <2>6. fire'[n] = f /\ \A q \in Rows : q # n => fire'[q] = fire[q]
    BY <2>4, <2>5 DEF TypeOK
  <2>7. Spent' = Spent /\ Claimed' \subseteq Claimed
    BY <1>2, <2>4, <2>5, <2>6, SpentStays DEF Claimed, Active
  <2>8. Cardinality(Counted') <= conf'.limit /\ \A c \in Daemons : Seen(c)'
    BY <1>1, <2>7, CountShrinks, SeenStays DEF Counted, Budgeted
  <2>9. Ready'
    <3>1. \A q \in Rows : status'[q] = "none" <=> status[q] = "none"
      BY <1>2 DEF NoRowsLost
    <3>2. \A q \in Rows : Orphan(q) => fire'[q].depth = fire[q].depth
      BY <2>5, <2>6 DEF Orphan
    <3>3. f.depth # 0 \/ f.replaces # NoRow
      BY <2>4 DEF NoRow, Rows
    <3>4. f.replaces # NoRow => f.depth = 0 /\ f.replaces = r /\ Orphan(r) /\ fire[r].depth = 0
      BY <2>4
    <3> HIDE DEF New, Again
    <3>5. \A q \in Rows : fire'[q].pc = "begun" =>
            \/ fire'[q] = fire[q]
            \/ fire'[q].depth # 0 \/ fire'[q].replaces # NoRow \/ fire'[q].limited
      BY <2>6, <3>3
    <3>6. \A q \in Rows : fire'[q].replaces # NoRow =>
           \/ /\ fire'[q].replaces = fire[q].replaces /\ fire'[q].depth = fire[q].depth
              /\ status'[q] = "none" \/ status[q] # "none"
           \/ /\ status'[q] = "none" /\ fire'[q].depth = 0
              /\ fire'[q].replaces \in Rows /\ Orphan(fire'[q].replaces)
              /\ fire[fire'[q].replaces].depth = 0
      BY <2>5, <2>6, <3>1, <3>4
    <3> QED
      BY <1>2, <2>8, <3>2, <3>5, <3>6, ReadyStays DEF Budgeted
  <2> QED
    BY <2>8, <2>9 DEF Budgeted
<1> QED
  BY <1>3, <1>4

(* Admission, missed-fire recovery and manual triggers leave room for what *)
(* is admitted already.                                                    *)
LEMMA TickBudget ==
  ASSUME TypeOK, ClaimsInv, Orphaned, Budgeted, conf' = conf, conf.limit > 0, NEW d \in Daemons,
         Ticks(d)
  PROVE  Budgeted'
<1>0. engine \in [Daemons -> EngineRecords] /\ engine[d] \in EngineRecords
  BY DEF TypeOK
<1>1. NoRowsLost /\ \A q \in Rows : status[q] # "running" => status'[q] # "running"
  <2>1. CASE \E r \in Rows : Reap(d, r)
    BY <2>1 DEF Reap, TypeOK, NoRowsLost
  <2>2. CASE UNCHANGED status
    BY <2>2 DEF NoRowsLost
  <2> QED
    BY <2>1, <2>2, LooksOnly, PassesOnly, DecidesOnly DEF Ticks
<1>2. \A c \in Daemons : c # d => engine'[c] = engine[c]
  <2>1. CASE Passes(d)
    BY <1>0, <2>1, PassesOnly
  <2>2. CASE \E r \in Rows : Reap(d, r)
    BY <2>2 DEF Reap
  <2> QED
    BY <2>1, <2>2, LooksOnly, DecidesOnly DEF Ticks
<1>3. \A c \in Daemons : c # d => engine'[c].lock = "free"
  BY <1>2, TicksUp DEF Orphaned, ClaimsInv, Holds
<1>4. ASSUME UNCHANGED fire, Seen(d)' \/ Untouched(d)
      PROVE  Budgeted'
  <2>1. Spent' = Spent /\ Claimed' = Claimed
    BY <1>1, <1>4, SpentStays DEF Claimed, Active
  <2>2. /\ Cardinality(Counted') <= conf'.limit
        /\ Cardinality(Counted') <= Cardinality(Counted)
    BY <2>1, CountShrinks DEF Counted, Budgeted
  <2>3. \A c \in Daemons : Seen(c)'
    BY <1>3, <1>4, <2>2, SeenStays DEF Seen, Budgeted
  <2>4. \A q \in Rows : \/ status'[q] = "none" \/ status[q] # "none"
    BY <1>1 DEF NoRowsLost
  <2>5. Ready'
    BY <1>1, <1>4, <2>3, <2>4, ReadyStays DEF Budgeted
  <2> QED
    BY <2>2, <2>5 DEF Budgeted
<1>5. CASE Looks(d)
  <2>1. Seen(d)' \/ Untouched(d)
    <3>1. CASE Tick(d)
      BY <1>0, <3>1 DEF Tick, Untouched, EngineRecords
    <3>2. CASE Gate(d) \/ OweMissed(d)
      BY <1>0, <3>2 DEF Gate, OweMissed, Untouched, EngineRecords
    <3>3. CASE Reserve(d) \/ FireNow(d)
      <4>1. PICK who \in {"loop", "manual"} : engine' = Locked(d, who)
        BY <3>3 DEF Reserve, FireNow
      <4>2. engine' = [engine EXCEPT ![d] = [engine[d] EXCEPT !.lock = who,
                                         !.claimed = engine[d].claims, !.fired = Unread]]
        BY <1>0, <4>1 DEF Locked
      <4>3. engine'[d].fired = Unread
        BY <1>0, <4>2 DEF EngineRecords
      <4> QED
        BY <4>3 DEF Seen
    <3>4. CASE CountRows(d)
      BY <3>4, RowsSeen
    <3> QED
      BY <1>5, <3>1, <3>2, <3>3, <3>4 DEF Looks
  <2> QED
    BY <1>4, <1>5, <2>1, LooksOnly
<1>6. CASE Passes(d)
  <2>1. engine' = [engine EXCEPT ![d] = Idle(engine[d])]
    BY <1>6, PassesOnly
  <2>2. Untouched(d)
    BY <1>0, <2>1 DEF Idle, Untouched, EngineRecords
  <2> QED
    BY <1>4, <1>6, <2>2, PassesOnly
<1>7. CASE \E r \in Rows : Reap(d, r)
  BY <1>4, <1>7 DEF Reap, Untouched
<1>8. CASE Decides(d)
  <2>1. engine'[d].lock = "free" /\ engine[d].lock # "free" /\ engine[d].fired \in Nat
    BY <1>8, DecidesOnly DEF Decided
  <2>2. CASE UNCHANGED fire
    BY <1>4, <2>1, <2>2 DEF Untouched
  <2>3. CASE ~Exhausted(d) /\ \E claim, instant : Begin(d, claim, instant)
    <3>1. PICK claim, instant : Begin(d, claim, instant)
      BY <2>3
    <3> DEFINE f == Top(d, claim, instant)
    <3>2. PICK n \in NextFree : fire' = [fire EXCEPT ![n] = f]
      BY <3>1 DEF Begin
    <3>3. f.limited /\ f.replaces = NoRow
      BY DEF Top, NoFire
    <3> HIDE DEF f
    <3>4. n \in Rows /\ status[n] = "none"
      BY DEF NextFree, Free
    <3>5. fire'[n] = f /\ \A q \in Rows : q # n => fire'[q] = fire[q]
      BY <3>2, <3>4 DEF TypeOK
    <3>6. Spent' = Spent /\ Claimed' \subseteq Claimed \cup {n}
      BY <1>1, <3>4, <3>5, SpentStays DEF Claimed, Active
    <3>7. Cardinality(Counted') <= conf'.limit
      BY <2>1, <2>3, <3>6, CountGrows DEF Counted, Budgeted
    <3>8. \A c \in Daemons : Seen(c)'
      BY <1>3, <2>1 DEF Seen
    <3>9. Ready'
      <4>1. \A q \in Rows : \/ status'[q] = "none" \/ status[q] # "none"
        BY <1>1 DEF NoRowsLost
      <4>2. \A q \in Rows : Orphan(q) => fire'[q].depth = fire[q].depth
        BY <3>4, <3>5 DEF Orphan
      <4>3. \A q \in Rows : \/ fire'[q] = fire[q]
                            \/ fire'[q].limited /\ fire'[q].replaces = NoRow
        BY <3>3, <3>5
      <4> QED
        BY <1>1, <3>8, <4>1, <4>2, <4>3, ReadyStays DEF Budgeted
    <3> QED
      BY <3>7, <3>9 DEF Budgeted
  <2> QED
    BY <1>8, <2>2, <2>3, DecidesOnly
<1> QED
  BY <1>5, <1>6, <1>7, <1>8 DEF Ticks

(* A commit turns a unit into a run; an end gives it back; a replacement   *)
(* takes the place of the run it closes.                                   *)
LEMMA FireBudget ==
  ASSUME TypeOK, TypeOK', Fresh, ClaimsInv, Orphaned, Budgeted, conf' = conf,
         NEW r \in Rows, Fires(r) \/ Failures(r) \/ Deadline(r)
  PROVE  Budgeted'
<1>0. /\ Active(r) /\ fire[r] \in FireRecords
      /\ \A q \in Rows : fire[q].depth \in Nat
  BY FireEngine, SchedulerAssumption DEF TypeOK, FireRecords
<1>1. \A c \in Daemons : Untouched(c)
  BY FireEngine DEF Untouched
<1>2. \A q \in Rows : q # r => \/ fire'[q] = fire[q]
                               \/ /\ q \in NextFree /\ status[q] = "none" /\ ~Active(q)
                                  /\ fire'[q].depth # 0 /\ fire'[q].replaces = NoRow
                                  /\ ~fire'[q].limited
  <2>1. /\ Child(fire[r].by, r).depth # 0 /\ Child(fire[r].by, r).replaces = NoRow
        /\ ~Child(fire[r].by, r).limited
    BY <1>0 DEF Child, NoFire
  <2>2. \A q \in NextFree : status[q] = "none" /\ ~Active(q)
    BY DEF NextFree, Free
  <2> QED
    BY <2>1, <2>2, FireRows
<1>3. \A q \in Rows : q # r /\ fire'[q].limited /\ fire'[q].pc # "idle" => q \in Claimed
  BY <1>2 DEF Claimed, Active
<1>4. fire'[r].pc # "begun"
  BY FireRows
<1>5. \A q \in Rows : Orphan(q) => fire'[q].depth = fire[q].depth /\ q # r
  BY <1>0, <1>2 DEF Orphan
<1>6. CASE fire'[r] = NoFire /\ fire[r].pc = "begun" /\ NoRowsLost
  <2>1. status[r] = "none" /\ NoFire.limited = FALSE /\ NoFire.replaces = NoRow
    BY <1>6 DEF Fresh, NoFire
  <2>2. Spent' = Spent
    BY <1>2, <1>6, <2>1, SpentStays
  <2>3. Claimed' \subseteq Claimed
    BY <1>3, <1>6, <2>1 DEF Claimed, Active
  <2>4. Cardinality(Counted') <= conf'.limit /\ \A c \in Daemons : Seen(c)'
    BY <1>1, <2>2, <2>3, CountShrinks, SeenStays DEF Counted, Budgeted
  <2>5. Ready'
    <3>1. \A q \in Rows : /\ status'[q] = "none" \/ status[q] # "none"
                          /\ status[q] # "running" => status'[q] # "running"
      BY <1>6, FireRows DEF NoRowsLost
    <3> QED
      BY <1>2, <1>4, <1>5, <1>6, <2>1, <2>4, <3>1, ReadyStays DEF Budgeted
  <2> QED
    BY <2>4, <2>5 DEF Budgeted
<1>7. ASSUME fire'[r].depth = fire[r].depth, fire'[r].replaces = fire[r].replaces,
             NoRowsLost \/ Written(r), Cardinality(Counted') <= Cardinality(Counted)
      PROVE  Ready'
  <2>1. \A q \in Rows : Orphan(q) /\ status[q] # "running" => status'[q] # "running"
    BY <1>5, <1>7, FireRows DEF Written
  <2>2. \A q \in Rows : q # r => status'[q] = "none" \/ status[q] # "none"
    BY <1>7 DEF NoRowsLost, Written
  <2>3. fire[r].replaces = NoRow \/ status'[r] = "none" \/ status[r] # "none"
        \/ status'[fire[r].replaces] # "running"
    BY <1>7 DEF NoRowsLost, Written
  <2>4. \A c \in Daemons : Seen(c)'
    BY <1>1, <1>7, SeenStays DEF Budgeted
  <2> QED
    BY <1>2, <1>4, <1>5, <1>7, <2>1, <2>2, <2>3, <2>4, ReadyStays DEF Budgeted
<1>8. CASE /\ fire'[r].depth = fire[r].depth /\ fire'[r].replaces = fire[r].replaces
           /\ fire'[r].limited => fire'[r].pc # "idle" /\ fire[r].limited
           /\ NoRowsLost
  <2>1. Spent' = Spent
    BY <1>2, <1>8, SpentStays
  <2>2. Claimed' \subseteq Claimed
    BY <1>0, <1>3, <1>8 DEF Claimed, Active
  <2>3. /\ Cardinality(Counted') <= conf'.limit
        /\ Cardinality(Counted') <= Cardinality(Counted)
    BY <2>1, <2>2, CountShrinks DEF Counted, Budgeted
  <2> QED
    BY <1>7, <1>8, <2>3 DEF Budgeted
<1>9. CASE /\ fire'[r].depth = fire[r].depth /\ fire'[r].replaces = fire[r].replaces
           /\ Written(r) /\ ~fire'[r].limited
  <2>1. Claimed' \subseteq Claimed \ {r}
    BY <1>3, <1>9 DEF Claimed, Active
  <2>2. \A q \in Rows : /\ status[q] # "none" => fire'[q].depth = fire[q].depth
                                                 /\ fire'[q].replaces = fire[q].replaces
                        /\ status'[q] # "none" => status[q] # "none" \/ q = r
                        /\ status[q] # "none" => status'[q] # "none"
    BY <1>2, <1>9 DEF Written, Fresh
  <2>3. Replaced \subseteq Replaced' /\ status'[r] # "none"
    BY <1>9, <2>2 DEF Replaced, Written
  <2>4. Spent' \subseteq Spent \cup {r} /\ (fire[r].depth # 0 => Spent' \subseteq Spent)
    BY <1>9, <2>2, <2>3 DEF Spent
  <2>5. /\ Cardinality(Counted') <= conf'.limit
        /\ Cardinality(Counted') <= Cardinality(Counted)
    <3>1. CASE fire[r].replaces = NoRow
      <4>1. CASE fire[r].depth # 0
        BY <2>1, <2>4, <4>1, CountShrinks DEF Counted, Budgeted
      <4>2. CASE fire[r].depth = 0
        <5>1. r \in Claimed
          BY <1>0, <1>9, <3>1, <4>2 DEF Budgeted, Ready, Written, Claimed
        <5> QED
          BY <2>1, <2>4, <5>1, CountShrinks DEF Counted, Budgeted
      <4> QED
        BY <4>1, <4>2
    <3>2. CASE fire[r].replaces # NoRow
      <4> DEFINE q == fire[r].replaces
      <4>1. q \in Rows /\ Orphan(q) /\ fire[q].depth = 0 /\ status[q] = "running"
        BY <1>0, <1>9, <3>2 DEF FireRecords, Orphaned, Budgeted, Ready, Written, Mine, Undispatched
      <4>2. q \notin Replaced
        BY <3>2, <4>1 DEF Replaced, Budgeted, Ready, NoRow, Rows
      <4>3. q \in Spent
        BY <4>1, <4>2 DEF Spent
      <4>4. q \in Replaced'
        BY <1>9, <2>3 DEF Replaced
      <4>5. q \notin Claimed'
        BY <2>1, <4>1 DEF Claimed, Orphan
      <4>6. q \in Counted /\ q \notin Counted' /\ Counted' \subseteq Counted \cup {r}
        BY <2>1, <2>4, <4>3, <4>4, <4>5 DEF Counted, Spent
      <4> HIDE DEF q
      <4> QED
        BY <4>6, CountSwaps DEF Budgeted
    <3> QED
      BY <3>1, <3>2
  <2> QED
    BY <1>7, <1>9, <2>5 DEF Budgeted
<1> QED
  BY <1>6, <1>8, <1>9, FireRows

(* The claims of a process that is gone are gone.                          *)
LEMMA WorldBudget ==
  ASSUME TypeOK, Fresh, Orphaned, Budgeted, conf' = conf,
         \/ Advance \/ \E r \in Rows : ChildEnds(r)
         \/ \E d \in Daemons : Crash(d) \/ Stop(d)
  PROVE  Budgeted'
<1>1. CASE Advance \/ \E r \in Rows : ChildEnds(r)
  <2>1. UNCHANGED <<status, fire, engine>>
    BY <1>1 DEF Advance, ChildEnds, rowVars
  <2> QED
    BY <2>1 DEF Budgeted, Ready, Seen, Counted, Spent, Replaced, Claimed, Active
<1>2. ASSUME NEW d \in Daemons, Crash(d) \/ Stop(d)
      PROVE  Budgeted'
  <2>1. /\ \A c \in Daemons : engine'[c] = IF c = d THEN NoEngine ELSE engine[c]
        /\ fire' = Forgotten(d)
    BY <1>2 DEF Crash, Stop, TypeOK
  <2>2. NoRowsLost /\ \A q \in Rows : status[q] # "running" => status'[q] # "running"
    BY <1>2 DEF Crash, Stop, TypeOK, rowVars, NoRowsLost
  <2>3. \A c \in Daemons : Untouched(c)
    BY <2>1 DEF Untouched, NoEngine
  <2>4. \A q \in Rows : /\ Ended(q).replaces = fire[q].replaces /\ Ended(q).depth = fire[q].depth
                        /\ Ended(q).pc = "idle" /\ NoFire.replaces = NoRow /\ NoFire.pc = "idle"
    BY DEF TypeOK, Ended, NoFire, FireRecords
  <2>5. \A q \in Rows : \/ fire'[q] = fire[q]
                        \/ fire'[q] = Ended(q) /\ Active(q)
                        \/ fire'[q] = NoFire /\ fire[q].pc = "begun"
    BY <2>1 DEF Forgotten, Tasks
  <2>6. \A q \in Rows : status[q] # "none" =>
           fire'[q].depth = fire[q].depth /\ fire'[q].replaces = fire[q].replaces
    BY <2>4, <2>5 DEF Fresh
  <2>7. Spent' = Spent
    BY <2>2, <2>6, SpentStays
  <2>8. Claimed' \subseteq Claimed
    BY <2>4, <2>5 DEF Claimed, Active
  <2>9. Cardinality(Counted') <= conf'.limit /\ \A c \in Daemons : Seen(c)'
    BY <2>3, <2>7, <2>8, CountShrinks, SeenStays DEF Counted, Budgeted
  <2>10. Ready'
    <3>1. \A q \in Rows : status'[q] = "none" \/ status[q] # "none"
      BY <2>2 DEF NoRowsLost
    <3>2. \A q \in Rows : fire'[q].pc = "begun" => fire'[q] = fire[q]
      BY <2>4, <2>5
    <3>3. \A q \in Rows : Orphan(q) => fire'[q].depth = fire[q].depth
      BY <2>6 DEF Orphan
    <3>4. \A q \in Rows : fire'[q].replaces # NoRow =>
            fire'[q].replaces = fire[q].replaces /\ fire'[q].depth = fire[q].depth
      BY <2>4, <2>5
    <3> QED
      BY <2>2, <2>9, <3>1, <3>2, <3>3, <3>4, ReadyStays DEF Budgeted
  <2> QED
    BY <2>9, <2>10 DEF Budgeted
<1> QED
  BY <1>1, <1>2

(* Every step of a lone scheduler keeps the budget.                        *)
LEMMA NextBudget ==
  TypeOK /\ Fresh /\ ClaimsInv /\ OrphanInv /\ BudgetInv /\ [Next]_vars => BudgetInv'
<1> SUFFICES ASSUME TypeOK, Fresh, ClaimsInv, OrphanInv, BudgetInv, [Next]_vars,
                    conf'.limit > 0, conf'.peers = 1
             PROVE  Budgeted'
  BY DEF BudgetInv
<1>1. conf' = conf
  BY ConfStays
<1>2. conf.limit > 0 /\ Orphaned /\ Budgeted
  BY <1>1 DEF OrphanInv, BudgetInv
<1>3. CASE UNCHANGED vars
  BY <1>2, <1>3 DEF vars, rowVars, Budgeted, Ready, Seen, Counted, Spent, Replaced, Claimed, Active
<1>4. CASE Next
  BY <1>1, <1>2, <1>4, NextType, RepairBudget, TickBudget, FireBudget, WorldBudget
     DEF Next, Daemon, Ticks, Looks, Passes, Decides
<1> QED
  BY <1>3, <1>4

(* At the start nothing counts.                                            *)
LEMMA InitBudget == Init => BudgetInv
<1> SUFFICES ASSUME Init, conf.limit > 0
             PROVE  Budgeted
  BY DEF BudgetInv
<1>1. /\ \A d \in Daemons : engine[d].lock = "free"
      /\ \A r \in Rows : fire[r].replaces = NoRow /\ status[r] = "none" /\ fire[r].pc = "idle"
  BY DEF Init, NoEngine, NoFire
<1>2. Ready
  BY <1>1 DEF Ready, Seen
<1>3. Counted = {}
  BY <1>1 DEF Counted, Spent, Claimed, Active
<1>4. Cardinality({}) = 0 /\ conf.limit \in Nat
  BY FS_EmptySet, SchedulerAssumption DEF Init, ConfigurationType
<1> QED
  BY <1>2, <1>3, <1>4 DEF Budgeted

(* So it holds throughout.                                                 *)
LEMMA AlwaysBudget == Spec => []BudgetInv
<1> QED
  BY InitBudget, NextBudget, AlwaysFresh, AlwaysClaims, AlwaysOrphans, ScheduleTypeCorrect, PTL
     DEF Spec

(* _reserve_max_runs_budget: ticks, manual triggers, missed-fire recovery  *)
(* and orphan recovery together never start more runs than max_runs, with  *)
(* one scheduler on the database: no fire slips in between the count of    *)
(* the rows and the row of a fire that was admitted earlier.               *)
THEOREM BudgetIsKept == Spec => []BudgetHolds
<1>1. TypeOK /\ BudgetInv => BudgetHolds
  <2> SUFFICES ASSUME TypeOK, BudgetInv, conf.limit > 0, conf.peers = 1
               PROVE  Cardinality(Spent) <= conf.limit
    BY DEF BudgetHolds
  <2>1. Cardinality(Counted) <= conf.limit /\ conf.limit \in Nat
    BY SchedulerAssumption DEF BudgetInv, Budgeted, TypeOK, ConfigurationType
  <2>2. Cardinality(Spent) <= Cardinality(Counted)
    BY CountedType, RowSets DEF Counted
  <2>3. Cardinality(Spent) \in Nat /\ Cardinality(Counted) \in Nat
    BY CountedType, RowSets
  <2> QED
    BY <2>1, <2>2, <2>3
<1> QED
  BY <1>1, AlwaysBudget, ScheduleTypeCorrect, PTL
=============================================================================
