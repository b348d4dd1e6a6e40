--------------------------- MODULE TaskWorkerProofs ---------------------------
(***************************************************************************)
(* Proofs about TaskWorker, for every number of tasks and workers, every   *)
(* kind of application and every lease, limit and clock.                   *)
(***************************************************************************)
EXTENDS TaskWorker, TLAPS

(* The queue starts empty and every worker idle (submit_task, worker_tick).*)
LEMMA InitType == Init => TypeOK
<1> SUFFICES ASSUME Init
             PROVE  TypeOK
  OBVIOUS
<1>1. (CHOOSE a \in Applications : TRUE) \in Applications
  BY ParameterAssumption
<1> QED
  BY <1>1, ParameterAssumption
     DEF Init, TypeOK, Statuses, PCs, Examining, Jobs

(* Submission and cancellation touch rows no worker has leased.            *)
LEMMA SubmitType ==
  ASSUME TypeOK, NEW r \in Tasks,
         (\E a \in Applications : Check(r, a)) \/ Insert(r) \/ Cancel(r)
  PROVE  TypeOK'
<1>1. ASSUME NEW a \in Applications, Check(r, a)
      PROVE  TypeOK'
  BY <1>1 DEF Check, TypeOK, workerVars, Statuses, Examining
<1>2. CASE Insert(r)
  BY <1>2 DEF Insert, TypeOK, workerVars, Statuses, Examining
<1>3. CASE Cancel(r)
  BY <1>3 DEF Cancel, TypeOK, workerVars, Statuses, Terminal, Examining
<1> QED
  BY <1>1, <1>2, <1>3

(* Moving on to the next candidate, or to the end of the tick.             *)
LEMMA GoesType ==
  ASSUME TypeOK, NEW w \in Workers, NEW rest,
         NEW keys \in SUBSET {a.key : a \in Applications}, Goes(w, rest, keys)
  PROVE  /\ pc' \in [Workers -> PCs]
         /\ tick' \in [Workers -> Nat]
         /\ \A v \in Workers : tick'[v] <= clock
         /\ held' \in [Workers -> SUBSET {a.key : a \in Applications}]
         /\ job' \in [Workers -> Jobs \cup {NoJob}]
         /\ \A v \in Workers : Examining(v)' => job'[v] \in Jobs
  BY DEF Goes, TypeOK, PCs, Examining

(* The reaper.                                                             *)
LEMMA ReapType ==
  ASSUME TypeOK, NEW w \in Workers, Begin(w) \/ \E x \in lapsed[w] : Reap(w, x)
  PROVE  TypeOK'
<1> USE ParameterAssumption
<1>1. CASE Begin(w)
  <2>1. {[task |-> r, tries |-> tries[r], expiry |-> expiry[r]] : r \in Lapsed}
          \in SUBSET [task : Tasks, tries : Nat, expiry : Nat]
    BY DEF TypeOK, Lapsed
  <2> QED
    BY <1>1, <2>1 DEF Begin, TypeOK, taskVars, PCs, Examining
<1>2. ASSUME NEW x \in lapsed[w], Reap(w, x)
      PROVE  TypeOK'
  <2>1. x.task \in Tasks
    BY DEF TypeOK
  <2>2. StillLapsed(x) => status[x.task] = "running"
    BY DEF StillLapsed
  <2> QED
    BY <1>2, <2>1, <2>2 DEF Reap, Release, TypeOK, Statuses, Terminal, Examining
<1> QED
  BY <1>1, <1>2

(* Reading the queue and admission.                                        *)
LEMMA AdmitType ==
  ASSUME TypeOK, NEW w \in Workers, BeginClaims(w) \/ \E x \in queue[w] : Admit(w, x)
  PROVE  TypeOK'
<1>1. CASE BeginClaims(w)
  <2>1. {[task |-> r, tries |-> tries[r]] : r \in FirstCandidates(w)}
          \in SUBSET [task : Tasks, tries : Nat]
    <3>1. FirstCandidates(w) \subseteq Tasks
      BY DEF FirstCandidates, Candidates
    <3>2. \A r \in Tasks : tries[r] \in Nat
      BY DEF TypeOK
    <3> QED
      BY <3>1, <3>2
  <2>2. RunningKeys \in SUBSET {a.key : a \in Applications}
    BY DEF TypeOK, RunningKeys
  <2>3. Goes(w, FirstCandidates(w), RunningKeys)
    BY <1>1 DEF BeginClaims
  <2> HIDE DEF Goes
  <2> QED
    BY <1>1, <2>1, <2>2, <2>3, GoesType DEF BeginClaims, TypeOK, taskVars
<1>2. ASSUME NEW x \in queue[w], Admit(w, x)
      PROVE  TypeOK'
  <2>1. x.task \in Tasks /\ x.tries \in Nat
    BY DEF TypeOK
  <2>2. queue' \in [Workers -> SUBSET [task : Tasks, tries : Nat]]
    BY <1>2 DEF Admit, TypeOK
  <2>3. CASE Goes(w, queue[w] \ {x}, held[w])
    <3>1. held[w] \in SUBSET {a.key : a \in Applications}
      BY DEF TypeOK
    <3> QED
      BY <1>2, <2>2, <2>3, <3>1, GoesType DEF Admit, TypeOK, taskVars
  <2>4. CASE /\ pc' = [pc EXCEPT ![w] = IF Refused(w, x.task) THEN "refusing" ELSE "admitted"]
             /\ job' = [job EXCEPT ![w] = [NoJob EXCEPT !.task = x.task, !.tries = x.tries]]
             /\ UNCHANGED <<tick, held>>
    <3>1. [NoJob EXCEPT !.task = x.task, !.tries = x.tries] \in Jobs
      BY <2>1 DEF NoJob, Jobs, Outcomes
    <3>2. job' \in [Workers -> Jobs \cup {NoJob}] /\ job'[w] \in Jobs
      BY <2>4, <3>1 DEF TypeOK
    <3>3. \A v \in Workers : Examining(v)' => job'[v] \in Jobs
      BY <2>4, <3>2 DEF TypeOK, Examining
    <3> QED
      BY <1>2, <2>2, <2>4, <3>2, <3>3 DEF Admit, TypeOK, taskVars, PCs
  <2> QED
    BY <1>2, <2>3, <2>4 DEF Admit
<1> QED
  BY <1>1, <1>2

(* A refusal, its notice, a task left for want of a slot (_reject_claim).  *)
LEMMA RefuseType ==
  ASSUME TypeOK, NEW w \in Workers, Reject(w) \/ Notify(w) \/ NoSlot(w)
  PROVE  TypeOK'
<1>0. held[w] \in SUBSET {a.key : a \in Applications}
  BY DEF TypeOK
<1>1. NextCandidate(w) => Goes(w, queue[w], held[w])
  BY DEF NextCandidate
<1>2. CASE Reject(w)
  <2>1. job[w].task \in Tasks
    BY <1>2 DEF Reject, TypeOK, Examining, Jobs
  <2>2. /\ pc' \in [Workers -> PCs]
        /\ tick' \in [Workers -> Nat]
        /\ \A v \in Workers : tick'[v] <= clock
        /\ held' \in [Workers -> SUBSET {a.key : a \in Applications}]
        /\ job' \in [Workers -> Jobs \cup {NoJob}]
        /\ \A v \in Workers : Examining(v)' => job'[v] \in Jobs
    <3>1. CASE NextCandidate(w)
      BY <3>1, <1>0, <1>1, GoesType
    <3>2. CASE pc' = [pc EXCEPT ![w] = "notifying"] /\ UNCHANGED <<tick, held, job>>
      BY <1>2, <3>2 DEF Reject, TypeOK, PCs, Examining
    <3> QED
      BY <1>2, <3>1, <3>2 DEF Reject
  <2>3. status' \in [Tasks -> Statuses]
    BY <1>2, <2>1 DEF Reject, TypeOK, Statuses, Terminal
  <2>4. \A r \in Tasks : status'[r] = status[r] \/ status'[r] = "skipped"
    BY <1>2, <2>1 DEF Reject, TypeOK
  <2> QED
    BY <1>2, <2>2, <2>3, <2>4 DEF Reject, TypeOK
<1>3. CASE Notify(w)
  <2>1. job[w].task \in Tasks
    BY <1>3 DEF Notify, TypeOK, Examining, Jobs
  <2> QED
    BY <1>3, <2>1, <1>0, <1>1, GoesType DEF Notify, TypeOK, taskVars
<1>4. CASE NoSlot(w)
  BY <1>4, <1>0, <1>1, GoesType DEF NoSlot, TypeOK, taskVars
<1> QED
  BY <1>2, <1>3, <1>4

(* A claim, the execution and its guarded settle (_execute_claimed).       *)
LEMMA ClaimType ==
  ASSUME TypeOK, NEW w \in Workers, Claim(w)
  PROVE  TypeOK'
<1> USE ParameterAssumption
<1> DEFINE r == job[w].task
<1>0. /\ r \in Tasks /\ job[w].tries \in Nat /\ job[w] \in Jobs
      /\ held[w] \in SUBSET {a.key : a \in Applications}
  BY DEF Claim, TypeOK, Examining, Jobs
<1>1. CASE ~ClaimWins(w)
  <2>1. Goes(w, queue[w], held[w])
    BY <1>1 DEF Claim, NextCandidate
  <2> QED
    BY <1>0, <1>1, <2>1, GoesType DEF Claim, TypeOK
<1>2. CASE ClaimWins(w)
  <2>1. /\ status' = [status EXCEPT ![r] = "running"]
        /\ holder' = [holder EXCEPT ![r] = w]
        /\ expiry' = [expiry EXCEPT ![r] = LeaseEnd(w)]
        /\ tries' = [tries EXCEPT ![r] = job[w].tries + 1]
        /\ claims' = [claims EXCEPT ![r] = @ + 1]
        /\ held' = [held EXCEPT ![w] = @ \cup ({app[r].key} \ {NoKey})]
        /\ job' = [job EXCEPT ![w].claim = claims[r] + 1]
        /\ pc' = [pc EXCEPT ![w] = "executing"]
        /\ UNCHANGED <<tick, app, lapsed, queue, clock, crashes, notices>>
    BY <1>2 DEF Claim
  <2>2. LeaseEnd(w) \in Nat /\ claims[r] + 1 \in Nat
    <3>1. LeaseTTL \in Nat /\ tick[w] \in Nat /\ claims[r] \in Nat
      BY <1>0 DEF TypeOK
    <3> QED
      BY <3>1 DEF LeaseEnd
  <2>3. job' \in [Workers -> Jobs \cup {NoJob}] /\ job'[w] \in Jobs
    BY <1>0, <2>1, <2>2 DEF TypeOK, Jobs
  <2>4. \A v \in Workers : Examining(v)' => job'[v] \in Jobs
    BY <2>1, <2>3 DEF TypeOK, Examining
  <2>5. held' \in [Workers -> SUBSET {a.key : a \in Applications}]
    <3>1. app[r].key \in {a.key : a \in Applications}
      BY <1>0 DEF TypeOK
    <3> QED
      BY <1>0, <2>1, <3>1 DEF TypeOK
  <2> HIDE DEF r
  <2>6. /\ status' \in [Tasks -> Statuses]
        /\ holder' \in [Tasks -> Workers \cup {NoWorker}]
        /\ expiry' \in [Tasks -> Nat \cup {NoLease}]
        /\ tries' \in [Tasks -> Nat] /\ claims' \in [Tasks -> Nat]
        /\ pc' \in [Workers -> PCs]
    BY <1>0, <2>1, <2>2 DEF TypeOK, Statuses, PCs
  <2> QED
    BY <1>0, <2>1, <2>2, <2>3, <2>4, <2>5, <2>6 DEF TypeOK
<1> QED
  BY <1>1, <1>2

(* The end of an execution and its guarded terminal write.                 *)
LEMMA SettleType ==
  ASSUME TypeOK, NEW w \in Workers, (\E out \in Outcomes : Exit(w, out)) \/ Settle(w)
  PROVE  TypeOK'
<1>1. ASSUME NEW out \in Outcomes, Exit(w, out)
      PROVE  TypeOK'
  <2>1. job[w] \in Jobs
    BY <1>1 DEF Exit, TypeOK, Examining
  <2>2. job' \in [Workers -> Jobs \cup {NoJob}] /\ job'[w] \in Jobs
    BY <1>1, <2>1 DEF Exit, TypeOK, Jobs
  <2>3. \A v \in Workers : Examining(v)' => job'[v] \in Jobs
    BY <1>1, <2>2 DEF Exit, TypeOK, Examining
  <2> QED
    BY <1>1, <2>2, <2>3 DEF Exit, TypeOK, taskVars, PCs
<1>2. CASE Settle(w)
  <2>1. job[w].task \in Tasks /\ job[w].out \in Outcomes
    BY <1>2 DEF Settle, TypeOK, Examining, Jobs
  <2>2. held[w] \in SUBSET {a.key : a \in Applications}
    BY DEF TypeOK
  <2>3. Goes(w, queue[w], held[w])
    BY <1>2 DEF Settle, NextCandidate
  <2>4. status' \in [Tasks -> Statuses]
    BY <1>2, <2>1 DEF Settle, TypeOK, Statuses, Terminal, Outcomes
  <2>5. \A r \in Tasks : status'[r] = status[r] \/ status'[r] \in Outcomes
    BY <1>2, <2>1 DEF Settle, TypeOK
  <2> QED
    BY <1>2, <2>2, <2>3, <2>4, <2>5, GoesType DEF Settle, TypeOK, Outcomes
<1> QED
  BY <1>1, <1>2

(* A pass that is cut short leaves the rows as they are; the clock only    *)
(* goes on.                                                                *)
LEMMA OutsideType ==
  ASSUME TypeOK, (\E w \in Workers : Crash(w)) \/ Tick
  PROVE  TypeOK'
<1> USE ParameterAssumption
<1>1. ASSUME NEW w \in Workers, Crash(w)
      PROVE  TypeOK'
  <2>1. Goes(w, {}, {})
    BY <1>1 DEF Crash
  <2> QED
    BY <1>1, <2>1, GoesType DEF Crash, TypeOK, taskVars
<1>2. CASE Tick
  BY <1>2 DEF Tick, TypeOK, taskVars, Examining
<1> QED
  BY <1>1, <1>2

(* Whatever happens to the queue, the types stay (worker_tick).            *)
LEMMA NextType == TypeOK /\ [Next]_vars => TypeOK'
<1> SUFFICES ASSUME TypeOK, [Next]_vars
             PROVE  TypeOK'
  OBVIOUS
<1>1. CASE UNCHANGED vars
  BY <1>1 DEF vars, taskVars, workerVars, TypeOK, Examining
<1>2. ASSUME NEW w \in Workers, Work(w)
      PROVE  TypeOK'
  BY <1>2, ReapType, AdmitType, RefuseType, ClaimType, SettleType DEF Work
<1> QED
  BY <1>1, <1>2, SubmitType, ReapType, OutsideType DEF Next

(* Every reachable state of the queue and of its workers has the types     *)
(* TypeOK states, among them: a running row has a holder and a lease, a    *)
(* waiting one has neither (claim_and_execute, reap_expired_leases).       *)
THEOREM QueueTypeCorrect == Spec => []TypeOK
  BY InitType, NextType, PTL DEF Spec

-----------------------------------------------------------------------------
\* What one step can do to a row: nothing, or the moves of its submitter and
\* of refusals, a claim, a reap, or the settle of the worker that owns it.
Rests(r) ==
  /\ status'[r] = status[r] /\ claims'[r] = claims[r]
  /\ holder'[r] = holder[r] /\ expiry'[r] = expiry[r]
WaitsOrLeaves(r) ==
  /\ status[r] \in {"absent", "checked", "queued"}
  /\ status'[r] \in {"checked", "queued", "skipped", "cancelled"}
  /\ claims'[r] = claims[r]
ClaimedBy(r, v) ==
  /\ Claim(v) /\ job[v].task = r
  /\ status[r] = "queued" /\ status'[r] = "running"
  /\ holder'[r] = v /\ expiry'[r] = LeaseEnd(v)
  /\ claims'[r] = claims[r] + 1
ReapedBy(r, v) ==
  /\ \E x \in lapsed[v] : Reap(v, x) /\ x.task = r /\ expiry[r] = x.expiry
  /\ status[r] = "running" /\ status'[r] \in {"queued", "failed"}
  /\ claims'[r] = claims[r]
SettledBy(r, v) ==
  /\ Settle(v) /\ job[v].task = r /\ OwnsLease(v)
  /\ status[r] = "running" /\ status'[r] \in Outcomes
  /\ claims'[r] = claims[r]

RowMoves(r) ==
  \/ Rests(r) \/ WaitsOrLeaves(r)
  \/ \E v \in Workers : ClaimedBy(r, v) \/ ReapedBy(r, v) \/ SettledBy(r, v)

(* Every row moves in one of these ways, whoever acts.                     *)
LEMMA RowSteps ==
  ASSUME TypeOK, [Next]_vars, NEW r \in Tasks
  PROVE  RowMoves(r)
<1>1. CASE UNCHANGED vars
  BY <1>1 DEF vars, taskVars, RowMoves, Rests
<1>2. ASSUME NEW q \in Tasks, (\E a \in Applications : Check(q, a)) \/ Insert(q) \/ Cancel(q)
      PROVE  RowMoves(r)
  BY <1>2 DEF Check, Insert, Cancel, TypeOK, RowMoves, Rests, WaitsOrLeaves
<1>3. ASSUME NEW w \in Workers, Begin(w) \/ Crash(w) \/ BeginClaims(w) \/ Notify(w)
                                \/ NoSlot(w) \/ (\E x \in queue[w] : Admit(w, x))
                                \/ (\E out \in Outcomes : Exit(w, out))
      PROVE  RowMoves(r)
  BY <1>3 DEF Begin, Crash, BeginClaims, Notify, NoSlot, Admit, Exit, taskVars, RowMoves, Rests
<1>4. ASSUME NEW w \in Workers, NEW x \in lapsed[w], Reap(w, x)
      PROVE  RowMoves(r)
  <2>1. CASE StillLapsed(x) /\ x.task = r
    BY <1>4, <2>1 DEF Reap, StillLapsed, TypeOK, RowMoves, ReapedBy
  <2>2. CASE ~(StillLapsed(x) /\ x.task = r)
    BY <1>4, <2>2 DEF Reap, Release, TypeOK, RowMoves, Rests
  <2> QED
    BY <2>1, <2>2
<1>5. ASSUME NEW w \in Workers, Reject(w)
      PROVE  RowMoves(r)
  BY <1>5 DEF Reject, TypeOK, RowMoves, Rests, WaitsOrLeaves
<1>6. ASSUME NEW w \in Workers, Claim(w)
      PROVE  RowMoves(r)
  <2>1. CASE ClaimWins(w) /\ job[w].task = r
    BY <1>6, <2>1 DEF Claim, ClaimWins, TypeOK, RowMoves, ClaimedBy
  <2>2. CASE ~(ClaimWins(w) /\ job[w].task = r)
    BY <1>6, <2>2 DEF Claim, TypeOK, RowMoves, Rests
  <2> QED
    BY <2>1, <2>2
<1>7. ASSUME NEW w \in Workers, Settle(w)
      PROVE  RowMoves(r)
  <2>0. job[w].out \in Outcomes
    BY <1>7 DEF Settle, TypeOK, Examining, Jobs
  <2>1. CASE OwnsLease(w) /\ job[w].task = r
    BY <1>7, <2>0, <2>1 DEF Settle, OwnsLease, TypeOK, RowMoves, SettledBy
  <2>2. CASE ~(OwnsLease(w) /\ job[w].task = r)
    BY <1>7, <2>2 DEF Settle, TypeOK, RowMoves, Rests
  <2> QED
    BY <2>1, <2>2
<1>8. CASE Tick
  BY <1>8 DEF Tick, taskVars, RowMoves, Rests
<1> QED
  BY <1>1, <1>2, <1>3, <1>4, <1>5, <1>6, <1>7, <1>8 DEF Next, Work

(* What has ended stays ended: no late claim, reap, refusal or settle      *)
(* revives a task or changes its outcome (transition guards of worker.py). *)
THEOREM OutcomeStaysFinal == Spec => OutcomeIsFinal
<1>1. TypeOK /\ [Next]_vars =>
        [\A r \in Tasks : status[r] \in Terminal => status'[r] = status[r]]_vars
  BY RowSteps DEF RowMoves, Rests, WaitsOrLeaves, ClaimedBy, ReapedBy, SettledBy, Terminal
<1> QED
  BY <1>1, QueueTypeCorrect, PTL DEF Spec, OutcomeIsFinal

-----------------------------------------------------------------------------
\* The worker executes the same claim of the same tick before and after.
SameExecution(w) ==
  /\ Executing(w)
  /\ job'[w].task = job[w].task /\ job'[w].claim = job[w].claim
  /\ tick'[w] = tick[w]

(* A worker that moves on to its next candidate executes nothing.          *)
LEMMA GoesEnds ==
  ASSUME TypeOK, NEW w \in Workers, NEW rest, NEW keys, Goes(w, rest, keys)
  PROVE  /\ ~Executing(w)'
         /\ \A v \in Workers \ {w} : UNCHANGED <<pc[v], tick[v], job[v]>>
  BY DEF Goes, TypeOK, Executing

(* Who executes after a step that was not its claim executed before it     *)
(* (claim_and_execute, _execute_claimed).                                  *)
LEMMA ExecutionSteps ==
  ASSUME TypeOK, [Next]_vars, NEW w \in Workers, Executing(w)', ~Claim(w)
  PROVE  SameExecution(w)
<1>1. CASE UNCHANGED <<pc, job, tick>>
  BY <1>1 DEF Executing, SameExecution
<1>2. CASE UNCHANGED <<pc[w], tick[w], job[w]>>
  BY <1>2 DEF Executing, SameExecution
<1>3. ASSUME NEW v \in Workers, Begin(v)
      PROVE  SameExecution(w)
  BY <1>3 DEF Begin, TypeOK, Executing, SameExecution
<1>4. ASSUME NEW v \in Workers, NEW rest, NEW keys, Goes(v, rest, keys)
      PROVE  SameExecution(w)
  BY <1>4, <1>2, GoesEnds
<1>5. ASSUME NEW v \in Workers, NEW x \in queue[v], Admit(v, x)
      PROVE  SameExecution(w)
  <2>1. CASE Goes(v, queue[v] \ {x}, held[v])
    BY <2>1, <1>4
  <2>2. CASE ~Goes(v, queue[v] \ {x}, held[v])
    BY <1>5, <2>2 DEF Admit, TypeOK, Executing, SameExecution
  <2> QED
    BY <2>1, <2>2
<1>6. ASSUME NEW v \in Workers, Reject(v)
      PROVE  SameExecution(w)
  <2>1. CASE NextCandidate(v)
    BY <2>1, <1>4 DEF NextCandidate
  <2>2. CASE ~NextCandidate(v)
    BY <1>6, <2>2 DEF Reject, TypeOK, Executing, SameExecution
  <2> QED
    BY <2>1, <2>2
<1>7. ASSUME NEW v \in Workers, Claim(v)
      PROVE  SameExecution(w)
  <2>1. CASE NextCandidate(v)
    BY <2>1, <1>4 DEF NextCandidate
  <2>2. CASE ~NextCandidate(v)
    BY <1>7, <2>2 DEF Claim, TypeOK, Executing, SameExecution
  <2> QED
    BY <2>1, <2>2
<1>8. ASSUME NEW v \in Workers, NEW out \in Outcomes, Exit(v, out)
      PROVE  SameExecution(w)
  <2>1. job[v] \in Jobs
    BY <1>8 DEF Exit, TypeOK, Examining
  <2>2. job'[w].task = job[w].task /\ job'[w].claim = job[w].claim
    BY <1>8, <2>1 DEF Exit, TypeOK, Jobs
  <2> QED
    BY <1>8, <2>2 DEF Exit, TypeOK, Executing, SameExecution
<1>9. ASSUME NEW v \in Workers, BeginClaims(v) \/ Notify(v) \/ NoSlot(v) \/ Settle(v) \/ Crash(v)
      PROVE  SameExecution(w)
  BY <1>9, <1>4 DEF BeginClaims, Notify, NoSlot, Settle, Crash, NextCandidate
<1>10. ASSUME \/ \E r \in Tasks : \/ \E a \in Applications : Check(r, a)
                                  \/ Insert(r) \/ Cancel(r)
              \/ \E v \in Workers : \E x \in lapsed[v] : Reap(v, x)
              \/ Tick \/ UNCHANGED vars
       PROVE  SameExecution(w)
  BY <1>10, <1>1 DEF Check, Insert, Cancel, Reap, Tick, vars, workerVars
<1> QED
  BY <1>3, <1>5, <1>6, <1>7, <1>8, <1>9, <1>10 DEF Next, Work

(* The clock never goes back, and a reaper only adds leases that lapsed    *)
(* (_REAP_SELECT_SQL).                                                     *)
LEMMA ReaperSteps ==
  ASSUME TypeOK, [Next]_vars, NEW w \in Workers, NEW x \in lapsed'[w]
  PROVE  clock <= clock' /\ (x \in lapsed[w] \/ x.expiry < clock)
<1>1. clock \in Nat
  BY DEF TypeOK
<1>2. CASE UNCHANGED <<lapsed, clock>>
  BY <1>1, <1>2
<1>3. ASSUME NEW v \in Workers, Begin(v)
      PROVE  clock <= clock' /\ (x \in lapsed[w] \/ x.expiry < clock)
  <2>1. CASE w = v
    <3>1. PICK r \in Lapsed : x = [task |-> r, tries |-> tries[r], expiry |-> expiry[r]]
      BY <1>3, <2>1 DEF Begin, TypeOK
    <3> QED
      BY <1>1, <1>3, <3>1 DEF Begin, Lapsed
  <2>2. CASE w # v
    BY <1>1, <1>3, <2>2 DEF Begin, TypeOK
  <2> QED
    BY <2>1, <2>2
<1>4. ASSUME NEW v \in Workers, (\E y \in lapsed[v] : Reap(v, y)) \/ Crash(v)
      PROVE  clock <= clock' /\ (x \in lapsed[w] \/ x.expiry < clock)
  BY <1>1, <1>4 DEF Reap, Crash, TypeOK
<1>5. CASE Tick
  BY <1>1, <1>5 DEF Tick
<1>6. ASSUME NEW v \in Workers, \/ BeginClaims(v) \/ (\E y \in queue[v] : Admit(v, y))
                                \/ Reject(v) \/ Notify(v) \/ NoSlot(v) \/ Claim(v)
                                \/ (\E out \in Outcomes : Exit(v, out)) \/ Settle(v)
      PROVE  UNCHANGED <<lapsed, clock>>
  BY <1>6 DEF BeginClaims, Admit, Reject, Notify, NoSlot, Claim, Exit, Settle
<1>7. ASSUME \/ \E r \in Tasks : \/ \E a \in Applications : Check(r, a)
                                 \/ Insert(r) \/ Cancel(r)
             \/ UNCHANGED vars
      PROVE  UNCHANGED <<lapsed, clock>>
  BY <1>7 DEF Check, Insert, Cancel, vars, workerVars
<1> QED
  BY <1>2, <1>3, <1>4, <1>5, <1>6, <1>7 DEF Next, Work

(* The clock never goes back.                                              *)
LEMMA ClockSteps ==
  ASSUME TypeOK, [Next]_vars
  PROVE  clock \in Nat /\ clock' \in Nat /\ clock <= clock'
<1>1. clock \in Nat
  BY DEF TypeOK
<1>2. clock' = clock \/ clock' = clock + 1
  BY DEF Next, Work, Check, Insert, Cancel, Begin, Crash, Tick, Reap, BeginClaims, Admit,
         Reject, Notify, NoSlot, Claim, Exit, Settle, vars
<1> QED
  BY <1>1, <1>2

(* What holds of an execution after its claim (claim_and_execute).         *)
LEMMA ClaimHolds ==
  ASSUME TypeOK, NEW w \in Workers, Claim(w), Executing(w)'
  PROVE  /\ job'[w].claim = claims'[job'[w].task]
         /\ OwnsLease(w)'
<1> DEFINE r == job[w].task
<1>1. r \in Tasks /\ job[w] \in Jobs /\ claims[r] \in Nat
  BY DEF Claim, TypeOK, Examining, Jobs
<1>2. ClaimWins(w)
  BY GoesEnds DEF Claim, NextCandidate
<1>3. /\ status' = [status EXCEPT ![r] = "running"]
      /\ holder' = [holder EXCEPT ![r] = w]
      /\ expiry' = [expiry EXCEPT ![r] = LeaseEnd(w)]
      /\ claims' = [claims EXCEPT ![r] = @ + 1]
      /\ job' = [job EXCEPT ![w].claim = claims[r] + 1]
      /\ tick' = tick
  BY <1>2 DEF Claim
<1>4. job'[w].task = r /\ job'[w].claim = claims[r] + 1
  BY <1>1, <1>3 DEF TypeOK, Jobs
<1>5. status'[r] = "running" /\ holder'[r] = w /\ expiry'[r] = LeaseEnd(w)
      /\ claims'[r] = claims[r] + 1
  BY <1>1, <1>3 DEF TypeOK
<1>6. LeaseEnd(w)' = LeaseEnd(w)
  BY <1>3 DEF LeaseEnd
<1> HIDE DEF r
<1> QED
  BY <1>4, <1>5, <1>6 DEF OwnsLease

(* LeaseInv is inductive: a lease that is not held any more was reaped,    *)
(* after it lapsed, and a new claim takes the lease with it.               *)
LEMMA LeaseStep == TypeOK /\ LeaseInv /\ [Next]_vars => LeaseInv'
<1> SUFFICES ASSUME TypeOK, LeaseInv, [Next]_vars
             PROVE  LeaseInv'
  OBVIOUS
<1>1. ASSUME NEW w \in Workers, NEW x \in lapsed'[w]
      PROVE  x.expiry < clock'
  <2>1. TypeOK'
    BY NextType
  <2>2. x.expiry \in Nat
    BY <2>1, <1>1 DEF TypeOK
  <2>3. x.expiry < clock
    BY <1>1, ReaperSteps DEF LeaseInv
  <2> QED
    BY <2>2, <2>3, ClockSteps
<1>2. ASSUME NEW w \in Workers, Executing(w)'
      PROVE  /\ job'[w].claim <= claims'[job'[w].task]
             /\ OwnsLease(w)' \/ LeaseEnd(w)' < clock'
             /\ OwnsLease(w)' => claims'[job'[w].task] = job'[w].claim
  <2>0. /\ TypeOK'
        /\ job'[w].task \in Tasks /\ job'[w].claim \in Nat /\ claims'[job'[w].task] \in Nat
    BY <1>2, NextType DEF TypeOK, Examining, Executing, Jobs
  <2>1. CASE Claim(w)
    BY <1>2, <2>0, <2>1, ClaimHolds
  <2>2. CASE ~Claim(w)
    <3>0. SameExecution(w)
      BY <1>2, <2>2, ExecutionSteps
    <3>1. PICK r \in Tasks : r = job[w].task
      BY <3>0, <2>0 DEF SameExecution
    <3>2. /\ job'[w].task = r /\ job'[w].claim = job[w].claim
          /\ LeaseEnd(w)' = LeaseEnd(w) /\ LeaseEnd(w) \in Int
          /\ claims[r] \in Nat /\ job[w].claim \in Nat
      <4>1. tick[w] \in Nat /\ LeaseTTL \in Nat
        BY ParameterAssumption DEF TypeOK
      <4> QED
        BY <4>1, <3>0, <3>1, <2>0 DEF SameExecution, LeaseEnd, TypeOK
    <3>3. /\ job[w].claim <= claims[r]
          /\ OwnsLease(w) \/ LeaseEnd(w) < clock
          /\ OwnsLease(w) => claims[r] = job[w].claim
      BY <3>0, <3>1 DEF SameExecution, LeaseInv, LeaseNamesClaim
    <3>4. ~Settle(w)
      BY <1>2, GoesEnds DEF Settle, NextCandidate
    <3>5. RowMoves(r)
      BY <3>2, RowSteps
    <3>6. claims'[r] \in {claims[r], claims[r] + 1}
      BY <3>5 DEF RowMoves, Rests, WaitsOrLeaves, ClaimedBy, ReapedBy, SettledBy
    <3>7. OwnsLease(w) => status[r] = "running" /\ holder[r] = w /\ expiry[r] = LeaseEnd(w)
      BY <3>1 DEF OwnsLease
    <3>8. OwnsLease(w)' <=> status'[r] = "running" /\ holder'[r] = w /\ expiry'[r] = LeaseEnd(w)
      BY <3>2 DEF OwnsLease
    <3>9. Rests(r) => (OwnsLease(w)' <=> OwnsLease(w)) /\ claims'[r] = claims[r]
      BY <3>1, <3>7, <3>8 DEF Rests, OwnsLease
    <3>10. OwnsLease(w)' \/ LeaseEnd(w) < clock
      <4>1. ASSUME OwnsLease(w), NEW v \in Workers, ReapedBy(r, v)
            PROVE  LeaseEnd(w) < clock
        BY <4>1, <3>7 DEF ReapedBy, LeaseInv
      <4>2. ASSUME OwnsLease(w), NEW v \in Workers, SettledBy(r, v)
            PROVE  FALSE
        BY <4>2, <3>7, <3>4 DEF SettledBy, OwnsLease
      <4> QED
        BY <4>1, <4>2, <3>3, <3>5, <3>7, <3>9 DEF RowMoves, WaitsOrLeaves, ClaimedBy
    <3>11. OwnsLease(w)' => claims'[r] = job[w].claim
      BY <2>2, <3>3, <3>5, <3>8, <3>9
         DEF RowMoves, WaitsOrLeaves, ClaimedBy, ReapedBy, SettledBy, Outcomes
    <3> QED
      BY <3>2, <3>3, <3>6, <3>10, <3>11, ClockSteps
  <2> QED
    BY <2>1, <2>2
<1> QED
  BY <1>1, <1>2 DEF LeaseInv, LeaseNamesClaim

(* LeaseInv holds in every state of the queue.                             *)
LEMMA LeaseInvHolds == Spec => []LeaseInv
<1>1. Init => LeaseInv
  BY DEF Init, LeaseInv, LeaseNamesClaim, Executing
<1> QED
  BY <1>1, QueueTypeCorrect, LeaseStep, PTL DEF Spec

(* A terminal write that passes its guard belongs to the last claim of the *)
(* task: late work is dropped (_execute_claimed, lease_guard).             *)
THEOREM LeaseNamesItsClaim == Spec => []LeaseNamesClaim
<1>1. LeaseInv => LeaseNamesClaim
  BY DEF LeaseInv
<1> QED
  BY <1>1, LeaseInvHolds, PTL

(* Nobody executes a task another worker still executes within its lease   *)
(* (claim_and_execute, reap_expired_leases).                               *)
THEOREM LeaseIsExclusive == Spec => []ExclusiveWithinLease
<1>1. TypeOK /\ LeaseInv => ExclusiveWithinLease
  <2> SUFFICES ASSUME TypeOK, LeaseInv, NEW v \in Workers, NEW w \in Workers,
                      Executing(v), Executing(w),
                      job[v].task = job[w].task, job[v].claim < job[w].claim
               PROVE  LeaseEnd(v) < clock
    BY DEF ExclusiveWithinLease
  <2>1. /\ job[v].claim \in Nat /\ job[w].claim \in Nat
        /\ job[w].task \in Tasks /\ claims[job[w].task] \in Nat
    BY DEF TypeOK, Executing, Examining, Jobs
  <2>2. job[w].claim <= claims[job[w].task]
    BY DEF LeaseInv
  <2>3. ~OwnsLease(v)
    BY <2>1, <2>2 DEF LeaseInv, LeaseNamesClaim
  <2> QED
    BY <2>3 DEF LeaseInv
<1> QED
  BY <1>1, QueueTypeCorrect, LeaseInvHolds, PTL

(* A reaper never takes a live lease, however long ago it read the lapsed  *)
(* one (reap_expired_leases).                                              *)
THEOREM LiveLeaseStays == Spec => LiveLeaseNotReaped
<1>1. TypeOK /\ LeaseInv /\ [Next]_vars =>
        [\A r \in Tasks :
           status[r] = "running" /\ status'[r] = "queued" => expiry[r] < clock]_vars
  <2> SUFFICES ASSUME TypeOK, LeaseInv, [Next]_vars, NEW r \in Tasks,
                      status[r] = "running", status'[r] = "queued"
               PROVE  expiry[r] < clock
    OBVIOUS
  <2>1. PICK v \in Workers : ReapedBy(r, v)
    BY RowSteps DEF RowMoves, Rests, WaitsOrLeaves, ClaimedBy, SettledBy, Outcomes
  <2> QED
    BY <2>1 DEF ReapedBy, LeaseInv
<1> QED
  BY <1>1, QueueTypeCorrect, LeaseInvHolds, PTL DEF Spec, LiveLeaseNotReaped
-----------------------------------------------------------------------------
(* One worker.                                                             *)

Alone == \E w : Workers = {w}

(* With one worker, nobody else claims: the counter on the row is the      *)
(* number of claims, and what the pass has read of counters and keys holds *)
(* until its own claim.                                                    *)
Entered(r) == status[r] \notin {"absent", "checked"}
Counted == \A r \in Tasks : tries[r] = claims[r]
ReadOf(w) ==
  /\ lapsed[w] # {} => pc[w] = "reaping"
  /\ \A x \in lapsed[w] : x.tries = tries[x.task]
  /\ \A x \in queue[w] : x.tries = tries[x.task] /\ Entered(x.task)
AdmittedOf(w) ==
  pc[w] = "admitted" =>
    /\ job[w].tries = tries[job[w].task] /\ Entered(job[w].task)
    /\ \A x \in queue[w] : x.task # job[w].task
    /\ app[job[w].task].key = NoKey \/ Running(app[job[w].task].key) = {}
AloneInv ==
  /\ Counted /\ OneRunningPerKey
  /\ \A w \in Workers : ReadOf(w) /\ AdmittedOf(w)

(* A row that may still be claimed has a claim left.                       *)
Within ==
  /\ HandOutsBounded
  /\ \A r \in Tasks :
       status[r] \in {"absent", "checked", "queued"} => claims[r] < MaxLeaseAttempts

(* Whatever only ends, drops or forgets keeps all of it.                   *)
LEMMA FewerAlone ==
  ASSUME TypeOK, AloneInv, Alone, NEW w \in Workers,
         UNCHANGED <<tries, claims, app>>,
         \A r \in Tasks : /\ status'[r] = "running" => status[r] = "running"
                          /\ Entered(r) => Entered(r)',
         queue'[w] \subseteq queue[w], lapsed'[w] \subseteq lapsed[w],
         lapsed'[w] # {} => pc'[w] = "reaping",
         pc'[w] = "admitted" => pc[w] = "admitted" /\ job'[w] = job[w]
  PROVE  AloneInv'
<1>0. /\ Workers = {w}
      /\ \A x \in queue[w] : x.task \in Tasks
      /\ pc[w] = "admitted" => job[w].task \in Tasks
  BY DEF Alone, TypeOK, Examining, Jobs
<1>1. Counted' /\ OneRunningPerKey'
  BY DEF AloneInv, Counted, OneRunningPerKey
<1>2. ReadOf(w)'
  BY <1>0 DEF AloneInv, ReadOf
<1>3. AdmittedOf(w)'
  BY <1>0 DEF AloneInv, AdmittedOf, Running
<1> QED
  BY <1>0, <1>1, <1>2, <1>3 DEF AloneInv

(* Submission and cancellation: the key of a row is written before the row *)
(* is queued.                                                              *)
LEMMA SubmitAlone ==
  ASSUME TypeOK, AloneInv, Alone, NEW r \in Tasks,
         (\E a \in Applications : Check(r, a)) \/ Insert(r) \/ Cancel(r)
  PROVE  AloneInv'
<1>0. PICK w \in Workers : Workers = {w}
  BY DEF Alone
<1>1. CASE Insert(r) \/ Cancel(r)
  <2>1. \A q \in Tasks : /\ status'[q] = "running" => status[q] = "running"
                         /\ Entered(q) => Entered(q)'
    BY <1>1 DEF Insert, Cancel, TypeOK, Entered
  <2>2. /\ UNCHANGED <<tries, claims, app, queue, lapsed, pc, job>>
        /\ lapsed[w] # {} => pc[w] = "reaping"
    BY <1>1 DEF Insert, Cancel, workerVars, AloneInv, ReadOf
  <2> QED
    BY <2>1, <2>2, FewerAlone
<1>2. ASSUME NEW a \in Applications, Check(r, a)
      PROVE  AloneInv'
  <2>0. /\ \A x \in queue[w] : x.task \in Tasks
        /\ pc[w] = "admitted" => job[w].task \in Tasks
    BY DEF TypeOK, Examining, Jobs
  <2>1. /\ status[r] = "absent" /\ status'[r] = "checked"
        /\ \A q \in Tasks : q # r => status'[q] = status[q] /\ app'[q] = app[q]
        /\ UNCHANGED <<tries, claims, queue, lapsed, pc, job>>
    BY <1>2 DEF Check, TypeOK, workerVars
  <2>2. Counted' /\ OneRunningPerKey'
    BY <2>1 DEF AloneInv, Counted, OneRunningPerKey
  <2>3. ReadOf(w)'
    BY <2>0, <2>1 DEF AloneInv, ReadOf, Entered
  <2>4. AdmittedOf(w)'
    <3>1. \A k : Running(k)' = Running(k)
      BY <2>1 DEF Running
    <3>2. pc[w] = "admitted" => job[w].task # r /\ app'[job[w].task] = app[job[w].task]
      BY <2>0, <2>1 DEF AloneInv, AdmittedOf, Entered
    <3> QED
      BY <2>0, <2>1, <3>1, <3>2 DEF AloneInv, AdmittedOf, Entered
  <2> QED
    BY <1>0, <2>2, <2>3, <2>4 DEF AloneInv
<1> QED
  BY <1>1, <1>2

(* The reads of a tick are of this moment.                                 *)
LEMMA ReadAlone ==
  ASSUME TypeOK, AloneInv, Alone, NEW w \in Workers, Begin(w) \/ BeginClaims(w)
  PROVE  AloneInv'
<1>0. Workers = {w} /\ pc'[w] # "admitted" /\ UNCHANGED <<tries, claims, app, status>>
  BY DEF Alone, Begin, BeginClaims, Goes, TypeOK, taskVars
<1>1. ReadOf(w)'
  <2>1. CASE Begin(w)
    <3>1. /\ pc'[w] = "reaping" /\ queue'[w] = queue[w]
          /\ lapsed'[w] = {[task |-> r, tries |-> tries[r], expiry |-> expiry[r]] : r \in Lapsed}
      BY <2>1 DEF Begin, TypeOK
    <3>2. \A x \in lapsed'[w] : x.tries = tries[x.task]
      BY <3>1
    <3> QED
      BY <1>0, <3>1, <3>2 DEF AloneInv, ReadOf, Entered
  <2>2. CASE BeginClaims(w)
    <3>1. /\ lapsed'[w] = {}
          /\ queue'[w] = {[task |-> r, tries |-> tries[r]] : r \in FirstCandidates(w)}
      BY <2>2 DEF BeginClaims, TypeOK
    <3>2. \A r \in FirstCandidates(w) : Entered(r)
      BY DEF FirstCandidates, Candidates, Entered
    <3>3. \A x \in queue'[w] : x.tries = tries[x.task] /\ Entered(x.task)
      BY <3>1, <3>2
    <3> QED
      BY <1>0, <3>1, <3>3 DEF ReadOf, Entered
  <2> QED
    BY <2>1, <2>2
<1>2. AdmittedOf(w)' /\ Counted' /\ OneRunningPerKey'
  BY <1>0 DEF AdmittedOf, AloneInv, Counted, OneRunningPerKey
<1> QED
  BY <1>0, <1>1, <1>2 DEF AloneInv

(* What admit() lets through has no holder of its key, and is in the queue *)
(* of the pass no more.                                                    *)
LEMMA AdmitAlone ==
  ASSUME TypeOK, AloneInv, Alone, NEW w \in Workers, NEW x \in queue[w], Admit(w, x)
  PROVE  AloneInv'
<1>0. /\ Workers = {w} /\ pc[w] = "claiming" /\ lapsed[w] = {}
      /\ UNCHANGED <<tries, claims, app, status, lapsed>>
      /\ queue'[w] = queue[w] \ {x}
  BY DEF Alone, Admit, TypeOK, taskVars, AloneInv, ReadOf
<1>1. CASE pc'[w] # "admitted"
  BY <1>0, <1>1, FewerAlone DEF Entered
<1>2. CASE pc'[w] = "admitted"
  <2>1. /\ ~Deferred(w, x.task) /\ ~Refused(w, x.task)
        /\ job'[w] = [NoJob EXCEPT !.task = x.task, !.tries = x.tries]
    BY <1>2 DEF Admit, Goes, TypeOK
  <2>2. job'[w].task = x.task /\ job'[w].tries = x.tries
    BY <2>1 DEF NoJob
  <2>3. ~KeyHeld(w, x.task)
    BY <2>1 DEF Deferred, Refused
  <2>4. app[x.task].key = NoKey \/ Running(app[x.task].key) = {}
    BY <2>3 DEF KeyHeld
  <2>5. \A y \in queue[w] : y.task = x.task => y = x
    BY DEF AloneInv, ReadOf, TypeOK
  <2>6. AdmittedOf(w)'
    BY <1>0, <2>2, <2>4, <2>5 DEF AdmittedOf, AloneInv, ReadOf, Entered, Running
  <2>7. ReadOf(w)' /\ Counted' /\ OneRunningPerKey'
    BY <1>0 DEF AloneInv, ReadOf, Entered, Counted, OneRunningPerKey
  <2> QED
    BY <1>0, <2>6, <2>7 DEF AloneInv
<1> QED
  BY <1>1, <1>2

(* The claim counts one, on the row as in the history.                     *)
LEMMA ClaimAlone ==
  ASSUME TypeOK, AloneInv, Alone, NEW w \in Workers, Claim(w)
  PROVE  AloneInv'
<1>0. /\ Workers = {w} /\ pc[w] = "admitted" /\ lapsed[w] = {} /\ job[w].task \in Tasks
      /\ UNCHANGED <<app, lapsed, queue>>
  BY DEF Alone, Claim, TypeOK, AloneInv, ReadOf, Examining, Jobs
<1>1. CASE ClaimWins(w)
  <2> DEFINE r == job[w].task
  <2>1. /\ status[r] = "queued" /\ status'[r] = "running"
        /\ tries'[r] = job[w].tries + 1 /\ claims'[r] = claims[r] + 1
        /\ \A q \in Tasks : q # r => /\ status'[q] = status[q]
                                    /\ tries'[q] = tries[q] /\ claims'[q] = claims[q]
        /\ pc'[w] = "executing"
    BY <1>0, <1>1 DEF Claim, ClaimWins, TypeOK
  <2>2. /\ job[w].tries = tries[r] /\ \A x \in queue[w] : x.task # r
        /\ app[r].key = NoKey \/ Running(app[r].key) = {}
    BY <1>0 DEF AloneInv, AdmittedOf
  <2>3. Counted'
    BY <2>1, <2>2 DEF AloneInv, Counted
  <2>4. OneRunningPerKey'
    <3> SUFFICES ASSUME NEW p \in Tasks, NEW q \in Tasks, p # q,
                        status'[p] = "running", status'[q] = "running",
                        app[p].key # NoKey, app[p].key = app[q].key
                 PROVE  FALSE
      BY <1>0 DEF OneRunningPerKey
    <3>1. CASE p # r /\ q # r
      BY <2>1, <3>1 DEF AloneInv, OneRunningPerKey
    <3>2. CASE p = r \/ q = r
      BY <2>1, <2>2, <3>2 DEF Running
    <3> QED
      BY <3>1, <3>2
  <2>5. ReadOf(w)'
    <3>1. \A x \in queue[w] : x.task \in Tasks
      BY DEF TypeOK
    <3> QED
      BY <1>0, <2>1, <2>2, <3>1 DEF AloneInv, ReadOf, Entered
  <2>6. AdmittedOf(w)'
    BY <2>1 DEF AdmittedOf
  <2> QED
    BY <1>0, <2>3, <2>4, <2>5, <2>6 DEF AloneInv
<1>2. CASE ~ClaimWins(w)
  <2>1. NextCandidate(w) /\ UNCHANGED <<status, tries, claims>>
    BY <1>2 DEF Claim
  <2>2. pc'[w] # "admitted"
    BY <2>1 DEF NextCandidate, Goes, TypeOK
  <2> QED
    BY <1>0, <2>1, <2>2, FewerAlone DEF Entered
<1> QED
  BY <1>1, <1>2

(* Refusals, notices, exits, settles, reaps and crashes.                   *)
LEMMA RestAlone ==
  ASSUME TypeOK, AloneInv, Alone, NEW w \in Workers,
         \/ \E x \in lapsed[w] : Reap(w, x)
         \/ Reject(w) \/ Notify(w) \/ NoSlot(w) \/ Settle(w) \/ Crash(w)
         \/ \E out \in Outcomes : Exit(w, out)
  PROVE  AloneInv'
<1>0. lapsed[w] # {} => pc[w] = "reaping"
  BY DEF AloneInv, ReadOf
<1>1. ASSUME NEW x \in lapsed[w], Reap(w, x)
      PROVE  AloneInv'
  <2>1. /\ x.task \in Tasks /\ UNCHANGED <<tries, claims, app, pc, queue, job>>
        /\ lapsed'[w] \subseteq lapsed[w] /\ pc[w] = "reaping"
    BY <1>1 DEF Reap, TypeOK
  <2>2. \A r \in Tasks : /\ status'[r] = "running" => status[r] = "running"
                         /\ Entered(r) => Entered(r)'
    BY <1>1, <2>1 DEF Reap, TypeOK, Entered
  <2> QED
    BY <2>1, <2>2, FewerAlone
<1>2. CASE Reject(w)
  <2>1. /\ UNCHANGED <<tries, claims, app, queue, lapsed>>
        /\ pc[w] = "refusing" /\ pc'[w] # "admitted"
    BY <1>2 DEF Reject, NextCandidate, Goes, TypeOK
  <2>2. \A r \in Tasks : /\ status'[r] = "running" => status[r] = "running"
                         /\ Entered(r) => Entered(r)'
    BY <1>2 DEF Reject, TypeOK, Entered
  <2> QED
    BY <1>0, <2>1, <2>2, FewerAlone
<1>3. CASE Notify(w) \/ NoSlot(w) \/ \E out \in Outcomes : Exit(w, out)
  <2>1. /\ UNCHANGED <<tries, claims, app, status, queue, lapsed>>
        /\ pc[w] # "reaping" /\ pc'[w] # "admitted"
    BY <1>3 DEF Notify, NoSlot, Exit, NextCandidate, Goes, TypeOK, taskVars
  <2> QED
    BY <1>0, <2>1, FewerAlone DEF Entered
<1>4. CASE Settle(w)
  <2>1. /\ UNCHANGED <<tries, claims, app, queue, lapsed>>
        /\ pc[w] = "settling" /\ pc'[w] # "admitted" /\ job[w].out \in Outcomes
    BY <1>4 DEF Settle, NextCandidate, Goes, TypeOK, Examining, Jobs
  <2>2. \A r \in Tasks : /\ status'[r] = "running" => status[r] = "running"
                         /\ Entered(r) => Entered(r)'
    BY <1>4, <2>1 DEF Settle, TypeOK, Entered, Outcomes
  <2> QED
    BY <1>0, <2>1, <2>2, FewerAlone
<1>5. CASE Crash(w)
  <2>1. /\ UNCHANGED <<tries, claims, app, status>>
        /\ queue'[w] = {} /\ lapsed'[w] = {} /\ pc'[w] # "admitted"
    BY <1>5 DEF Crash, Goes, TypeOK, taskVars
  <2> QED
    BY <2>1, FewerAlone DEF Entered
<1> QED
  BY <1>1, <1>2, <1>3, <1>4, <1>5

(* Every step of a queue with one worker keeps the invariant.              *)
LEMMA AloneStep ==
  ASSUME TypeOK, AloneInv, Alone, [Next]_vars
  PROVE  AloneInv'
<1>1. CASE UNCHANGED vars \/ Tick
  <2>1. PICK w \in Workers : TRUE
    BY DEF Alone
  <2>2. UNCHANGED <<tries, claims, app, status, queue, lapsed, pc, job>>
    BY <1>1 DEF vars, Tick, taskVars, workerVars
  <2> QED
    BY <2>1, <2>2, FewerAlone DEF Entered, AloneInv, ReadOf
<1> QED
  BY <1>1, SubmitAlone, ReadAlone, AdmitAlone, ClaimAlone, RestAlone DEF Next, Work

(* A task is requeued only while it has claims left.                       *)
LEMMA WithinStep ==
  ASSUME TypeOK, AloneInv, Within, [Next]_vars
  PROVE  Within'
<1> USE ParameterAssumption
<1>1. ASSUME NEW r \in Tasks
      PROVE  /\ claims'[r] <= MaxLeaseAttempts
             /\ status'[r] \in {"absent", "checked", "queued"} => claims'[r] < MaxLeaseAttempts
  <2>0. claims[r] \in Nat /\ MaxLeaseAttempts \in Nat
    BY DEF TypeOK
  <2>1. CASE Rests(r) \/ WaitsOrLeaves(r)
    BY <2>0, <2>1 DEF Rests, WaitsOrLeaves, Within, HandOutsBounded
  <2>2. ASSUME NEW v \in Workers, ClaimedBy(r, v) \/ SettledBy(r, v)
        PROVE  /\ claims'[r] <= MaxLeaseAttempts
               /\ status'[r] \notin {"absent", "checked", "queued"}
    BY <2>0, <2>2 DEF ClaimedBy, SettledBy, Outcomes, Within, HandOutsBounded
  <2>3. ASSUME NEW v \in Workers, NEW x \in lapsed[v], Reap(v, x)
        PROVE  /\ claims'[r] <= MaxLeaseAttempts
               /\ status'[r] \in {"absent", "checked", "queued"} => claims'[r] < MaxLeaseAttempts
    <3>0. x.task \in Tasks /\ x.tries \in Nat
      BY DEF TypeOK
    <3>1. x.task \in Tasks /\ x.tries = claims[x.task] /\ x.tries \in Nat
      BY <3>0 DEF AloneInv, ReadOf, Counted
    <3>2. claims' = claims
      BY <2>3 DEF Reap
    <3>3. CASE x.task = r /\ StillLapsed(x)
      BY <2>0, <2>3, <3>1, <3>2, <3>3 DEF Reap, SpentLeases, Within, HandOutsBounded, TypeOK
    <3>4. CASE ~(x.task = r /\ StillLapsed(x))
      <4>1. status'[r] = status[r]
        BY <2>3, <3>1, <3>4 DEF Reap, TypeOK
      <4> QED
        BY <3>2, <4>1 DEF Within, HandOutsBounded
    <3> QED
      BY <3>3, <3>4
  <2>4. ASSUME NEW v \in Workers, ReapedBy(r, v)
        PROVE  \E x \in lapsed[v] : Reap(v, x)
    BY <2>4 DEF ReapedBy
  <2> QED
    BY <2>1, <2>2, <2>3, <2>4, RowSteps DEF RowMoves
<1> QED
  BY <1>1 DEF Within, HandOutsBounded

(* With one worker the invariant holds in every state.                     *)
LEMMA AloneHolds ==
  ASSUME Alone
  PROVE  Spec => []AloneInv
<1>1. Init => AloneInv
  BY DEF Init, AloneInv, Counted, OneRunningPerKey, ReadOf, AdmittedOf
<1>2. TypeOK /\ AloneInv /\ [Next]_vars => AloneInv'
  BY AloneStep
<1> QED
  BY <1>1, <1>2, QueueTypeCorrect, PTL DEF Spec

(* admit(): with one worker, one running task per concurrency key, since   *)
(* nobody claims between the look for a holder and the claim.              *)
THEOREM KeysAreExclusive ==
  ASSUME Alone
  PROVE  Spec => []OneRunningPerKey
<1>1. AloneInv => OneRunningPerKey
  BY DEF AloneInv
<1> QED
  BY <1>1, AloneHolds, PTL

(* MAX_LEASE_ATTEMPTS: with one worker, a task is handed out at most that  *)
(* often, since the reaper counts every claim.                             *)
THEOREM HandOutsAreBounded ==
  ASSUME Alone, MaxLeaseAttempts > 0
  PROVE  Spec => []HandOutsBounded
<1>1. Init => Within
  BY ParameterAssumption DEF Init, Within, HandOutsBounded
<1>2. TypeOK /\ AloneInv /\ Within /\ [Next]_vars => Within'
  BY WithinStep
<1>3. Within => HandOutsBounded
  BY DEF Within
<1> QED
  BY <1>1, <1>2, <1>3, QueueTypeCorrect, AloneHolds, PTL DEF Spec
=============================================================================
