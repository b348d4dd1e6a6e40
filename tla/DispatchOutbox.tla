--------------------------- MODULE DispatchOutbox ---------------------------
(***************************************************************************)
(* The durable dispatch outbox (lionagi/dispatch/outbox.py).               *)
(*                                                                         *)
(* Producers insert rows; a scan of the Studio scheduler reads the due     *)
(* rows in one transaction, then claims, sends and settles them one by one *)
(* in transactions of their own, using the snapshot it read and the clock  *)
(* value it captured when it started; consumers acknowledge, operators     *)
(* retry and purge, at any moment.  Every status change goes through the   *)
(* compare-and-swap of state/transitions.py.                               *)
(*                                                                         *)
(* Time is relative: wait[r] is next_attempt_at - now (0 when due), ttl[r] *)
(* is expires_at - now (negative when past, exact down to -AgeCap), age[s] *)
(* is how long ago scanner s captured `now`, exact up to AgeCap, beyond    *)
(* which every deadline computed from it is already in the past.           *)
(***************************************************************************)
EXTENDS Integers, FiniteSets

CONSTANTS
  Rows,           \* dispatch ids
  NoRow,          \* the row of a scanner that holds no claim
  Scanners,       \* processes running deliver_due_dispatches
  NoKey,          \* dedup_key = NULL
  Never,          \* expires_at = NULL
  Requests,       \* what producers enqueue, see RequestType
  Lease,          \* _CLAIM_LEASE_SECONDS
  NotifyTimeout,  \* NOTIFY_TIMEOUT_SECONDS
  BaseBackoff,    \* _BASE_BACKOFF_SECONDS
  MaxBackoff,     \* _MAX_BACKOFF_SECONDS
  BackoffSteps,   \* doublings after which the backoff is at its maximum
  Prompt,         \* TRUE: only the transport takes time; FALSE: any step may
  MaxCrashes,     \* bound on scans cut short
  MaxRetries      \* bound on operator retries of one row

\* The arguments of enqueue_dispatch that later steps depend on.
RequestType(q) ==
  /\ DOMAIN q = {"key", "ack", "max", "life"}
  /\ q.ack \in BOOLEAN
  /\ q.max \in Nat
  /\ q.life \in Nat \cup {Never}

ASSUME ParameterAssumption ==
  /\ NoRow \notin Rows
  /\ Requests # {}
  /\ \A q \in Requests : RequestType(q)
  /\ Never \notin Int
  /\ Lease \in Nat
  /\ NotifyTimeout \in Nat
  /\ BaseBackoff \in Nat
  /\ MaxBackoff \in Nat
  /\ BackoffSteps \in Nat
  /\ \A n \in 0..BackoffSteps : 2^n \in Nat
  /\ BaseBackoff * 2^BackoffSteps >= MaxBackoff
  /\ Prompt \in BOOLEAN
  /\ MaxCrashes \in Nat
  /\ MaxRetries \in Nat

VARIABLES
  status,    \* dispatch_outbox.status, "absent" before INSERT, "purged" after DELETE
  req,       \* the row's dedup_key, ack_required, max_attempts and lifetime
  attempt,   \* dispatch_outbox.attempt
  wait,      \* dispatch_outbox.next_attempt_at, relative to now
  ttl,       \* dispatch_outbox.expires_at, relative to now
  pc,        \* where each scanner is
  batch,     \* the due-row snapshots a scanner has not come to yet
  cur,       \* the claim a scanner is working on
  age,       \* time since the scanner captured `now`, 0 outside a scan
  elapsed,   \* time since the scanner launched the transport, 0 outside it
  crashes,   \* scans cut short so far
  strays,    \* transport commands whose scan was cut short: nobody kills them
  epoch,     \* history: operator retries of the row
  sends,     \* history: transport launches since enqueue or retry
  exited0    \* history: rows for which some transport command exited zero

rowVars == <<status, req, attempt, wait, ttl>>
scanVars == <<pc, batch, cur, age, elapsed>>
historyVars == <<epoch, sends, exited0>>
crashVars == <<crashes, strays>>
vars == <<rowVars, scanVars, historyVars, crashVars>>

-----------------------------------------------------------------------------
(* The dispatch lifecycle policy, state/lifecycle/policy.py.               *)

Terminal == {"delivered", "acked", "dead_letter", "expired"}
Live == {"pending", "delivering"}
Statuses == Live \cup Terminal
Exists(r) == status[r] \in Statuses

\* The declared edges, by source status.
Edges == [st \in Statuses |->
  CASE st = "pending"    -> {"delivering", "expired", "acked"}
    [] st = "delivering" -> {"delivering", "pending", "delivered", "acked",
                             "dead_letter", "expired"}
    [] st \in {"dead_letter", "expired"} -> {"pending"}
    [] OTHER -> {}]

\* Broken variant: no compare-and-swap on the status.
Applies_NoStatusGuard(r, from, to) == Exists(r)

(* transition(): the write happens iff the row still has the status the    *)
(* caller named; a status may always be re-appended (same_status =         *)
(* "append"), any other move must be declared.                             *)
Applies(r, from, to) ==
  /\ status[r] = from
  /\ to \in Edges[from] \cup {from}

MoveTo(r, to) == status' = [status EXCEPT ![r] = to]

-----------------------------------------------------------------------------
Larger(a, b) == IF a < b THEN b ELSE a
Smaller(a, b) == IF a < b THEN a ELSE b

\* backoff_seconds: min(base * 2^attempt, cap).
Backoff(n) == Smaller(BaseBackoff * 2^Smaller(n, BackoffSteps), MaxBackoff)

AgeCap == Larger(Lease, MaxBackoff)

\* next_attempt_at = now + d for the scanner's captured now.
FromScan(s, d) == Larger(0, d - age[s])

\* Broken variant: the scan never looks at expires_at.
Snapshot_NeverLapses(r) == [row |-> r, status |-> status[r],
                            attempt |-> attempt[r], lapsed |-> FALSE]

\* What the due-row SELECT returns of a row; `lapsed` is expires_at <= now.
Snapshot(r) == [row |-> r, status |-> status[r], attempt |-> attempt[r],
                lapsed |-> ttl[r] # Never /\ ttl[r] <= 0]

Snapshots == [row : Rows, status : Live, attempt : Nat, lapsed : BOOLEAN]

NoClaim == [row |-> NoRow, attempt |-> 0, epoch |-> 0]
Claims == [row : Rows, attempt : Nat, epoch : Nat]

\* The scanner holds a claim: from its commit to the end of its last write.
InFlight(s) == pc[s] \in {"claimed", "sending", "ok", "failed", "backoff"}
WorksOn(s, r) == InFlight(s) /\ cur[s].row = r

Init ==
  /\ status = [r \in Rows |-> "absent"]
  /\ req = [r \in Rows |-> CHOOSE q \in Requests : TRUE]
  /\ attempt = [r \in Rows |-> 0]
  /\ wait = [r \in Rows |-> 0]
  /\ ttl = [r \in Rows |-> Never]
  /\ pc = [s \in Scanners |-> "idle"]
  /\ batch = [s \in Scanners |-> {}]
  /\ cur = [s \in Scanners |-> NoClaim]
  /\ age = [s \in Scanners |-> 0]
  /\ elapsed = [s \in Scanners |-> 0]
  /\ crashes = 0
  /\ strays = {}
  /\ epoch = [r \in Rows |-> 0]
  /\ sends = [r \in Rows |-> 0]
  /\ exited0 = {}

-----------------------------------------------------------------------------
(* enqueue_dispatch: SELECT by dedup_key and INSERT in one transaction; an *)
(* existing row of any status makes it a no-op.                            *)
Enqueue(r, q) ==
  /\ status[r] = "absent"
  /\ q.key # NoKey => \A o \in Rows : Exists(o) => req[o].key # q.key
  /\ MoveTo(r, "pending")
  /\ req' = [req EXCEPT ![r] = q]
  /\ ttl' = [ttl EXCEPT ![r] = q.life]
  /\ UNCHANGED <<attempt, wait, scanVars, historyVars, crashVars>>

-----------------------------------------------------------------------------
(* deliver_due_dispatches                                                  *)

\* Broken variant: the scan reads pending rows only.
Due_PendingOnly == {r \in Rows : status[r] = "pending" /\ wait[r] = 0}

\* Broken variant: the scan reads every live row, leased or not.
Due_IgnoresLease == {r \in Rows : status[r] \in Live}

\* status IN ('pending', 'delivering') AND next_attempt_at <= now.
Due == {r \in Rows : status[r] \in Live /\ wait[r] = 0}

\* Capture now and read the due rows; nothing is held afterwards.
Scan(s) ==
  /\ pc[s] = "idle"
  /\ Due # {}
  /\ pc' = [pc EXCEPT ![s] = "loop"]
  /\ batch' = [batch EXCEPT ![s] = {Snapshot(r) : r \in Due}]
  /\ age' = [age EXCEPT ![s] = 0]
  /\ UNCHANGED <<rowVars, cur, elapsed, historyVars, crashVars>>

\* The scanner is done with the row it took; the scan ends with the batch.
Resume(s, rest) ==
  /\ pc' = [pc EXCEPT ![s] = IF rest = {} THEN "idle" ELSE "loop"]
  /\ age' = [age EXCEPT ![s] = IF rest = {} THEN 0 ELSE @]

NextRow(s) ==
  /\ Resume(s, batch[s])
  /\ cur' = [cur EXCEPT ![s] = NoClaim]
  /\ UNCHANGED <<batch, elapsed>>

Take(s, x) ==
  /\ pc[s] = "loop"
  /\ x \in batch[s]
  /\ batch' = [batch EXCEPT ![s] = @ \ {x}]
  /\ UNCHANGED <<elapsed, crashVars>>

(* expires_at <= now: the row goes to expired if its status is still the   *)
(* one in the snapshot; the attempt is not compared.                       *)
ExpireRow(s, x) ==
  /\ Take(s, x)
  /\ x.lapsed
  /\ Applies(x.row, x.status, "expired")
  /\ MoveTo(x.row, "expired")
  /\ Resume(s, batch[s] \ {x})
  /\ UNCHANGED <<req, attempt, wait, ttl, cur, historyVars>>

\* Broken variant: the claim is guarded by the status alone.
ClaimWins_StatusOnly(x) == Applies(x.row, x.status, "delivering")

\* The status and attempt the snapshot saw are still the row's.
ClaimWins(x) ==
  /\ Applies(x.row, x.status, "delivering")
  /\ attempt[x.row] = x.attempt

(* The claim: the attempt counter is the race guard, and one write takes   *)
(* the row to delivering, counts the attempt and sets the lease.           *)
Claim(s, x) ==
  /\ Take(s, x)
  /\ ~x.lapsed
  /\ ClaimWins(x)
  /\ MoveTo(x.row, "delivering")
  /\ attempt' = [attempt EXCEPT ![x.row] = x.attempt + 1]
  /\ wait' = [wait EXCEPT ![x.row] = FromScan(s, Lease)]
  /\ cur' = [cur EXCEPT ![s] = [row |-> x.row, attempt |-> x.attempt + 1,
                                epoch |-> epoch[x.row]]]
  /\ pc' = [pc EXCEPT ![s] = "claimed"]
  /\ UNCHANGED <<req, ttl, age, epoch, sends, exited0>>

(* A conflict, or the LookupError of a row purged since the snapshot:      *)
(* skip it and go on with the batch.                                       *)
SkipRow(s, x) ==
  /\ Take(s, x)
  /\ IF x.lapsed THEN ~Applies(x.row, x.status, "expired") ELSE ~ClaimWins(x)
  /\ Resume(s, batch[s] \ {x})
  /\ UNCHANGED <<rowVars, cur, historyVars>>

\* _exec_notify_template spawns the transport command.
Launch(s) ==
  /\ pc[s] = "claimed"
  /\ pc' = [pc EXCEPT ![s] = "sending"]
  /\ elapsed' = [elapsed EXCEPT ![s] = 0]
  /\ sends' = [sends EXCEPT ![cur[s].row] = @ + 1]
  /\ UNCHANGED <<rowVars, batch, cur, age, epoch, exited0, crashVars>>

\* Broken variant: a missing template counts as a successful send.
NoTransport_CountsAsSent(s) ==
  /\ pc[s] = "claimed"
  /\ pc' = [pc EXCEPT ![s] = "ok"]
  /\ UNCHANGED <<rowVars, batch, cur, age, elapsed, historyVars, crashVars>>

\* No template configured, or the command cannot be spawned.
NoTransport(s) ==
  /\ pc[s] = "claimed"
  /\ pc' = [pc EXCEPT ![s] = "failed"]
  /\ UNCHANGED <<rowVars, batch, cur, age, elapsed, historyVars, crashVars>>

\* The command exits zero before the timeout.
TransportOk(s) ==
  /\ pc[s] = "sending"
  /\ pc' = [pc EXCEPT ![s] = "ok"]
  /\ elapsed' = [elapsed EXCEPT ![s] = 0]
  /\ exited0' = exited0 \cup {cur[s].row}
  /\ UNCHANGED <<rowVars, batch, cur, age, epoch, sends, crashVars>>

\* It exits non-zero, or is killed at the timeout.
TransportFails(s) ==
  /\ pc[s] = "sending"
  /\ pc' = [pc EXCEPT ![s] = "failed"]
  /\ elapsed' = [elapsed EXCEPT ![s] = 0]
  /\ UNCHANGED <<rowVars, batch, cur, age, historyVars, crashVars>>

\* Broken variant: off by one.
Exhausted_OffByOne(s) == cur[s].attempt > req[cur[s].row].max

Exhausted(s) == cur[s].attempt >= req[cur[s].row].max

\* Where a send that exited zero takes the row.
AfterSuccess(s) ==
  IF ~req[cur[s].row].ack THEN "delivered"
  ELSE IF Exhausted(s) THEN "dead_letter" ELSE "pending"

(* Settle after success, guarded by the status alone.  A row waiting for   *)
(* its acknowledgement gets its backoff in the same write.                 *)
SettleSuccess(s) ==
  /\ pc[s] = "ok"
  /\ LET r == cur[s].row
         to == AfterSuccess(s)
     IN  IF Applies(r, "delivering", to)
         THEN /\ MoveTo(r, to)
              /\ wait' = IF to = "pending"
                         THEN [wait EXCEPT ![r] = FromScan(s, Backoff(cur[s].attempt))]
                         ELSE wait
         ELSE UNCHANGED <<status, wait>>
  /\ NextRow(s)
  /\ UNCHANGED <<req, attempt, ttl, historyVars, crashVars>>

\* Attempts exhausted: dead-letter the row if it is still delivering.
DeadLetter(s) ==
  /\ pc[s] = "failed"
  /\ Exhausted(s)
  /\ IF Applies(cur[s].row, "delivering", "dead_letter")
     THEN MoveTo(cur[s].row, "dead_letter")
     ELSE UNCHANGED status
  /\ NextRow(s)
  /\ UNCHANGED <<req, attempt, wait, ttl, historyVars, crashVars>>

\* Broken variant: the backoff is written first, the status second.
RequeueFailed_BackoffFirst(s) ==
  /\ pc[s] = "failed"
  /\ ~Exhausted(s)
  /\ wait' = [wait EXCEPT ![cur[s].row] = FromScan(s, Backoff(cur[s].attempt))]
  /\ pc' = [pc EXCEPT ![s] = "backoff"]
  /\ UNCHANGED <<status, req, attempt, ttl, batch, cur, age, elapsed, historyVars, crashVars>>

\* Attempts remain: the status returns to pending, still due at the lease.
RequeueFailed(s) ==
  /\ pc[s] = "failed"
  /\ ~Exhausted(s)
  /\ IF Applies(cur[s].row, "delivering", "pending")
     THEN /\ MoveTo(cur[s].row, "pending")
          /\ pc' = [pc EXCEPT ![s] = "backoff"]
          /\ UNCHANGED <<batch, cur, age, elapsed>>
     ELSE /\ UNCHANGED status
          /\ NextRow(s)
  /\ UNCHANGED <<req, attempt, wait, ttl, historyVars, crashVars>>

\* A second transaction sets next_attempt_at, whatever the row is by then.
SetBackoff(s) ==
  /\ pc[s] = "backoff"
  /\ wait' = IF Exists(cur[s].row)
             THEN [wait EXCEPT ![cur[s].row] = FromScan(s, Backoff(cur[s].attempt))]
             ELSE wait
  /\ NextRow(s)
  /\ UNCHANGED <<status, req, attempt, ttl, historyVars, crashVars>>

(* The process dies, the tick is cancelled, or a database error aborts the *)
(* batch: the rows keep what was committed.  Only the handler of the       *)
(* timeout kills the transport command, so one that was running stays.     *)
Crash(s) ==
  /\ pc[s] # "idle"
  /\ crashes < MaxCrashes
  /\ crashes' = crashes + 1
  /\ pc' = [pc EXCEPT ![s] = "idle"]
  /\ batch' = [batch EXCEPT ![s] = {}]
  /\ cur' = [cur EXCEPT ![s] = NoClaim]
  /\ age' = [age EXCEPT ![s] = 0]
  /\ elapsed' = [elapsed EXCEPT ![s] = 0]
  /\ strays' = IF pc[s] = "sending"
               THEN strays \cup {[row |-> cur[s].row, elapsed |-> elapsed[s]]}
               ELSE strays
  /\ UNCHANGED <<rowVars, historyVars>>

\* A command without a scan ends when it likes, and nobody reads its exit code.
StrayEnds(x) ==
  /\ strays' = strays \ {x}
  /\ UNCHANGED <<rowVars, scanVars, historyVars, crashes>>

-----------------------------------------------------------------------------
(* ack_dispatch with the right token: the transition names the status just *)
(* read, so it writes exactly when the row can go to acked; from any other *)
(* terminal status it raises and writes nothing.                           *)
Ack(r) ==
  /\ Exists(r)
  /\ req[r].ack
  /\ Applies(r, status[r], "acked")
  /\ MoveTo(r, "acked")
  /\ UNCHANGED <<req, attempt, wait, ttl, scanVars, historyVars, crashVars>>

\* retry_dispatch: one guarded write returns the row to a fresh pending.
Retry(r) ==
  /\ status[r] \in {"dead_letter", "expired"}
  /\ epoch[r] < MaxRetries
  /\ Applies(r, status[r], "pending")
  /\ MoveTo(r, "pending")
  /\ attempt' = [attempt EXCEPT ![r] = 0]
  /\ wait' = [wait EXCEPT ![r] = 0]
  /\ epoch' = [epoch EXCEPT ![r] = @ + 1]
  /\ sends' = [sends EXCEPT ![r] = 0]
  /\ UNCHANGED <<req, ttl, scanVars, exited0, crashVars>>

(* purge_dispatch names one row of any status; purge_dispatches takes rows *)
(* of one named status, or terminal rows, up to an updated_at cutoff.      *)
Purge(S) ==
  /\ S # {}
  /\ \A r \in S : Exists(r)
  /\ \/ \A r, o \in S : status[r] = status[o]
     \/ \A r \in S : status[r] \in Terminal
  /\ status' = [r \in Rows |-> IF r \in S THEN "purged" ELSE status[r]]
  /\ UNCHANGED <<req, attempt, wait, ttl, scanVars, historyVars, crashVars>>

-----------------------------------------------------------------------------
\* With Prompt, time passes only in the transport, and never past its timeout.
MayWait(s) ==
  \/ pc[s] = "idle"
  \/ pc[s] = "sending" /\ elapsed[s] < NotifyTimeout

Countdown(n) == Larger(0, n - 1)

Tick ==
  /\ Prompt => \A s \in Scanners : MayWait(s)
  /\ wait' = [r \in Rows |-> IF Exists(r) THEN Countdown(wait[r]) ELSE wait[r]]
  /\ ttl' = [r \in Rows |-> IF Exists(r) /\ ttl[r] # Never
                            THEN Larger(-AgeCap, ttl[r] - 1) ELSE ttl[r]]
  /\ age' = [s \in Scanners |-> IF pc[s] # "idle"
                                THEN Smaller(AgeCap, age[s] + 1) ELSE age[s]]
  /\ elapsed' = [s \in Scanners |-> IF pc[s] = "sending"
                                    THEN Smaller(NotifyTimeout, elapsed[s] + 1)
                                    ELSE elapsed[s]]
  /\ strays' = {[x EXCEPT !.elapsed = Smaller(NotifyTimeout, @ + 1)] : x \in strays}
  /\ UNCHANGED <<status, req, attempt, pc, batch, cur, historyVars, crashes>>

-----------------------------------------------------------------------------
\* What scanner s does by itself once its scan has begun.
Work(s) ==
  \/ \E x \in batch[s] : ExpireRow(s, x) \/ Claim(s, x) \/ SkipRow(s, x)
  \/ Launch(s) \/ NoTransport(s)
  \/ TransportOk(s) \/ TransportFails(s)
  \/ SettleSuccess(s) \/ DeadLetter(s) \/ RequeueFailed(s) \/ SetBackoff(s)

Next ==
  \/ \E r \in Rows, q \in Requests : Enqueue(r, q)
  \/ \E r \in Rows : Ack(r) \/ Retry(r)
  \/ \E S \in SUBSET Rows : Purge(S)
  \/ \E s \in Scanners : Scan(s) \/ Work(s) \/ Crash(s)
  \/ \E x \in strays : StrayEnds(x)
  \/ Tick

Spec == Init /\ [][Next]_vars

(* The scheduler loop keeps ticking and a started scan keeps going; nobody *)
(* has to enqueue, acknowledge, retry, purge or crash, and a command whose *)
(* scan is gone need never end.                                            *)
Fairness ==
  /\ WF_vars(Tick)
  /\ \A s \in Scanners : WF_vars(Scan(s)) /\ WF_vars(Work(s))

FairSpec == Spec /\ Fairness

-----------------------------------------------------------------------------
PCs == {"idle", "loop", "claimed", "sending", "ok", "failed", "backoff"}

TypeOK ==
  /\ status \in [Rows -> Statuses \cup {"absent", "purged"}]
  /\ attempt \in [Rows -> Nat]
  /\ wait \in [Rows -> Nat]
  /\ req \in [Rows -> Requests]
  /\ ttl \in [Rows -> Int \cup {Never}]
  /\ pc \in [Scanners -> PCs]
  /\ batch \in [Scanners -> SUBSET Snapshots]
  /\ cur \in [Scanners -> Claims \cup {NoClaim}]
  /\ \A s \in Scanners : InFlight(s) <=> cur[s] # NoClaim
  /\ age \in [Scanners -> Nat]
  /\ elapsed \in [Scanners -> Nat]
  /\ crashes \in 0..MaxCrashes
  /\ strays \subseteq [row : Rows, elapsed : Nat]
  /\ epoch \in [Rows -> Nat]
  /\ sends \in [Rows -> Nat]
  /\ exited0 \subseteq Rows

-----------------------------------------------------------------------------
(* The attempt counter serialises claims: between two operator retries no  *)
(* two scanners ever hold a claim with the same attempt number, whatever   *)
(* scans overlap, stall or die (the guard {"attempt": ...} of the claim in *)
(* _deliver_one_due_row).  Two scanners MAY hold claims with different     *)
(* numbers once a lease has lapsed.                                        *)
OneClaimPerAttempt ==
  \A s, t \in Scanners :
    s # t /\ InFlight(s) /\ InFlight(t) => cur[s] # cur[t]

(* Why it holds: a claim's number is never above the counter of its row,    *)
(* unless the counter was reset by a retry since the claim.                *)
ClaimInv ==
  /\ OneClaimPerAttempt
  /\ \A s \in Scanners :
       InFlight(s) => /\ cur[s].epoch <= epoch[cur[s].row]
                      /\ cur[s].epoch = epoch[cur[s].row] =>
                           cur[s].attempt <= attempt[cur[s].row]

(* The module docstring: a delivered row means the configured transport    *)
(* command exited zero, and such a row needs no acknowledgement; an acked  *)
(* row is one that required it.                                            *)
SettledAsPromised ==
  \A r \in Rows :
    /\ status[r] = "delivered" => r \in exited0 /\ ~req[r].ack
    /\ status[r] = "acked" => req[r].ack

\* Why it holds: a scanner about to settle a success has seen the exit code,
\* and works on a row that was enqueued.
SettleInv ==
  /\ SettledAsPromised
  /\ \A s \in Scanners : pc[s] = "ok" => cur[s].row \in exited0
  /\ \A s \in Scanners : InFlight(s) => status[cur[s].row] # "absent"

(* enqueue_dispatch: max_attempts bounds delivery.  The claim does not      *)
(* compare the counter with it, so a claim that was cut short is made      *)
(* again, and again if it is cut short once more: every scan that died     *)
(* costs at most one launch more than max_attempts (where even             *)
(* max_attempts = 0 allows the first), and an overlapping scan costs none. *)
SendsWithinBudget ==
  \A r \in Rows : sends[r] <= Larger(1, req[r].max) + crashes

(* deliver_due_dispatches: the lease and the counter together keep         *)
(* overlapping scans from double-delivering.  Two scans never have a       *)
(* transport command for one row running at once, and a row whose scan was *)
(* cut short is not sent again while its command is within the timeout     *)
(* that scan would have enforced.  A command that outlives it can overlap  *)
(* the next send: nothing in the code kills it.                            *)
NoOverlappingSends ==
  \A s \in Scanners : pc[s] = "sending" =>
    /\ \A t \in Scanners \ {s} : pc[t] = "sending" => cur[t].row # cur[s].row
    /\ \A x \in strays : x.row = cur[s].row => x.elapsed >= NotifyTimeout

(* _CLAIM_LEASE_SECONDS: a claim nobody is working on any more becomes due *)
(* again within one lease.                                                 *)
RecoverableWithinLease ==
  \A r \in Rows :
    status[r] = "delivering" /\ (\A s \in Scanners : ~WorksOn(s, r)) => wait[r] <= Lease

(* ADR-0059: expiry wins before a new attempt.  The scan compares          *)
(* expires_at with the `now` it captured, so a row behind others in the    *)
(* batch may be launched after its deadline, but never later than their    *)
(* transports can explain: the first is always in time.                    *)
LateByTheBatchOnly ==
  [][\A s \in Scanners :
       (pc[s] = "claimed" /\ pc'[s] = "sending" /\ ttl[cur[s].row] # Never) =>
         ttl[cur[s].row] + NotifyTimeout * (Cardinality(Rows) - 1) > 0]_vars

(* Durability with bounded retries: every row that was accepted leaves     *)
(* pending and delivering, i.e. is delivered, acked, given up or purged.   *)
EveryRowSettles ==
  \A r \in Rows : status[r] \in Live ~> status[r] \notin Live

\* A row as a producer sees it.
PhaseOf(st) ==
  CASE st \in Live -> "open"
    [] st \in {"dead_letter", "expired"} -> "failed"
    [] OTHER -> st

phaseOf == [r \in Rows |-> PhaseOf(status[r])]
needsAckOf == [r \in Rows |-> req[r].ack]

Contract ==
  INSTANCE DispatchContract WITH phase <- phaseOf, needsAck <- needsAckOf

(* The outbox implements its contract: delivered and acked are final, a    *)
(* failed row is reopened only by retry_dispatch, and no race of scans,    *)
(* acknowledgements, retries and purges settles a row any other way.       *)
ImplementsContract == Contract!Spec
=============================================================================
